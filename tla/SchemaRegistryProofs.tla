------------------------ MODULE SchemaRegistryProofs ------------------------
(***************************************************************************)
(* Proofs about SchemaRegistry, for every graph of types, all candidate    *)
(* names and every sequence of calls.                                      *)
(***************************************************************************)
EXTENDS SchemaRegistry, SequenceTheorems, FiniteSetTheorems, TLAPS

---------------------------------------------------------------------------
(* The inductive invariant. *)

\* The structs being described are described once each, and have their placeholder.
OpenOnce ==
  \A i \in DOMAIN frames : Kind(frames[i].type) = "named" =>
    /\ frames[i].type \in DOMAIN names /\ names[frames[i].type] \in DOMAIN components
    /\ \A j \in DOMAIN frames : frames[j].type = frames[i].type => j = i

\* Until an error, whatever refers to a component refers to one that is there, be
\* it a placeholder.
NoneDangling ==
  mode \notin {"error", "failed"} =>
    /\ mode = "idle" => frames = <<>>
    /\ returned \subseteq DOMAIN components
    /\ \A n \in DOMAIN components : components[n].refs \subseteq DOMAIN components
    /\ \A i \in DOMAIN frames : frames[i].refs \subseteq DOMAIN components

\* What every step keeps.
Inductive == TypeOK /\ NamesApart /\ ComponentsOwned /\ OpenOnce /\ NoneDangling

---------------------------------------------------------------------------
(* What the helpers return. *)

\* An entry is added or replaced, and no other entry changes.
LEMMA WithEntry ==
  ASSUME NEW f, NEW x, NEW y
  PROVE  /\ DOMAIN With(f, x, y) = DOMAIN f \cup {x}
         /\ With(f, x, y)[x] = y
         /\ \A z \in DOMAIN f : z # x => With(f, x, y)[z] = f[z]
BY DEF With

LEMMA WithoutEntry ==
  ASSUME NEW f, NEW x
  PROVE  /\ DOMAIN Without(f, x) = DOMAIN f \ {x}
         /\ \A z \in DOMAIN f : z # x => Without(f, x)[z] = f[z]
BY DEF Without

\* A name that is not the type's own is one no type has.
LEMMA NameOrigin ==
  ASSUME NEW t \in Types, NEW name \in ComponentName(t), TypeOK
  PROVE  /\ name \in Strings
         /\ t \in DOMAIN names => name = names[t]
         /\ t \notin DOMAIN names => name \notin DOMAIN used
<1>1. CASE t \in DOMAIN names
  <2>1. name = names[t]
    BY <1>1 DEF ComponentName
  <2> QED
    BY <1>1, <2>1 DEF TypeOK
<1>2. CASE t \notin DOMAIN names
  <2>1. PICK k \in DOMAIN Candidate[t] : name = Candidate[t][k] /\ name \notin DOMAIN used
    BY <1>2 DEF ComponentName, FreshName
  <2>2. Candidate[t] \in Seq(Strings)
    BY NamesAssumption
  <2>3. Candidate[t][k] \in Strings
    BY <2>1, <2>2, ElementOfSeq, LenProperties
  <2> QED
    BY <1>2, <2>1, <2>3
<1> QED
  BY <1>1, <1>2

\* Giving a type its name keeps the names apart, and every name that was given.
LEMMA NameKeeps ==
  ASSUME NEW t \in Types, NEW name \in ComponentName(t), TypeOK, NamesApart, Name(t, name)
  PROVE  /\ NamesApart'
         /\ names' \in [DOMAIN names' -> Strings] /\ DOMAIN names' = DOMAIN names \cup {t}
         /\ used' \in [DOMAIN used' -> Types] /\ DOMAIN used' = DOMAIN used \cup {name}
         /\ name \in Strings /\ names'[t] = name /\ used'[name] = t
         /\ \A u \in DOMAIN names : names'[u] = names[u]
         /\ \A n \in DOMAIN used : used'[n] = used[n]
<1>1. /\ name \in Strings
      /\ t \in DOMAIN names => name = names[t]
      /\ t \notin DOMAIN names => name \notin DOMAIN used
  BY NameOrigin
<1>2. names' = With(names, t, name) /\ used' = With(used, name, t)
  BY DEF Name
<1>3. /\ DOMAIN names' = DOMAIN names \cup {t} /\ names'[t] = name
      /\ \A u \in DOMAIN names : u # t => names'[u] = names[u]
  BY <1>2 DEF With
<1>4. /\ DOMAIN used' = DOMAIN used \cup {name} /\ used'[name] = t
      /\ \A n \in DOMAIN used : n # name => used'[n] = used[n]
  BY <1>2 DEF With
<1>5. /\ \A u \in DOMAIN names : names'[u] = names[u]
      /\ \A n \in DOMAIN used : used'[n] = used[n]
  BY <1>1, <1>3, <1>4 DEF NamesApart
<1>6. names' \in [DOMAIN names' -> Strings]
  BY <1>1, <1>2 DEF With, TypeOK
<1>7. used' \in [DOMAIN used' -> Types]
  BY <1>2 DEF With, TypeOK
<1>8. NamesApart'
  BY <1>1, <1>3, <1>4, <1>5 DEF NamesApart
<1> QED
  BY <1>1, <1>3, <1>4, <1>5, <1>6, <1>7, <1>8

---------------------------------------------------------------------------
(* The stack of activations. *)

\* Two stacks describe the same types in the same order.
SameTypes(fs, gs) == Len(fs) = Len(gs) /\ \A i \in 1 .. Len(fs) : fs[i].type = gs[i].type

LEMMA TopFrame ==
  ASSUME frames \in Seq(FrameType), frames # <<>>
  PROVE  /\ Len(frames) \in Nat \ {0} /\ Top \in FrameType
         /\ Below \in Seq(FrameType) /\ Len(Below) = Len(frames) - 1
         /\ \A i \in 1 .. Len(Below) : Below[i] = frames[i]
<1>1. Len(frames) \in Nat \ {0}
  BY EmptySeq
<1>2. \A i \in 1 .. Len(frames) : frames[i] \in FrameType
  BY ElementOfSeq
<1>3. Top \in FrameType
  BY <1>1, <1>2 DEF Top
<1> DEFINE n == Len(frames) - 1
<1>4. n \in Int /\ \A i \in 1 .. n : frames[i] \in FrameType
  BY <1>1, <1>2
<1>5. /\ Below \in Seq(FrameType) /\ Len(Below) = (IF 1 <= n THEN n - 1 + 1 ELSE 0)
      /\ \A i \in 1 .. n - 1 + 1 : Below[i] = frames[1 + i - 1]
  <2> HIDE DEF n
  <2>1. Below = SubSeq(frames, 1, n)
    BY DEF Below, n
  <2> QED
    BY <1>4, <2>1, SubSeqProperties
<1>6. Len(Below) = n
  <2>1. \A l \in Nat \ {0} : l - 1 \in Nat /\ (1 <= l - 1 \/ l - 1 = 0)
    OBVIOUS
  <2>2. n \in Nat /\ (1 <= n \/ n = 0)
    BY <1>1, <2>1
  <2> HIDE DEF n
  <2> QED
    BY <1>5, <2>2
<1>7. \A i \in 1 .. Len(Below) : Below[i] = frames[i]
  BY <1>1, <1>5, <1>6
<1> QED
  BY <1>1, <1>3, <1>5, <1>6, <1>7

\* An answer goes to the activation below, which keeps its type, or into the
\* document.
LEMMA ReturnKeeps ==
  ASSUME NEW below \in Seq(FrameType), NEW refs \in SUBSET Strings,
         TypeOK, Return(refs, below)
  PROVE  /\ frames' \in Seq(FrameType) /\ SameTypes(frames', below)
         /\ mode' \in {"idle", "visit"} /\ (mode' = "idle" <=> frames' = <<>>)
         /\ UNCHANGED <<graph, arg, calls, asked>>
         /\ returned' \subseteq returned \cup refs
         /\ \A i \in DOMAIN frames' : frames'[i].refs \subseteq below[i].refs \cup refs
<1>0. UNCHANGED <<graph, arg, calls, asked>>
  BY DEF Return, history
<1>1. CASE below = <<>>
  BY <1>0, <1>1, EmptySeq DEF Return, SameTypes
<1>2. CASE below # <<>>
  <2> DEFINE n == Len(below)
             top == Answered(below[n], refs)
  <2>1. n \in Nat \ {0} /\ DOMAIN below = 1 .. n
    BY <1>2, EmptySeq, LenProperties
  <2>2. below[n] \in FrameType
    BY <2>1, ElementOfSeq
  <2>3. top \in FrameType /\ top.type = below[n].type /\ top.refs = below[n].refs \cup refs
    BY <2>2 DEF FrameType, Answered
  <2>4. frames' = [below EXCEPT ![n] = top] /\ mode' = "visit" /\ UNCHANGED returned
    BY <1>2 DEF Return
  <2> HIDE DEF top
  <2>5. /\ frames' \in Seq(FrameType) /\ Len(frames') = n
        /\ \A i \in 1 .. n : frames'[i] = IF i = n THEN top ELSE below[i]
    BY <2>1, <2>3, <2>4, ExceptSeq
  <2>6. DOMAIN frames' = 1 .. n /\ frames' # <<>>
    BY <2>1, <2>5, LenProperties, EmptySeq
  <2>7. SameTypes(frames', below)
    BY <2>3, <2>5 DEF SameTypes
  <2>8. \A i \in DOMAIN frames' : frames'[i].refs \subseteq below[i].refs \cup refs
    BY <2>3, <2>5, <2>6
  <2> QED
    BY <1>0, <2>4, <2>5, <2>6, <2>7, <2>8
<1> QED
  BY <1>1, <1>2

\* The types of the open activations, before and after a step that keeps the
\* stack's types, opens an activation, or closes one.
LEMMA OpenKept ==
  ASSUME frames \in Seq(FrameType), frames' \in Seq(FrameType), SameTypes(frames', frames)
  PROVE  Open' = Open
<1>1. DOMAIN frames = 1 .. Len(frames) /\ DOMAIN frames' = 1 .. Len(frames')
  BY LenProperties
<1> QED
  BY <1>1 DEF Open, SameTypes

LEMMA OpenGrows ==
  ASSUME frames \in Seq(FrameType), NEW t \in Types, frames' = Append(frames, Frame(t))
  PROVE  /\ frames' \in Seq(FrameType) /\ Open' = Open \cup {t}
         /\ DOMAIN frames' = DOMAIN frames \cup {Len(frames) + 1}
         /\ Len(frames) + 1 \notin DOMAIN frames
         /\ \A i \in DOMAIN frames : frames'[i] = frames[i]
         /\ frames'[Len(frames) + 1] = Frame(t)
<1>1. Frame(t) \in FrameType /\ Frame(t).type = t
  BY DEF Frame, FrameType
<1>2. /\ frames' \in Seq(FrameType) /\ Len(frames') = Len(frames) + 1
      /\ \A i \in 1 .. Len(frames) : frames'[i] = frames[i]
      /\ frames'[Len(frames) + 1] = Frame(t)
  BY <1>1, AppendProperties
<1>3. Len(frames) \in Nat /\ DOMAIN frames = 1 .. Len(frames) /\ DOMAIN frames' = 1 .. Len(frames')
  BY <1>2, LenProperties
<1>4. DOMAIN frames' = DOMAIN frames \cup {Len(frames) + 1} /\ Len(frames) + 1 \notin DOMAIN frames
  BY <1>2, <1>3
<1>5. Open' = Open \cup {t}
  BY <1>1, <1>2, <1>3, <1>4 DEF Open
<1> QED
  BY <1>2, <1>3, <1>4, <1>5

LEMMA OpenShrinks ==
  ASSUME frames \in Seq(FrameType), frames # <<>>, frames' \in Seq(FrameType),
         SameTypes(frames', Below)
  PROVE  /\ Open = Open' \cup {Top.type} /\ DOMAIN frames' \subseteq DOMAIN frames
         /\ \A i \in DOMAIN frames' : frames'[i].type = frames[i].type /\ i # Len(frames)
         /\ Len(frames) \in DOMAIN frames
<1>1. /\ Len(frames) \in Nat \ {0} /\ Len(Below) = Len(frames) - 1
      /\ \A i \in 1 .. Len(Below) : Below[i] = frames[i]
  BY TopFrame
<1>2. DOMAIN frames = 1 .. Len(frames) /\ DOMAIN frames' = 1 .. Len(frames')
  BY LenProperties
<1>3. /\ DOMAIN frames = DOMAIN frames' \cup {Len(frames)}
      /\ \A i \in DOMAIN frames' : frames'[i].type = frames[i].type /\ i # Len(frames)
  BY <1>1, <1>2 DEF SameTypes
<1>4. Open = Open' \cup {Top.type}
  BY <1>3 DEF Open, Top
<1> QED
  BY <1>3, <1>4

---------------------------------------------------------------------------
(* What steps that leave the registry alone keep. *)

\* A registry no step touches, under a stack of the same types.
LEMMA SameStackKeeps ==
  ASSUME Inductive, frames' \in Seq(FrameType), SameTypes(frames', frames),
         UNCHANGED <<registry, graph>>
  PROVE  NamesApart' /\ ComponentsOwned' /\ OpenOnce'
<1>1. NamesApart'
  BY DEF Inductive, NamesApart, registry
<1>2. Open' = Open
  BY OpenKept DEF Inductive, TypeOK
<1>3. ComponentsOwned'
  BY <1>2 DEF Inductive, ComponentsOwned, Kind, registry
<1>4. DOMAIN frames' = DOMAIN frames /\ \A i \in DOMAIN frames : frames'[i].type = frames[i].type
  BY LenProperties DEF Inductive, TypeOK, SameTypes
<1>5. OpenOnce'
  BY <1>4 DEF Inductive, OpenOnce, Kind, registry
<1> QED
  BY <1>1, <1>3, <1>5

LEMMA SameFramesKeep ==
  ASSUME Inductive, UNCHANGED <<registry, graph, frames>>
  PROVE  NamesApart' /\ ComponentsOwned' /\ OpenOnce'
<1>1. frames' \in Seq(FrameType) /\ SameTypes(frames', frames)
  BY DEF Inductive, TypeOK, SameTypes
<1> QED
  BY <1>1, SameStackKeeps

\* An answer whose references are there leaves no reference dangling.
LEMMA ReturnResolves ==
  ASSUME TypeOK, NEW below \in Seq(FrameType), NEW refs \in SUBSET Strings, Return(refs, below),
         refs \cup returned \subseteq DOMAIN components',
         \A n \in DOMAIN components' : components'[n].refs \subseteq DOMAIN components',
         \A i \in DOMAIN below : below[i].refs \subseteq DOMAIN components'
  PROVE  NoneDangling'
<1>1. /\ frames' \in Seq(FrameType) /\ SameTypes(frames', below)
      /\ mode' = "idle" <=> frames' = <<>>
      /\ returned' \subseteq returned \cup refs
      /\ \A i \in DOMAIN frames' : frames'[i].refs \subseteq below[i].refs \cup refs
  BY ReturnKeeps
<1>2. DOMAIN frames' = DOMAIN below
  BY <1>1, LenProperties DEF SameTypes
<1> QED
  BY <1>1, <1>2 DEF NoneDangling

\* The types after an answer.
LEMMA ReturnTypes ==
  ASSUME TypeOK, NEW below \in Seq(FrameType), NEW refs \in SUBSET Strings, Return(refs, below),
         DOMAIN components' \subseteq Strings,
         \A n \in DOMAIN components' : components'[n] \in [done : BOOLEAN, refs : SUBSET Strings],
         names' \in [DOMAIN names' -> Strings], DOMAIN names' \subseteq Types,
         used' \in [DOMAIN used' -> Types], DOMAIN used' \subseteq Strings
  PROVE  TypeOK'
<1>1. /\ frames' \in Seq(FrameType)
      /\ mode' \in {"idle", "visit"} /\ (mode' = "idle" <=> frames' = <<>>)
      /\ UNCHANGED <<graph, arg, calls, asked>>
      /\ returned' \subseteq returned \cup refs
  BY ReturnKeeps
<1>2. returned' \subseteq Strings
  BY <1>1 DEF TypeOK
<1> QED
  BY <1>1, <1>2 DEF TypeOK

---------------------------------------------------------------------------
(* One lemma per action of Next. *)

LEMMA RefKeeps ==
  ASSUME Inductive, NEW t \in Types, Ref(t)
  PROVE  Inductive'
<1>1. TypeOK'
  BY DEF Ref, Inductive, TypeOK, registry
<1>2. NamesApart' /\ ComponentsOwned' /\ OpenOnce'
  BY SameFramesKeep DEF Ref
<1>3. NoneDangling'
  BY DEF Ref, Inductive, NoneDangling, registry
<1> QED
  BY <1>1, <1>2, <1>3 DEF Inductive

LEMMA LeafKeeps ==
  ASSUME Inductive, Leaf
  PROVE  Inductive'
<1>1. Return({}, frames) /\ UNCHANGED registry /\ mode = "call"
  BY DEF Leaf, Calling
<1>2. frames \in Seq(FrameType) /\ TypeOK
  BY DEF Inductive, TypeOK
<1>3. TypeOK'
  BY <1>1, <1>2, ReturnTypes DEF TypeOK, registry
<1>4. frames' \in Seq(FrameType) /\ SameTypes(frames', frames) /\ UNCHANGED graph
  BY <1>1, <1>2, ReturnKeeps
<1>5. NamesApart' /\ ComponentsOwned' /\ OpenOnce'
  BY <1>1, <1>4, SameStackKeeps
<1>6. NoneDangling'
  BY <1>1, <1>2, ReturnResolves DEF Inductive, NoneDangling, registry
<1> QED
  BY <1>3, <1>5, <1>6 DEF Inductive

\* A refused type.
LEMMA FailKeeps ==
  ASSUME Inductive, Fail
  PROVE  Inductive'
<1>1. TypeOK'
  BY DEF Fail, Inductive, TypeOK, registry, history
<1>2. NamesApart' /\ ComponentsOwned' /\ OpenOnce'
  BY SameFramesKeep DEF Fail, history
<1>3. NoneDangling'
  BY DEF Fail, NoneDangling
<1> QED
  BY <1>1, <1>2, <1>3 DEF Inductive

LEMMA DescendKeeps ==
  ASSUME Inductive, Descend
  PROVE  Inductive'
<1>1. Top \in FrameType
  BY TopFrame DEF Descend, Inductive, TypeOK
<1>2. Parts(Top.type) \in Seq(Types) /\ Top.at \in Nat \ {0} /\ Top.at <= Len(Parts(Top.type))
  BY <1>1 DEF Descend, Inductive, TypeOK, FrameType, Parts
<1>3. arg' \in Types
  <2>1. Top.at \in 1 .. Len(Parts(Top.type))
    BY <1>2, LenProperties
  <2> QED
    BY <1>2, <2>1, ElementOfSeq DEF Descend
<1>4. TypeOK'
  BY <1>3 DEF Descend, Inductive, TypeOK, registry, history
<1>5. NamesApart' /\ ComponentsOwned' /\ OpenOnce'
  BY SameFramesKeep DEF Descend, history
<1>6. NoneDangling'
  BY DEF Descend, Inductive, NoneDangling, registry
<1> QED
  BY <1>4, <1>5, <1>6 DEF Inductive

LEMMA AbortKeeps ==
  ASSUME Inductive, Abort
  PROVE  Inductive'
<1>1. TypeOK'
  BY DEF Abort, Inductive, TypeOK, registry, history
<1>2. NamesApart' /\ ComponentsOwned' /\ OpenOnce'
  BY SameFramesKeep DEF Abort, history
<1>3. NoneDangling'
  BY DEF Abort, NoneDangling
<1> QED
  BY <1>1, <1>2, <1>3 DEF Inductive

LEMMA ExhaustKeeps ==
  ASSUME Inductive, Exhaust
  PROVE  Inductive'
<1>1. TypeOK'
  BY DEF Exhaust, Inductive, TypeOK, registry, history
<1>2. NamesApart' /\ ComponentsOwned' /\ OpenOnce'
  BY SameFramesKeep DEF Exhaust, history
<1>3. NoneDangling'
  BY DEF Exhaust, Inductive, NoneDangling, registry
<1> QED
  BY <1>1, <1>2, <1>3 DEF Inductive

LEMMA StutterKeeps ==
  ASSUME Inductive, UNCHANGED vars
  PROVE  Inductive'
<1>1. TypeOK'
  BY DEF vars, Inductive, TypeOK
<1>2. NamesApart' /\ ComponentsOwned' /\ OpenOnce'
  BY SameFramesKeep DEF vars, registry
<1>3. NoneDangling'
  BY DEF vars, Inductive, NoneDangling
<1> QED
  BY <1>1, <1>2, <1>3 DEF Inductive

\* A wrapper or an anonymous struct is opened: it has no component.
LEMMA EnterInlineKeeps ==
  ASSUME Inductive, EnterInline
  PROVE  Inductive'
<1>1. /\ mode = "call" /\ Kind(arg) # "named" /\ arg \in Types /\ frames \in Seq(FrameType)
      /\ frames' = Append(frames, Frame(arg)) /\ mode' = "visit"
      /\ UNCHANGED <<registry, arg, history, returned>>
  BY DEF EnterInline, Calling, Push, Inductive, TypeOK
<1>2. /\ frames' \in Seq(FrameType) /\ Open' = Open \cup {arg}
      /\ DOMAIN frames' = DOMAIN frames \cup {Len(frames) + 1}
      /\ Len(frames) + 1 \notin DOMAIN frames
      /\ \A i \in DOMAIN frames : frames'[i] = frames[i]
      /\ frames'[Len(frames) + 1] = Frame(arg)
  BY <1>1, OpenGrows
<1>3. Frame(arg).type = arg /\ Frame(arg).refs = {}
  BY DEF Frame
<1>4. frames' # <<>>
  BY <1>2
<1>5. TypeOK'
  BY <1>1, <1>2, <1>4 DEF Inductive, TypeOK, registry, history
<1>6. NamesApart'
  BY <1>1 DEF Inductive, NamesApart, registry
<1>7. ComponentsOwned'
  <2>1. \A n \in DOMAIN components : used[n] # arg
    BY <1>1 DEF Inductive, ComponentsOwned
  <2> QED
    BY <1>1, <1>2, <2>1 DEF Inductive, ComponentsOwned, Kind, registry, history
<1>8. OpenOnce'
  <2> HIDE DEF Frame
  <2>1. ASSUME NEW i \in DOMAIN frames', Kind(frames'[i].type) = "named"
        PROVE  /\ i \in DOMAIN frames /\ frames'[i].type = frames[i].type
               /\ \A j \in DOMAIN frames' : frames'[j].type = frames'[i].type => j \in DOMAIN frames
    BY <1>1, <1>2, <1>3, <2>1
  <2> QED
    BY <1>1, <1>2, <2>1 DEF Inductive, OpenOnce, Kind, registry, history
<1>9. NoneDangling'
  BY <1>1, <1>2, <1>3 DEF Inductive, NoneDangling, registry
<1> QED
  BY <1>5, <1>6, <1>7, <1>8, <1>9 DEF Inductive

\* A named struct that has its component: it keeps its name.
LEMMA KnownKeeps ==
  ASSUME Inductive, Known
  PROVE  Inductive'
<1>1. PICK name \in ComponentName(arg) :
        name \in DOMAIN components /\ Name(arg, name) /\ Return({name}, frames)
  BY DEF Known
<1>2. arg \in Types /\ frames \in Seq(FrameType) /\ mode = "call" /\ UNCHANGED components
  BY DEF Known, Calling, Inductive, TypeOK
<1>3. /\ NamesApart'
      /\ names' \in [DOMAIN names' -> Strings] /\ DOMAIN names' = DOMAIN names \cup {arg}
      /\ used' \in [DOMAIN used' -> Types] /\ DOMAIN used' = DOMAIN used \cup {name}
      /\ name \in Strings
      /\ \A u \in DOMAIN names : names'[u] = names[u]
      /\ \A n \in DOMAIN used : used'[n] = used[n]
  BY <1>1, <1>2, NameKeeps DEF Inductive
<1>4. /\ frames' \in Seq(FrameType) /\ SameTypes(frames', frames) /\ UNCHANGED graph
      /\ Open' = Open
  BY <1>1, <1>2, <1>3, ReturnKeeps, OpenKept DEF Inductive
<1>5. TypeOK'
  <2>1. DOMAIN names' \subseteq Types /\ DOMAIN used' \subseteq Strings
    BY <1>2, <1>3 DEF Inductive, TypeOK
  <2>2. /\ DOMAIN components' \subseteq Strings
        /\ \A n \in DOMAIN components' : components'[n] \in [done : BOOLEAN, refs : SUBSET Strings]
    BY <1>2 DEF Inductive, TypeOK
  <2> QED
    BY <1>1, <1>2, <1>3, <2>1, <2>2, ReturnTypes DEF Inductive
<1>6. ComponentsOwned'
  BY <1>2, <1>3, <1>4 DEF Inductive, ComponentsOwned, Kind
<1>7. OpenOnce'
  <2>1. DOMAIN frames' = DOMAIN frames /\ \A i \in DOMAIN frames : frames'[i].type = frames[i].type
    BY <1>2, <1>4, LenProperties DEF SameTypes
  <2> QED
    BY <1>2, <1>3, <1>4, <2>1 DEF Inductive, OpenOnce, Kind
<1>8. NoneDangling'
  BY <1>1, <1>2, <1>3, ReturnResolves DEF Inductive, NoneDangling
<1> QED
  BY <1>3, <1>5, <1>6, <1>7, <1>8 DEF Inductive

\* A named struct without one gets a placeholder, and is not being described yet.
LEMMA EnterNamedKeeps ==
  ASSUME Inductive, EnterNamed
  PROVE  Inductive'
<1> DEFINE empty == [done |-> FALSE, refs |-> {}]
<1>1. PICK name \in ComponentName(arg) :
        name \notin DOMAIN components /\ Name(arg, name) /\ components' = With(components, name, empty)
  BY DEF EnterNamed
<1>2. /\ arg \in Types /\ frames \in Seq(FrameType) /\ mode = "call" /\ Kind(arg) = "named"
      /\ frames' = Append(frames, Frame(arg)) /\ mode' = "visit"
      /\ UNCHANGED <<arg, history, returned>>
  BY DEF EnterNamed, Calling, Push, Inductive, TypeOK
<1>3. /\ NamesApart'
      /\ names' \in [DOMAIN names' -> Strings] /\ DOMAIN names' = DOMAIN names \cup {arg}
      /\ used' \in [DOMAIN used' -> Types] /\ DOMAIN used' = DOMAIN used \cup {name}
      /\ name \in Strings /\ names'[arg] = name /\ used'[name] = arg
      /\ \A u \in DOMAIN names : names'[u] = names[u]
      /\ \A n \in DOMAIN used : used'[n] = used[n]
  BY <1>1, <1>2, NameKeeps DEF Inductive
<1>4. /\ DOMAIN components' = DOMAIN components \cup {name} /\ components'[name] = empty
      /\ \A n \in DOMAIN components : components'[n] = components[n]
  BY <1>1 DEF With
<1>5. /\ frames' \in Seq(FrameType) /\ Open' = Open \cup {arg}
      /\ DOMAIN frames' = DOMAIN frames \cup {Len(frames) + 1}
      /\ Len(frames) + 1 \notin DOMAIN frames
      /\ \A i \in DOMAIN frames : frames'[i] = frames[i]
      /\ frames'[Len(frames) + 1] = Frame(arg)
  BY <1>2, OpenGrows
<1>6. Frame(arg).type = arg /\ Frame(arg).refs = {}
  BY DEF Frame
<1>7. arg \notin DOMAIN names \/ names[arg] \notin DOMAIN components
  BY <1>1, <1>3
<1>8. TypeOK'
  <2>1. DOMAIN names' \subseteq Types /\ DOMAIN used' \subseteq Strings /\ frames' # <<>>
    BY <1>2, <1>3, <1>5 DEF Inductive, TypeOK
  <2>2. empty \in [done : BOOLEAN, refs : SUBSET Strings]
    OBVIOUS
  <2> HIDE DEF empty
  <2>3. /\ DOMAIN components' \subseteq Strings
        /\ \A n \in DOMAIN components' : components'[n] \in [done : BOOLEAN, refs : SUBSET Strings]
    BY <1>3, <1>4, <2>2 DEF Inductive, TypeOK
  <2> QED
    BY <1>2, <1>3, <1>5, <2>1, <2>3 DEF Inductive, TypeOK, history
<1>9. ComponentsOwned'
  <2>1. \A n \in DOMAIN components : used[n] # arg
    BY <1>7 DEF Inductive, ComponentsOwned, NamesApart
  <2>2. empty.done = FALSE
    OBVIOUS
  <2> HIDE DEF empty
  <2>3. DOMAIN components' \subseteq DOMAIN used'
    BY <1>3, <1>4 DEF Inductive, ComponentsOwned
  <2>4. ASSUME NEW n \in DOMAIN components
        PROVE  Kind(used'[n]) = "named" /\ (components'[n].done <=> used'[n] \notin Open')
    BY <1>3, <1>4, <1>5, <2>1 DEF Inductive, ComponentsOwned
  <2>5. Kind(used'[name]) = "named" /\ (components'[name].done <=> used'[name] \notin Open')
    BY <1>2, <1>3, <1>4, <1>5, <2>2
  <2>6. graph' = graph
    BY <1>2 DEF history
  <2> QED
    BY <1>4, <2>3, <2>4, <2>5, <2>6 DEF ComponentsOwned, Kind
<1>10. OpenOnce'
  <2>1. \A i \in DOMAIN frames : frames[i].type # arg
    BY <1>2, <1>7 DEF Inductive, OpenOnce
  <2>2. graph' = graph
    BY <1>2 DEF history
  <2> HIDE DEF empty
  <2>3. ASSUME NEW i \in DOMAIN frames, Kind(frames'[i].type) = "named"
        PROVE  /\ frames'[i].type \in DOMAIN names' /\ names'[frames'[i].type] \in DOMAIN components'
               /\ \A j \in DOMAIN frames' : frames'[j].type = frames'[i].type => j = i
    <3>1. /\ frames[i].type \in DOMAIN names /\ names[frames[i].type] \in DOMAIN components
          /\ \A j \in DOMAIN frames : frames[j].type = frames[i].type => j = i
      BY <1>5, <2>3 DEF Inductive, OpenOnce
    <3> QED
      BY <1>3, <1>4, <1>5, <1>6, <2>1, <3>1
  <2> DEFINE k == Len(frames) + 1
  <2>4. /\ frames'[k].type \in DOMAIN names' /\ names'[frames'[k].type] \in DOMAIN components'
        /\ \A j \in DOMAIN frames' : frames'[j].type = frames'[k].type => j = k
    BY <1>3, <1>4, <1>5, <1>6, <2>1
  <2> HIDE DEF k
  <2>5. DOMAIN frames' = DOMAIN frames \cup {k}
    BY <1>5 DEF k
  <2> QED
    BY <2>2, <2>3, <2>4, <2>5 DEF OpenOnce, Kind
<1>11. NoneDangling'
  <2>1. empty.refs = {}
    OBVIOUS
  <2> HIDE DEF empty
  <2>2. mode \notin {"error", "failed"} /\ mode' = "visit"
    BY <1>2
  <2>3. /\ returned' \subseteq DOMAIN components'
        /\ \A n \in DOMAIN components' : components'[n].refs \subseteq DOMAIN components'
    BY <1>2, <1>4, <2>1, <2>2 DEF Inductive, NoneDangling
  <2>4. \A i \in DOMAIN frames' : frames'[i].refs \subseteq DOMAIN components'
    BY <1>4, <1>5, <1>6, <2>2 DEF Inductive, NoneDangling
  <2> QED
    BY <2>2, <2>3, <2>4 DEF NoneDangling
<1> QED
  BY <1>3, <1>8, <1>9, <1>10, <1>11 DEF Inductive

\* The stack without its top: what is left is as it was, and a named struct on the
\* top was nowhere below.
LEMMA ClosedOnce ==
  ASSUME Inductive, frames # <<>>, frames' \in Seq(FrameType), SameTypes(frames', Below)
  PROVE  /\ Top \in FrameType /\ Open = Open' \cup {Top.type}
         /\ DOMAIN frames' \subseteq DOMAIN frames
         /\ \A i \in DOMAIN frames' : frames'[i].type = frames[i].type
         /\ Kind(Top.type) = "named" =>
              /\ Top.type \in DOMAIN names /\ names[Top.type] \in DOMAIN components
              /\ Top.type \notin Open' /\ \A i \in DOMAIN frames' : frames'[i].type # Top.type
<1>1. frames \in Seq(FrameType)
  BY DEF Inductive, TypeOK
<1>2. /\ Open = Open' \cup {Top.type} /\ DOMAIN frames' \subseteq DOMAIN frames
      /\ \A i \in DOMAIN frames' : frames'[i].type = frames[i].type /\ i # Len(frames)
      /\ Len(frames) \in DOMAIN frames
  BY <1>1, OpenShrinks
<1>3. Top \in FrameType
  BY <1>1, TopFrame
<1>4. ASSUME Kind(Top.type) = "named"
      PROVE  /\ Top.type \in DOMAIN names /\ names[Top.type] \in DOMAIN components
             /\ \A i \in DOMAIN frames' : frames'[i].type # Top.type
  BY <1>2, <1>4 DEF Inductive, OpenOnce, Top
<1>5. ASSUME Kind(Top.type) = "named"
      PROVE  Top.type \notin Open'
  BY <1>4, <1>5 DEF Open
<1> QED
  BY <1>2, <1>3, <1>4, <1>5

\* A wrapper or an anonymous struct is done.
LEMMA CloseInlineKeeps ==
  ASSUME Inductive, CloseInline
  PROVE  Inductive'
<1>1. /\ mode = "visit" /\ Kind(Top.type) # "named" /\ Return(Top.refs, Below)
      /\ UNCHANGED registry /\ frames # <<>> /\ frames \in Seq(FrameType)
  BY DEF CloseInline, Closing, Inductive, TypeOK
<1>2. /\ Below \in Seq(FrameType) /\ Top \in FrameType /\ Top = frames[Len(frames)]
      /\ Len(frames) \in DOMAIN frames /\ DOMAIN Below \subseteq DOMAIN frames
      /\ \A i \in DOMAIN Below : Below[i] = frames[i]
  BY <1>1, TopFrame, LenProperties DEF Top
<1>3. Top.refs \in SUBSET Strings
  BY <1>2 DEF FrameType
<1>4. frames' \in Seq(FrameType) /\ SameTypes(frames', Below) /\ UNCHANGED graph
  BY <1>1, <1>2, <1>3, ReturnKeeps DEF Inductive
<1>5. /\ Open = Open' \cup {Top.type} /\ DOMAIN frames' \subseteq DOMAIN frames
      /\ \A i \in DOMAIN frames' : frames'[i].type = frames[i].type
  BY <1>1, <1>4, ClosedOnce
<1>6. TypeOK'
  BY <1>1, <1>2, <1>3, ReturnTypes DEF Inductive, TypeOK, registry
<1>7. NamesApart'
  BY <1>1 DEF Inductive, NamesApart, registry
<1>8. ComponentsOwned'
  <2>1. \A n \in DOMAIN components : used[n] # Top.type
    BY <1>1 DEF Inductive, ComponentsOwned
  <2> QED
    BY <1>1, <1>4, <1>5, <2>1 DEF Inductive, ComponentsOwned, Kind, registry
<1>9. OpenOnce'
  BY <1>1, <1>4, <1>5 DEF Inductive, OpenOnce, Kind, registry
<1>10. NoneDangling'
  BY <1>1, <1>2, <1>3, ReturnResolves DEF Inductive, NoneDangling, registry
<1> QED
  BY <1>6, <1>7, <1>8, <1>9, <1>10 DEF Inductive

\* A named struct is done: its placeholder becomes its component.
LEMMA CloseNamedKeeps ==
  ASSUME Inductive, CloseNamed
  PROVE  Inductive'
<1> DEFINE name == names[Top.type]
           done == [done |-> TRUE, refs |-> Top.refs]
<1>1. /\ mode = "visit" /\ Kind(Top.type) = "named" /\ Return({name}, Below)
      /\ components' = With(components, name, done) /\ UNCHANGED <<names, used>>
      /\ frames # <<>> /\ frames \in Seq(FrameType)
  BY DEF CloseNamed, Closing, Inductive, TypeOK
<1>2. /\ Below \in Seq(FrameType) /\ Top \in FrameType /\ Top = frames[Len(frames)]
      /\ Len(frames) \in DOMAIN frames /\ DOMAIN Below \subseteq DOMAIN frames
      /\ \A i \in DOMAIN Below : Below[i] = frames[i]
  BY <1>1, TopFrame, LenProperties DEF Top
<1>3. Top.type \in DOMAIN names /\ name \in DOMAIN components /\ name \in Strings
  BY <1>1, <1>2 DEF Inductive, OpenOnce, TypeOK
<1>4. frames' \in Seq(FrameType) /\ SameTypes(frames', Below) /\ UNCHANGED graph
  BY <1>1, <1>2, <1>3, ReturnKeeps DEF Inductive
<1>5. /\ Open = Open' \cup {Top.type} /\ DOMAIN frames' \subseteq DOMAIN frames
      /\ \A i \in DOMAIN frames' : frames'[i].type = frames[i].type
      /\ Top.type \notin Open'
  BY <1>1, <1>4, ClosedOnce
<1>6. /\ DOMAIN components' = DOMAIN components /\ components'[name] = done
      /\ \A n \in DOMAIN components : n # name => components'[n] = components[n]
  BY <1>1, <1>3 DEF With
<1>7. done \in [done : BOOLEAN, refs : SUBSET Strings] /\ done.done = TRUE /\ done.refs = Top.refs
  BY <1>2 DEF FrameType
<1> HIDE DEF name, done
<1>8. TypeOK'
  <2>1. \A n \in DOMAIN components' : components'[n] \in [done : BOOLEAN, refs : SUBSET Strings]
    BY <1>6, <1>7 DEF Inductive, TypeOK
  <2>2. DOMAIN components' \subseteq Strings
    BY <1>6 DEF Inductive, TypeOK
  <2>3. /\ names' \in [DOMAIN names' -> Strings] /\ DOMAIN names' \subseteq Types
        /\ used' \in [DOMAIN used' -> Types] /\ DOMAIN used' \subseteq Strings
    BY <1>1 DEF Inductive, TypeOK
  <2> QED
    BY <1>1, <1>2, <1>3, <2>1, <2>2, <2>3, ReturnTypes DEF Inductive
<1>9. NamesApart'
  BY <1>1 DEF Inductive, NamesApart
<1>10. ComponentsOwned'
  <2>1. used[name] = Top.type /\ \A n \in DOMAIN components : n # name => used[n] # Top.type
    BY <1>3 DEF Inductive, NamesApart, ComponentsOwned, name
  <2>2. ASSUME NEW n \in DOMAIN components
        PROVE  Kind(used[n]) = "named" /\ (components'[n].done <=> used[n] \notin Open')
    BY <1>1, <1>5, <1>6, <1>7, <2>1 DEF Inductive, ComponentsOwned
  <2> QED
    BY <1>1, <1>4, <1>6, <2>2 DEF Inductive, ComponentsOwned, Kind
<1>11. OpenOnce'
  BY <1>1, <1>4, <1>5, <1>6 DEF Inductive, OpenOnce, Kind
<1>12. NoneDangling'
  <2>1. \A n \in DOMAIN components' : components'[n].refs \subseteq DOMAIN components'
    BY <1>1, <1>2, <1>6, <1>7 DEF Inductive, NoneDangling
  <2> QED
    BY <1>1, <1>2, <1>3, <1>6, <2>1, ReturnResolves DEF Inductive, NoneDangling
<1> QED
  BY <1>8, <1>9, <1>10, <1>11, <1>12 DEF Inductive

\* An error leaves an activation; a named struct's placeholder goes with it.
LEMMA UnwindKeeps ==
  ASSUME Inductive, Unwind
  PROVE  Inductive'
<1> DEFINE name == names[Top.type]
<1>1. /\ mode = "error" /\ mode' = "error" /\ frames # <<>> /\ frames' = Below
      /\ UNCHANGED <<names, used, arg, history, returned>> /\ graph' = graph
      /\ frames \in Seq(FrameType)
  BY DEF Unwind, Inductive, TypeOK, history
<1>2. frames' \in Seq(FrameType) /\ SameTypes(frames', Below)
  BY <1>1, TopFrame DEF SameTypes
<1>3. /\ Top \in FrameType /\ Open = Open' \cup {Top.type} /\ DOMAIN frames' \subseteq DOMAIN frames
      /\ \A i \in DOMAIN frames' : frames'[i].type = frames[i].type
      /\ Kind(Top.type) = "named" =>
           /\ Top.type \in DOMAIN names /\ name \in DOMAIN components
           /\ Top.type \notin Open' /\ \A i \in DOMAIN frames' : frames'[i].type # Top.type
  BY <1>1, <1>2, ClosedOnce
<1>4. /\ DOMAIN components' = IF Kind(Top.type) = "named" THEN DOMAIN components \ {name}
                              ELSE DOMAIN components
      /\ \A n \in DOMAIN components' : components'[n] = components[n]
  BY DEF Unwind, Without
<1>5. TypeOK'
  BY <1>1, <1>2, <1>4 DEF Inductive, TypeOK, history
<1>6. NamesApart'
  BY <1>1 DEF Inductive, NamesApart
<1>7. ComponentsOwned'
  <2>1. \A n \in DOMAIN components' : n \in DOMAIN components /\ used[n] # Top.type
    BY <1>4 DEF Inductive, ComponentsOwned, NamesApart
  <2> QED
    BY <1>1, <1>3, <1>4, <2>1 DEF Inductive, ComponentsOwned, Kind
<1>8. OpenOnce'
  <2>1. ASSUME NEW i \in DOMAIN frames', Kind(frames'[i].type) = "named"
        PROVE  /\ frames'[i].type \in DOMAIN names /\ names[frames'[i].type] \in DOMAIN components'
               /\ \A j \in DOMAIN frames' : frames'[j].type = frames'[i].type => j = i
    <3>1. /\ frames'[i].type \in DOMAIN names /\ names[frames'[i].type] \in DOMAIN components
          /\ \A j \in DOMAIN frames' : frames'[j].type = frames'[i].type => j = i
      BY <1>3, <2>1 DEF Inductive, OpenOnce
    <3>2. CASE Kind(Top.type) = "named"
      <4>1. names[frames'[i].type] # name
        BY <1>3, <3>1, <3>2 DEF Inductive, NamesApart
      <4> QED
        BY <1>4, <3>1, <3>2, <4>1
    <3>3. CASE Kind(Top.type) # "named"
      BY <1>4, <3>1, <3>3
    <3> QED
      BY <3>2, <3>3
  <2> QED
    BY <1>1, <2>1 DEF OpenOnce, Kind
<1>9. NoneDangling'
  BY <1>1 DEF NoneDangling
<1> QED
  BY <1>5, <1>6, <1>7, <1>8, <1>9 DEF Inductive

---------------------------------------------------------------------------
(* Theorems. *)

LEMMA InitHolds == Init => Inductive
<1> SUFFICES ASSUME Init
             PROVE  Inductive
  OBVIOUS
<1>1. frames = <<>> /\ frames \in Seq(FrameType) /\ DOMAIN frames = {}
  BY EmptySeq DEF Init
<1>2. DOMAIN components = {} /\ DOMAIN names = {} /\ DOMAIN used = {}
  BY DEF Init
<1>3. names \in [DOMAIN names -> Strings] /\ used \in [DOMAIN used -> Types]
  BY <1>2 DEF Init
<1>4. arg \in Types
  BY TypesAssumption DEF Init
<1>5. TypeOK
  BY <1>1, <1>2, <1>3, <1>4, GraphsAssumption DEF Init, TypeOK
<1> QED
  BY <1>1, <1>2, <1>5 DEF Init, Inductive, NamesApart, ComponentsOwned, OpenOnce, NoneDangling

LEMMA NextKeeps == Inductive /\ [Next]_vars => Inductive'
<1> SUFFICES ASSUME Inductive, [Next]_vars
             PROVE  Inductive'
  OBVIOUS
<1>1. CASE Leaf
  BY <1>1, LeafKeeps
<1>2. CASE Unsupported \/ RecursiveAnonymous
  BY <1>2, FailKeeps DEF Unsupported, RecursiveAnonymous
<1>3. CASE EnterInline
  BY <1>3, EnterInlineKeeps
<1>4. CASE Known
  BY <1>4, KnownKeeps
<1>5. CASE EnterNamed
  BY <1>5, EnterNamedKeeps
<1>6. CASE Descend
  BY <1>6, DescendKeeps
<1>7. CASE CloseInline
  BY <1>7, CloseInlineKeeps
<1>8. CASE CloseNamed
  BY <1>8, CloseNamedKeeps
<1>9. CASE Unwind
  BY <1>9, UnwindKeeps
<1>10. CASE Abort
  BY <1>10, AbortKeeps
<1>11. CASE Exhaust
  BY <1>11, ExhaustKeeps
<1>12. CASE Rest \/ UNCHANGED vars
  BY <1>12, StutterKeeps DEF Rest
<1>13. CASE \E t \in Types : Ref(t)
  BY <1>13, RefKeeps
<1> QED
  BY <1>1, <1>2, <1>3, <1>4, <1>5, <1>6, <1>7, <1>8, <1>9, <1>10, <1>11, <1>12, <1>13 DEF Next, Step

\* The inductive invariant: names, components and open activations agree in every
\* state of every build.
THEOREM RegistryInvariant == Spec => []Inductive
<1>1. Init => Inductive
  BY InitHolds
<1>2. Inductive /\ [Next]_vars => Inductive'
  BY NextKeeps
<1> QED
  BY <1>1, <1>2, PTL DEF Spec

\* The registry's maps and the stack of schemaFor have their types.
THEOREM RegistryTypes == Spec => []TypeOK
<1>1. Inductive => TypeOK
  BY DEF Inductive
<1> QED
  BY <1>1, RegistryInvariant, PTL

\* componentName never gives one name to two types, whatever the candidates are
\* and in whatever order the types are met.
THEOREM NamesStayApart == Spec => []NamesApart
<1>1. Inductive => NamesApart
  BY DEF Inductive
<1> QED
  BY <1>1, RegistryInvariant, PTL

\* A component is a placeholder exactly while its struct is being described, on
\* the way out of an error too.
THEOREM ComponentsStayOwned == Spec => []ComponentsOwned
<1>1. Inductive => ComponentsOwned
  BY DEF Inductive
<1> QED
  BY <1>1, RegistryInvariant, PTL

\* Between calls of Ref every reference, of the document and of a component, has
\* its finished component.
THEOREM ReferencesAlwaysResolve == Spec => []ReferencesResolve
<1>1. Inductive => ReferencesResolve
  <2> SUFFICES ASSUME Inductive, mode = "idle",
                      NEW n \in returned \cup UNION {components[c].refs : c \in DOMAIN components}
               PROVE  n \in DOMAIN components /\ components[n].done
    BY DEF ReferencesResolve
  <2>1. n \in DOMAIN components /\ frames = <<>>
    BY DEF Inductive, NoneDangling
  <2>2. Open = {}
    BY <2>1 DEF Open
  <2> QED
    BY <2>1, <2>2 DEF Inductive, ComponentsOwned, TypeOK
<1> QED
  BY <1>1, RegistryInvariant, PTL

---------------------------------------------------------------------------
(* What a type holds, from what its parts hold. *)

\* The named structs that a part of this type contributes to what holds it.
RefsOf(t) ==
  IF Kind(t) = "named" THEN {t} ELSE IF t \in Inline THEN NamedIn(t) ELSE {}

\* What the parts before position at contribute.
Gathered(t, at) == {u \in Types : \E j \in 1 .. (at - 1) : u \in RefsOf(Parts(t)[j])}

LEMMA PartTypes ==
  ASSUME TypeOK, NEW t \in Types
  PROVE  /\ Parts(t) \in Seq(Types) /\ Len(Parts(t)) \in Nat
         /\ DOMAIN Parts(t) = 1 .. Len(Parts(t)) /\ PartSet(t) \subseteq Types
<1>1. Parts(t) \in Seq(Types)
  BY DEF TypeOK, Parts
<1> QED
  BY <1>1, LenProperties, ElementOfSeq DEF PartSet

\* InlineIn is one of the sets it is the least of, and below the others.
LEMMA InlineCloses ==
  ASSUME NEW t
  PROVE  InlineIn(t) \subseteq Inline /\ HoldsInline(t, InlineIn(t))
BY DEF InlineIn, HoldsInline

LEMMA InlineLeast ==
  ASSUME NEW t, NEW S \in SUBSET Inline, HoldsInline(t, S)
  PROVE  InlineIn(t) \subseteq S
BY DEF InlineIn

\* An inline part holds nothing that the whole does not.
LEMMA InlineOfPart ==
  ASSUME NEW t, NEW u \in PartSet(t) \cap Inline
  PROVE  u \in InlineIn(t) /\ InlineIn(u) \subseteq InlineIn(t)
<1>1. InlineIn(t) \in SUBSET Inline /\ HoldsInline(t, InlineIn(t))
  BY InlineCloses
<1>2. u \in InlineIn(t)
  BY <1>1 DEF HoldsInline
<1>3. HoldsInline(u, InlineIn(t))
  BY <1>1, <1>2 DEF HoldsInline
<1> QED
  BY <1>1, <1>2, <1>3, InlineLeast

\* And whatever the whole holds is an inline part, or in one.
LEMMA InlineFromParts ==
  ASSUME NEW t, NEW v \in InlineIn(t)
  PROVE  \E u \in PartSet(t) \cap Inline : v = u \/ v \in InlineIn(u)
<1> DEFINE J == {w \in Inline : \E u \in PartSet(t) \cap Inline : w = u \/ w \in InlineIn(u)}
<1>1. PartSet(t) \cap Inline \subseteq J
  OBVIOUS
<1>2. ASSUME NEW w \in J
      PROVE  PartSet(w) \cap Inline \subseteq J
  <2>1. PICK u \in PartSet(t) \cap Inline : w = u \/ w \in InlineIn(u)
    OBVIOUS
  <2>2. HoldsInline(u, InlineIn(u))
    BY InlineCloses
  <2>3. PartSet(w) \cap Inline \subseteq InlineIn(u)
    BY <2>1, <2>2 DEF HoldsInline
  <2> QED
    BY <2>1, <2>3
<1>3. J \in SUBSET Inline
  OBVIOUS
<1> HIDE DEF J
<1>4. HoldsInline(t, J)
  BY <1>1, <1>2 DEF HoldsInline
<1>5. v \in J
  BY <1>3, <1>4, InlineLeast
<1> QED
  BY <1>5 DEF J

\* The named structs a type holds are those its parts contribute.
LEMMA NamedFromParts ==
  ASSUME NEW t
  PROVE  \A x : x \in NamedIn(t) <=> \E u \in PartSet(t) : x \in RefsOf(u)
<1>1. ASSUME NEW x \in NamedIn(t)
      PROVE  \E u \in PartSet(t) : x \in RefsOf(u)
  <2>1. Kind(x) = "named" /\ (x \in PartSet(t) \/ \E v \in InlineIn(t) : x \in PartSet(v))
    BY DEF NamedIn
  <2>2. CASE x \in PartSet(t)
    BY <2>1, <2>2 DEF RefsOf
  <2>3. CASE \E v \in InlineIn(t) : x \in PartSet(v)
    <3>1. PICK v \in InlineIn(t) : x \in PartSet(v)
      BY <2>3
    <3>2. PICK u \in PartSet(t) \cap Inline : v = u \/ v \in InlineIn(u)
      BY InlineFromParts
    <3>3. x \in NamedIn(u)
      BY <2>1, <3>1, <3>2 DEF NamedIn
    <3>4. RefsOf(u) = NamedIn(u)
      BY <3>2 DEF RefsOf, Inline
    <3> QED
      BY <3>2, <3>3, <3>4
  <2> QED
    BY <2>1, <2>2, <2>3
<1>2. ASSUME NEW u \in PartSet(t), NEW x \in RefsOf(u)
      PROVE  x \in NamedIn(t)
  <2>1. CASE Kind(u) = "named"
    BY <1>2, <2>1 DEF RefsOf, NamedIn
  <2>2. CASE Kind(u) # "named"
    <3>1. u \in Inline /\ x \in NamedIn(u)
      BY <1>2, <2>2 DEF RefsOf
    <3>2. u \in InlineIn(t) /\ InlineIn(u) \subseteq InlineIn(t)
      BY <1>2, <3>1, InlineOfPart
    <3> QED
      BY <3>1, <3>2 DEF NamedIn
  <2> QED
    BY <2>1, <2>2
<1> QED
  BY <1>1, <1>2

LEMMA NamedTypes ==
  ASSUME TypeOK, NEW t \in Types
  PROVE  NamedIn(t) \subseteq Types /\ RefsOf(t) \subseteq Types
<1>1. InlineIn(t) \subseteq Types
  BY DEF InlineIn, Inline
<1>2. \A v \in Types : PartSet(v) \subseteq Types
  BY PartTypes
<1> QED
  BY <1>1, <1>2 DEF NamedIn, RefsOf

\* No part contributes before the first; each adds its own; all are the whole.
LEMMA GatheredSteps ==
  ASSUME TypeOK, NEW t \in Types
  PROVE  /\ Gathered(t, 1) = {}
         /\ \A at \in Nat \ {0} : at <= Len(Parts(t)) =>
              Gathered(t, at + 1) = Gathered(t, at) \cup RefsOf(Parts(t)[at])
         /\ Gathered(t, Len(Parts(t)) + 1) = NamedIn(t)
<1>1. /\ Parts(t) \in Seq(Types) /\ Len(Parts(t)) \in Nat
      /\ DOMAIN Parts(t) = 1 .. Len(Parts(t)) /\ PartSet(t) \subseteq Types
  BY PartTypes
<1>2. \A u \in Types : RefsOf(u) \subseteq Types
  BY NamedTypes
<1>3. Gathered(t, 1) = {}
  BY DEF Gathered
<1>4. ASSUME NEW at \in Nat \ {0}, at <= Len(Parts(t))
      PROVE  Gathered(t, at + 1) = Gathered(t, at) \cup RefsOf(Parts(t)[at])
  <2>1. Parts(t)[at] \in Types
    BY <1>1, <1>4, ElementOfSeq
  <2>2. RefsOf(Parts(t)[at]) \subseteq Types
    BY <1>2, <2>1
  <2>3. \A j : j \in 1 .. (at + 1 - 1) <=> (j \in 1 .. (at - 1) \/ j = at)
    BY <1>4
  <2> QED
    BY <2>2, <2>3 DEF Gathered
<1>5. Gathered(t, Len(Parts(t)) + 1) = NamedIn(t)
  <2> DEFINE n == Len(Parts(t))
  <2>1. 1 .. (n + 1 - 1) = DOMAIN Parts(t)
    BY <1>1
  <2>2. \A u : u \in Gathered(t, n + 1) <=> u \in Types /\ \E j \in DOMAIN Parts(t) : u \in RefsOf(Parts(t)[j])
    BY <2>1 DEF Gathered
  <2>3. \A u : u \in NamedIn(t) <=> \E v \in PartSet(t) : u \in RefsOf(v)
    BY NamedFromParts
  <2>4. NamedIn(t) \subseteq Types
    BY NamedTypes
  <2> HIDE DEF n
  <2>5. \A u : (\E v \in PartSet(t) : u \in RefsOf(v)) <=> \E j \in DOMAIN Parts(t) : u \in RefsOf(Parts(t)[j])
    BY DEF PartSet
  <2>6. \A u : u \in Gathered(t, n + 1) <=> u \in NamedIn(t)
    BY <2>2, <2>3, <2>4, <2>5
  <2> QED
    BY <2>6 DEF n
<1> QED
  BY <1>3, <1>4, <1>5

---------------------------------------------------------------------------
(* What the activations and the components have gathered. *)

NamesOf(S, map) == {map[u] : u \in S}

\* An activation has the names of what its parts up to here contribute.
FrameGathers(f, map) ==
  /\ f.at <= Len(Parts(f.type)) + 1
  /\ Gathered(f.type, f.at) \subseteq DOMAIN map
  /\ f.refs = NamesOf(Gathered(f.type, f.at), map)
  /\ Kind(f.type) = "named" \/ f.type \in Inline

\* An activation waits for the answer to its part t.
Asks(f, t) == f.at <= Len(Parts(f.type)) /\ t = Parts(f.type)[f.at]

\* A finished component has the names of what its type holds.
ComponentGathers(c, t, map) ==
  c.done => NamedIn(t) \subseteq DOMAIN map /\ c.refs = NamesOf(NamedIn(t), map)

StackGathers == \A i \in DOMAIN frames : FrameGathers(frames[i], names)
StackAsks == \A i \in DOMAIN frames : i < Len(frames) => Asks(frames[i], frames[i + 1].type)
CallAsks == mode = "call" /\ frames # <<>> => Asks(Top, arg)
AllGather == \A n \in DOMAIN components : ComponentGathers(components[n], used[n], names)

Gathering == StackGathers /\ StackAsks /\ CallAsks /\ AllGather

\* A map of names that grows names what it named before.
Extends(map, more) ==
  DOMAIN map \subseteq DOMAIN more /\ \A u \in DOMAIN map : more[u] = map[u]

LEMMA NamesKept ==
  ASSUME NEW map, NEW more, Extends(map, more), NEW S \in SUBSET DOMAIN map
  PROVE  NamesOf(S, more) = NamesOf(S, map) /\ S \subseteq DOMAIN more
BY DEF NamesOf, Extends

LEMMA GatheredKept ==
  ASSUME NEW map, NEW more, Extends(map, more)
  PROVE  /\ \A f : FrameGathers(f, map) => FrameGathers(f, more)
         /\ \A c, t : ComponentGathers(c, t, map) => ComponentGathers(c, t, more)
<1>1. ASSUME NEW f, FrameGathers(f, map)
      PROVE  FrameGathers(f, more)
  BY <1>1, NamesKept DEF FrameGathers
<1>2. ASSUME NEW c, NEW t, ComponentGathers(c, t, map)
      PROVE  ComponentGathers(c, t, more)
  BY <1>2, NamesKept DEF ComponentGathers
<1> QED
  BY <1>1, <1>2

\* The answer to the part an activation asked for is what that part contributes.
LEMMA AnswerGathers ==
  ASSUME TypeOK, NEW f \in FrameType, NEW map, NEW t, Asks(f, t), FrameGathers(f, map),
         RefsOf(t) \subseteq DOMAIN map
  PROVE  FrameGathers(Answered(f, NamesOf(RefsOf(t), map)), map)
<1> DEFINE g == Answered(f, NamesOf(RefsOf(t), map))
<1>1. f.type \in Types /\ f.at \in Nat \ {0} /\ f.at <= Len(Parts(f.type)) /\ t = Parts(f.type)[f.at]
  BY DEF FrameType, Asks
<1>2. /\ g.type = f.type /\ g.at = f.at + 1
      /\ g.refs = f.refs \cup NamesOf(RefsOf(t), map)
  BY DEF Answered
<1>3. Len(Parts(f.type)) \in Nat
  BY <1>1, PartTypes
<1>4. Gathered(f.type, f.at + 1) = Gathered(f.type, f.at) \cup RefsOf(t)
  BY <1>1, GatheredSteps
<1>5. NamesOf(Gathered(f.type, f.at) \cup RefsOf(t), map)
        = NamesOf(Gathered(f.type, f.at), map) \cup NamesOf(RefsOf(t), map)
  BY DEF NamesOf
<1> HIDE DEF g
<1>6. g.at <= Len(Parts(g.type)) + 1
  BY <1>1, <1>2, <1>3
<1> QED
  BY <1>2, <1>4, <1>5, <1>6 DEF FrameGathers, g

LEMMA NewFrameGathers ==
  ASSUME TypeOK, NEW t \in Types, NEW map, Kind(t) = "named" \/ t \in Inline
  PROVE  FrameGathers(Frame(t), map)
<1>1. Frame(t).type = t /\ Frame(t).at = 1 /\ Frame(t).refs = {}
  BY DEF Frame
<1>2. Gathered(t, 1) = {} /\ Len(Parts(t)) \in Nat
  BY GatheredSteps, PartTypes
<1>3. NamesOf({}, map) = {}
  BY DEF NamesOf
<1>4. 1 <= Len(Parts(t)) + 1
  BY <1>2
<1> HIDE DEF Frame
<1> QED
  BY <1>1, <1>2, <1>3, <1>4 DEF FrameGathers

\* An activation at its end has gathered what its type holds.
LEMMA WholeGathered ==
  ASSUME TypeOK, NEW f \in FrameType, NEW map, FrameGathers(f, map), f.at > Len(Parts(f.type))
  PROVE  NamedIn(f.type) \subseteq DOMAIN map /\ f.refs = NamesOf(NamedIn(f.type), map)
<1>1. f.type \in Types /\ f.at \in Nat \ {0}
  BY DEF FrameType
<1>2. Len(Parts(f.type)) \in Nat
  BY <1>1, PartTypes
<1>3. f.at = Len(Parts(f.type)) + 1
  BY <1>1, <1>2 DEF FrameGathers
<1>4. Gathered(f.type, f.at) = NamedIn(f.type)
  BY <1>1, <1>3, GatheredSteps
<1> QED
  BY <1>4 DEF FrameGathers

---------------------------------------------------------------------------
(* What is gathered, across a step. *)

\* The definitions read the graph, which no step changes.
LEMMA GatheringNext ==
  ASSUME graph' = graph,
         \A i \in DOMAIN frames' : FrameGathers(frames'[i], names'),
         \A i \in DOMAIN frames' : i < Len(frames') => Asks(frames'[i], frames'[i + 1].type),
         mode' = "call" /\ frames' # <<>> => Asks(frames'[Len(frames')], arg'),
         \A n \in DOMAIN components' : ComponentGathers(components'[n], used'[n], names')
  PROVE  Gathering'
<1>0. \A t : NamedIn(t)' = NamedIn(t)
  BY DEF NamedIn, PartSet, InlineIn, Inline, HoldsInline, Kind, Parts
<1>1. StackGathers'
  <2>1. \A t, at : Gathered(t, at)' = Gathered(t, at)
    BY DEF Gathered, RefsOf, NamedIn, PartSet, InlineIn, Inline, HoldsInline, Kind, Parts
  <2> QED
    BY <2>1 DEF StackGathers, FrameGathers, Kind, Parts, Inline
<1>2. StackAsks' /\ CallAsks'
  BY DEF StackAsks, CallAsks, Asks, Top, Parts
<1>3. AllGather'
  BY <1>0 DEF AllGather, ComponentGathers
<1> QED
  BY <1>1, <1>2, <1>3 DEF Gathering

\* An answer that is what the part asked for contributes; the components are
\* settled by the step that gives it.
LEMMA ReturnGathers ==
  ASSUME TypeOK, NEW below \in Seq(FrameType), NEW t, Return(NamesOf(RefsOf(t), names'), below),
         NamesOf(RefsOf(t), names') \in SUBSET Strings,
         RefsOf(t) \subseteq DOMAIN names', Extends(names, names'),
         \A i \in DOMAIN below : FrameGathers(below[i], names),
         \A i \in DOMAIN below : i < Len(below) => Asks(below[i], below[i + 1].type),
         below # <<>> => Asks(below[Len(below)], t),
         \A n \in DOMAIN components' : ComponentGathers(components'[n], used'[n], names')
  PROVE  Gathering'
<1> DEFINE refs == NamesOf(RefsOf(t), names')
<1>1. /\ frames' \in Seq(FrameType) /\ SameTypes(frames', below)
      /\ mode' \in {"idle", "visit"} /\ graph' = graph
  BY ReturnKeeps
<1>2. DOMAIN below = 1 .. Len(below) /\ DOMAIN frames' = 1 .. Len(frames') /\ Len(frames') = Len(below)
      /\ Len(below) \in Nat
  BY <1>1, LenProperties DEF SameTypes
<1>3. \A i \in DOMAIN below : below[i] \in FrameType /\ FrameGathers(below[i], names')
  BY <1>2, GatheredKept, ElementOfSeq
<1>4. ASSUME NEW i \in DOMAIN frames'
      PROVE  /\ i = Len(below) => frames'[i] = Answered(below[i], refs)
             /\ i # Len(below) => frames'[i] = below[i]
  <2>1. below # <<>>
    BY <1>2, <1>4, EmptySeq
  <2>2. frames' = [below EXCEPT ![Len(below)] = Answered(@, refs)]
    BY <2>1 DEF Return
  <2> HIDE DEF refs
  <2> QED
    BY <1>2, <1>4, <2>2
<1>5. ASSUME NEW i \in DOMAIN frames'
      PROVE  FrameGathers(frames'[i], names')
  <2>1. CASE i = Len(below)
    <3>1. below # <<>>
      BY <1>2, <1>5, EmptySeq
    <3>2. FrameGathers(Answered(below[i], refs), names')
      BY <1>2, <1>3, <1>5, <2>1, <3>1, AnswerGathers
    <3> QED
      BY <1>4, <1>5, <2>1, <3>2
  <2>2. CASE i # Len(below)
    BY <1>2, <1>3, <1>4, <1>5, <2>2
  <2> QED
    BY <2>1, <2>2
<1>6. ASSUME NEW i \in DOMAIN frames', i < Len(frames')
      PROVE  Asks(frames'[i], frames'[i + 1].type)
  <2>1. i \in DOMAIN below /\ i + 1 \in DOMAIN below /\ i < Len(below) /\ i # Len(below)
    BY <1>2, <1>6
  <2>2. frames'[i] = below[i] /\ frames'[i + 1].type = below[i + 1].type
    BY <1>1, <1>2, <1>4, <2>1 DEF SameTypes
  <2> QED
    BY <2>1, <2>2
<1>7. mode' # "call"
  BY <1>1
<1> QED
  BY <1>1, <1>5, <1>6, <1>7, GatheringNext

\* Steps that change neither the stack nor the registry.
LEMMA QuietGathers ==
  ASSUME Gathering, UNCHANGED <<registry, graph, frames>>,
         mode' = "call" /\ frames' # <<>> => Asks(frames'[Len(frames')], arg')
  PROVE  Gathering'
<1>1. UNCHANGED <<components, names, used>>
  BY DEF registry
<1> QED
  BY <1>1, GatheringNext DEF Gathering, StackGathers, StackAsks, AllGather

---------------------------------------------------------------------------
(* One lemma per action of Next. *)

\* The answers schemaFor gives to a part: the name of a named struct, or what an
\* inline type holds.
LEMMA AnswerNames ==
  ASSUME NEW t, NEW map
  PROVE  /\ Kind(t) = "named" => RefsOf(t) = {t} /\ NamesOf(RefsOf(t), map) = {map[t]}
         /\ t \in Inline => RefsOf(t) = NamedIn(t) /\ Kind(t) # "named"
BY DEF NamesOf, RefsOf, Inline

LEMMA RefGathers ==
  ASSUME Inductive, Gathering, NEW t \in Types, Ref(t)
  PROVE  Gathering'
<1>1. frames = <<>> /\ UNCHANGED <<registry, graph, frames>>
  BY DEF Ref, Inductive, NoneDangling
<1> QED
  BY <1>1, QuietGathers

LEMMA LeafGathers ==
  ASSUME Inductive, Gathering, Leaf
  PROVE  Gathering'
<1>1. /\ Return({}, frames) /\ UNCHANGED <<components, names, used>> /\ mode = "call"
      /\ Kind(arg) = "leaf" /\ TypeOK /\ frames \in Seq(FrameType)
  BY DEF Leaf, Calling, registry, Inductive, TypeOK
<1>2. NamesOf(RefsOf(arg), names') = {} /\ RefsOf(arg) = {}
  <2>1. RefsOf(arg) = {}
    BY <1>1 DEF RefsOf, Inline
  <2> QED
    BY <2>1 DEF NamesOf
<1>3. Extends(names, names')
  BY <1>1 DEF Extends
<1>4. frames # <<>> => Asks(frames[Len(frames)], arg)
  BY <1>1 DEF Gathering, CallAsks, Top
<1>5. \A n \in DOMAIN components' : ComponentGathers(components'[n], used'[n], names')
  BY <1>1 DEF Gathering, AllGather
<1> QED
  BY <1>1, <1>2, <1>3, <1>4, <1>5, ReturnGathers DEF Gathering, StackGathers, StackAsks

LEMMA DescendGathers ==
  ASSUME Inductive, Gathering, Descend
  PROVE  Gathering'
<1>1. UNCHANGED <<registry, graph, frames>>
  BY DEF Descend, history
<1>2. Asks(frames'[Len(frames')], arg')
  BY <1>1 DEF Descend, Asks, Top
<1> QED
  BY <1>1, <1>2, QuietGathers

\* A new activation has gathered nothing, and is what the one below asked for.
LEMMA PushGathers ==
  ASSUME Inductive, Gathering, mode = "call", Push(arg), Kind(arg) = "named" \/ arg \in Inline,
         Extends(names, names'),
         \A n \in DOMAIN components' : ComponentGathers(components'[n], used'[n], names')
  PROVE  Gathering'
<1>1. /\ TypeOK /\ frames \in Seq(FrameType) /\ arg \in Types /\ graph' = graph
      /\ frames' = Append(frames, Frame(arg)) /\ mode' = "visit"
  BY DEF Push, history, Inductive, TypeOK
<1> DEFINE k == Len(frames) + 1
<1>2. /\ frames' \in Seq(FrameType)
      /\ DOMAIN frames' = DOMAIN frames \cup {k} /\ k \notin DOMAIN frames
      /\ \A i \in DOMAIN frames : frames'[i] = frames[i]
      /\ frames'[k] = Frame(arg)
  BY <1>1, OpenGrows
<1>3. /\ Len(frames) \in Nat /\ DOMAIN frames = 1 .. Len(frames)
      /\ Len(frames') = k
  BY <1>1, LenProperties, AppendProperties
<1>4. Frame(arg).type = arg /\ FrameGathers(Frame(arg), names')
  <2>1. FrameGathers(Frame(arg), names')
    BY <1>1, NewFrameGathers
  <2> QED
    BY <2>1 DEF Frame
<1>5. ASSUME NEW i \in DOMAIN frames'
      PROVE  FrameGathers(frames'[i], names')
  <2>1. CASE i \in DOMAIN frames
    BY <1>2, <2>1, GatheredKept DEF Gathering, StackGathers
  <2>2. CASE i = k
    BY <1>2, <1>4, <2>2
  <2> QED
    BY <1>2, <2>1, <2>2
<1>6. ASSUME NEW i \in DOMAIN frames', i < Len(frames')
      PROVE  Asks(frames'[i], frames'[i + 1].type)
  <2>1. i \in DOMAIN frames /\ frames # <<>>
    BY <1>1, <1>2, <1>3, <1>6, EmptySeq
  <2>2. CASE i = Len(frames)
    <3>1. Asks(frames[i], arg)
      BY <2>1, <2>2 DEF Gathering, CallAsks, Top
    <3> QED
      BY <1>2, <1>4, <2>1, <2>2, <3>1
  <2>3. CASE i # Len(frames)
    <3>1. i < Len(frames) /\ i + 1 \in DOMAIN frames
      BY <1>3, <2>1, <2>3
    <3>2. Asks(frames[i], frames[i + 1].type)
      BY <2>1, <3>1 DEF Gathering, StackAsks
    <3> QED
      BY <1>2, <2>1, <3>1, <3>2
  <2> QED
    BY <2>2, <2>3
<1> QED
  BY <1>1, <1>5, <1>6, GatheringNext

LEMMA EnterInlineGathers ==
  ASSUME Inductive, Gathering, EnterInline
  PROVE  Gathering'
<1>1. /\ mode = "call" /\ Push(arg) /\ UNCHANGED <<components, names, used>> /\ arg \in Inline
  BY DEF EnterInline, Calling, registry, Inline, Inductive, TypeOK
<1>2. Extends(names, names')
  BY <1>1 DEF Extends
<1>3. \A n \in DOMAIN components' : ComponentGathers(components'[n], used'[n], names')
  BY <1>1 DEF Gathering, AllGather
<1> QED
  BY <1>1, <1>2, <1>3, PushGathers

\* What a new name leaves of the finished components.
LEMMA NameGathers ==
  ASSUME Inductive, Gathering, NEW name \in ComponentName(arg), Name(arg, name)
  PROVE  /\ Extends(names, names') /\ arg \in DOMAIN names' /\ names'[arg] = name
         /\ name \in Strings
         /\ \A n \in DOMAIN components : ComponentGathers(components[n], used'[n], names')
<1>1. TypeOK /\ NamesApart /\ arg \in Types /\ DOMAIN components \subseteq DOMAIN used
  BY DEF Inductive, TypeOK, ComponentsOwned
<1>2. /\ DOMAIN names' = DOMAIN names \cup {arg} /\ names'[arg] = name /\ name \in Strings
      /\ \A u \in DOMAIN names : names'[u] = names[u]
      /\ \A n \in DOMAIN used : used'[n] = used[n]
  BY <1>1, NameKeeps
<1>3. Extends(names, names')
  BY <1>2 DEF Extends
<1>4. ASSUME NEW n \in DOMAIN components
      PROVE  ComponentGathers(components[n], used'[n], names')
  <2>1. ComponentGathers(components[n], used[n], names)
    BY DEF Gathering, AllGather
  <2>2. used'[n] = used[n]
    BY <1>1, <1>2
  <2> QED
    BY <1>3, <2>1, <2>2, GatheredKept
<1> QED
  BY <1>2, <1>3, <1>4

LEMMA KnownGathers ==
  ASSUME Inductive, Gathering, Known
  PROVE  Gathering'
<1>1. PICK name \in ComponentName(arg) :
        name \in DOMAIN components /\ Name(arg, name) /\ Return({name}, frames)
  BY DEF Known
<1>2. /\ TypeOK /\ frames \in Seq(FrameType) /\ mode = "call" /\ Kind(arg) = "named"
      /\ components' = components
  BY DEF Known, Calling, Inductive, TypeOK
<1>3. /\ Extends(names, names') /\ arg \in DOMAIN names' /\ names'[arg] = name
      /\ name \in Strings
      /\ \A n \in DOMAIN components : ComponentGathers(components[n], used'[n], names')
  BY <1>1, NameGathers
<1>4. RefsOf(arg) = {arg} /\ NamesOf(RefsOf(arg), names') = {name}
  BY <1>2, <1>3, AnswerNames
<1>5. frames # <<>> => Asks(frames[Len(frames)], arg)
  BY <1>2 DEF Gathering, CallAsks, Top
<1>6. \A n \in DOMAIN components' : ComponentGathers(components'[n], used'[n], names')
  BY <1>2, <1>3
<1> QED
  BY <1>1, <1>2, <1>3, <1>4, <1>5, <1>6, ReturnGathers DEF Gathering, StackGathers, StackAsks

LEMMA EnterNamedGathers ==
  ASSUME Inductive, Gathering, EnterNamed
  PROVE  Gathering'
<1> DEFINE empty == [done |-> FALSE, refs |-> {}]
<1>1. PICK name \in ComponentName(arg) :
        name \notin DOMAIN components /\ Name(arg, name) /\ components' = With(components, name, empty)
  BY DEF EnterNamed
<1>2. mode = "call" /\ Push(arg) /\ Kind(arg) = "named"
  BY DEF EnterNamed, Calling
<1>3. /\ Extends(names, names')
      /\ \A n \in DOMAIN components : ComponentGathers(components[n], used'[n], names')
  BY <1>1, NameGathers
<1>4. empty.done = FALSE
  OBVIOUS
<1> HIDE DEF empty
<1>5. /\ DOMAIN components' = DOMAIN components \cup {name} /\ components'[name] = empty
      /\ \A n \in DOMAIN components : components'[n] = components[n]
  BY <1>1 DEF With
<1>6. ComponentGathers(components'[name], used'[name], names')
  BY <1>4, <1>5 DEF ComponentGathers
<1>7. \A n \in DOMAIN components' : ComponentGathers(components'[n], used'[n], names')
  BY <1>3, <1>5, <1>6
<1> QED
  BY <1>2, <1>3, <1>7, PushGathers

\* What is below the top, and what the top has gathered when it is at its end.
LEMMA ClosingGathers ==
  ASSUME Inductive, Gathering, mode = "visit", Top.at > Len(Parts(Top.type))
  PROVE  /\ Top \in FrameType /\ Below \in Seq(FrameType) /\ TypeOK
         /\ \A i \in DOMAIN Below : FrameGathers(Below[i], names)
         /\ \A i \in DOMAIN Below : i < Len(Below) => Asks(Below[i], Below[i + 1].type)
         /\ Below # <<>> => Asks(Below[Len(Below)], Top.type)
         /\ Top.refs \in SUBSET Strings
         /\ NamedIn(Top.type) \subseteq DOMAIN names /\ Top.refs = NamesOf(NamedIn(Top.type), names)
<1>1. frames \in Seq(FrameType) /\ frames # <<>> /\ TypeOK
  BY DEF Inductive, TypeOK
<1>2. /\ Len(frames) \in Nat \ {0} /\ Top \in FrameType
      /\ Below \in Seq(FrameType) /\ Len(Below) = Len(frames) - 1
      /\ \A i \in 1 .. Len(Below) : Below[i] = frames[i]
  BY <1>1, TopFrame
<1>3. DOMAIN frames = 1 .. Len(frames) /\ DOMAIN Below = 1 .. Len(Below)
  BY <1>1, <1>2, LenProperties
<1>4. \A i \in DOMAIN Below : i \in DOMAIN frames /\ i < Len(frames) /\ Below[i] = frames[i]
  BY <1>2, <1>3
<1>5. \A i \in DOMAIN Below : FrameGathers(Below[i], names)
  BY <1>4 DEF Gathering, StackGathers
<1>6. ASSUME NEW i \in DOMAIN Below, i < Len(Below)
      PROVE  Asks(Below[i], Below[i + 1].type)
  <2>1. i + 1 \in DOMAIN Below
    BY <1>2, <1>3, <1>6
  <2>2. Asks(frames[i], frames[i + 1].type)
    BY <1>4 DEF Gathering, StackAsks
  <2> QED
    BY <1>4, <2>1, <2>2
<1>7. ASSUME Below # <<>>
      PROVE  Asks(Below[Len(Below)], Top.type)
  <2>1. Len(Below) # 0
    BY <1>2, <1>7, EmptySeq
  <2>2. Len(Below) \in DOMAIN Below /\ Len(Below) + 1 = Len(frames)
    BY <1>2, <1>3, <2>1
  <2>3. Asks(frames[Len(Below)], frames[Len(Below) + 1].type)
    BY <1>4, <2>2 DEF Gathering, StackAsks
  <2> QED
    BY <1>4, <2>2, <2>3 DEF Top
<1>8. FrameGathers(Top, names)
  BY <1>2, <1>3 DEF Gathering, StackGathers, Top
<1>9. NamedIn(Top.type) \subseteq DOMAIN names /\ Top.refs = NamesOf(NamedIn(Top.type), names)
  BY <1>1, <1>2, <1>8, WholeGathered
<1>10. Top.refs \in SUBSET Strings
  BY <1>2 DEF FrameType
<1> QED
  BY <1>1, <1>2, <1>5, <1>6, <1>7, <1>9, <1>10

LEMMA CloseInlineGathers ==
  ASSUME Inductive, Gathering, CloseInline
  PROVE  Gathering'
<1>1. /\ mode = "visit" /\ Top.at > Len(Parts(Top.type)) /\ Kind(Top.type) \in {"wrap", "anonymous"}
      /\ Return(Top.refs, Below) /\ UNCHANGED <<components, names, used>>
  BY DEF CloseInline, Closing, registry
<1>2. /\ Top \in FrameType /\ Below \in Seq(FrameType) /\ TypeOK
      /\ \A i \in DOMAIN Below : FrameGathers(Below[i], names)
      /\ \A i \in DOMAIN Below : i < Len(Below) => Asks(Below[i], Below[i + 1].type)
      /\ Below # <<>> => Asks(Below[Len(Below)], Top.type)
      /\ Top.refs \in SUBSET Strings
      /\ NamedIn(Top.type) \subseteq DOMAIN names /\ Top.refs = NamesOf(NamedIn(Top.type), names)
  BY <1>1, ClosingGathers
<1>3. Top.type \in Inline
  BY <1>1, <1>2 DEF Inline, FrameType
<1>4. RefsOf(Top.type) \subseteq DOMAIN names' /\ Top.refs = NamesOf(RefsOf(Top.type), names')
  BY <1>1, <1>2, <1>3, AnswerNames
<1>5. Extends(names, names')
  BY <1>1 DEF Extends
<1>6. \A n \in DOMAIN components' : ComponentGathers(components'[n], used'[n], names')
  BY <1>1 DEF Gathering, AllGather
<1> QED
  BY <1>1, <1>2, <1>4, <1>5, <1>6, ReturnGathers

LEMMA CloseNamedGathers ==
  ASSUME Inductive, Gathering, CloseNamed
  PROVE  Gathering'
<1> DEFINE name == names[Top.type]
           done == [done |-> TRUE, refs |-> Top.refs]
<1>1. /\ mode = "visit" /\ Top.at > Len(Parts(Top.type)) /\ Kind(Top.type) = "named"
      /\ Return({name}, Below) /\ UNCHANGED <<names, used>>
      /\ components' = With(components, name, done)
  BY DEF CloseNamed, Closing
<1>2. /\ Top \in FrameType /\ Below \in Seq(FrameType) /\ TypeOK
      /\ \A i \in DOMAIN Below : FrameGathers(Below[i], names)
      /\ \A i \in DOMAIN Below : i < Len(Below) => Asks(Below[i], Below[i + 1].type)
      /\ Below # <<>> => Asks(Below[Len(Below)], Top.type)
      /\ NamedIn(Top.type) \subseteq DOMAIN names /\ Top.refs = NamesOf(NamedIn(Top.type), names)
  BY <1>1, ClosingGathers
<1>3. Top.type \in DOMAIN names /\ name \in DOMAIN components /\ used[name] = Top.type /\ name \in Strings
  <2>1. frames \in Seq(FrameType) /\ frames # <<>>
    BY <1>1 DEF Inductive, TypeOK
  <2>2. Len(frames) \in DOMAIN frames /\ Top = frames[Len(frames)]
    BY <2>1, TopFrame, LenProperties DEF Top
  <2> QED
    BY <1>1, <2>2 DEF Inductive, OpenOnce, NamesApart, TypeOK
<1>4. RefsOf(Top.type) = {Top.type} /\ NamesOf(RefsOf(Top.type), names') = {name}
  BY <1>1, AnswerNames
<1>5. Extends(names, names')
  BY <1>1 DEF Extends
<1>6. done.done = TRUE /\ done.refs = Top.refs
  OBVIOUS
<1> HIDE DEF done, name
<1>7. /\ DOMAIN components' = DOMAIN components \cup {name} /\ components'[name] = done
      /\ \A n \in DOMAIN components : n # name => components'[n] = components[n]
  BY <1>1 DEF With
<1>8. ComponentGathers(components'[name], used'[name], names')
  BY <1>1, <1>2, <1>3, <1>6, <1>7 DEF ComponentGathers
<1>9. \A n \in DOMAIN components' : ComponentGathers(components'[n], used'[n], names')
  BY <1>1, <1>7, <1>8 DEF Gathering, AllGather
<1>10. RefsOf(Top.type) \subseteq DOMAIN names' /\ NamesOf(RefsOf(Top.type), names') \in SUBSET Strings
  BY <1>1, <1>3, <1>4
<1> QED
  BY <1>1, <1>2, <1>4, <1>5, <1>9, <1>10, ReturnGathers

\* What an error leaves behind had been gathered.
LEMMA UnwindGathers ==
  ASSUME Inductive, Gathering, Unwind
  PROVE  Gathering'
<1>1. /\ frames # <<>> /\ frames' = Below /\ mode' = "error" /\ graph' = graph
      /\ UNCHANGED <<names, used>> /\ frames \in Seq(FrameType)
  BY DEF Unwind, history, Inductive, TypeOK
<1>2. /\ Len(frames) \in Nat \ {0} /\ Below \in Seq(FrameType) /\ Len(Below) = Len(frames) - 1
      /\ \A i \in 1 .. Len(Below) : Below[i] = frames[i]
  BY <1>1, TopFrame
<1>3. DOMAIN frames = 1 .. Len(frames) /\ DOMAIN Below = 1 .. Len(Below)
  BY <1>1, <1>2, LenProperties
<1>4. \A i \in DOMAIN frames' : i \in DOMAIN frames /\ frames'[i] = frames[i]
  BY <1>1, <1>2, <1>3
<1>5. \A i \in DOMAIN frames' : i < Len(frames') => i + 1 \in DOMAIN frames' /\ i < Len(frames)
  BY <1>1, <1>2, <1>3
<1>6. \A i \in DOMAIN frames' : FrameGathers(frames'[i], names')
  BY <1>1, <1>4 DEF Gathering, StackGathers
<1>7. \A i \in DOMAIN frames' : i < Len(frames') => Asks(frames'[i], frames'[i + 1].type)
  BY <1>4, <1>5 DEF Gathering, StackAsks
<1>8. \A n \in DOMAIN components' : n \in DOMAIN components /\ components'[n] = components[n]
  BY DEF Unwind, Without
<1>9. \A n \in DOMAIN components' : ComponentGathers(components'[n], used'[n], names')
  BY <1>1, <1>8 DEF Gathering, AllGather
<1> QED
  BY <1>1, <1>6, <1>7, <1>9, GatheringNext

\* Refusals, and the ends of the build.
LEMMA EndGathers ==
  ASSUME Gathering, Fail \/ Abort \/ Exhaust
  PROVE  Gathering'
<1>1. UNCHANGED <<registry, graph, frames>> /\ mode' # "call"
  BY DEF Fail, Abort, Exhaust, history
<1> QED
  BY <1>1, QuietGathers

LEMMA StutterGathers ==
  ASSUME Gathering, UNCHANGED vars
  PROVE  Gathering'
<1>1. UNCHANGED <<registry, graph, frames>> /\ mode' = mode /\ arg' = arg
  BY DEF vars, registry
<1> QED
  BY <1>1, QuietGathers DEF Gathering, CallAsks, Top

LEMMA InitGathers == Init => Gathering
<1> SUFFICES ASSUME Init
             PROVE  Gathering
  OBVIOUS
<1>1. frames = <<>> /\ DOMAIN frames = {} /\ DOMAIN components = {} /\ mode = "idle"
  BY EmptySeq DEF Init
<1> QED
  BY <1>1 DEF Gathering, StackGathers, StackAsks, CallAsks, AllGather

LEMMA NextGathers == Inductive /\ Gathering /\ [Next]_vars => Gathering'
<1> SUFFICES ASSUME Inductive, Gathering, [Next]_vars
             PROVE  Gathering'
  OBVIOUS
<1>1. CASE Leaf
  BY <1>1, LeafGathers
<1>2. CASE Unsupported \/ RecursiveAnonymous \/ Abort \/ Exhaust
  BY <1>2, EndGathers DEF Unsupported, RecursiveAnonymous
<1>3. CASE EnterInline
  BY <1>3, EnterInlineGathers
<1>4. CASE Known
  BY <1>4, KnownGathers
<1>5. CASE EnterNamed
  BY <1>5, EnterNamedGathers
<1>6. CASE Descend
  BY <1>6, DescendGathers
<1>7. CASE CloseInline
  BY <1>7, CloseInlineGathers
<1>8. CASE CloseNamed
  BY <1>8, CloseNamedGathers
<1>9. CASE Unwind
  BY <1>9, UnwindGathers
<1>10. CASE Rest \/ UNCHANGED vars
  BY <1>10, StutterGathers DEF Rest
<1>11. CASE \E t \in Types : Ref(t)
  BY <1>11, RefGathers
<1> QED
  BY <1>1, <1>2, <1>3, <1>4, <1>5, <1>6, <1>7, <1>8, <1>9, <1>10, <1>11 DEF Next, Step

\* A finished component refers to the components of exactly the named structs its
\* type holds (structSchema), however deep in inline types, recursive or not, and
\* in whatever order the build asks for them.
THEOREM ComponentsStayFaithful == Spec => []ComponentsFaithful
<1>1. Init => Inductive /\ Gathering
  BY InitHolds, InitGathers
<1>2. Inductive /\ Gathering /\ [Next]_vars => Inductive' /\ Gathering'
  BY NextKeeps, NextGathers
<1>3. Gathering => ComponentsFaithful
  BY DEF Gathering, AllGather, ComponentGathers, ComponentsFaithful, NamesOf
<1> QED
  BY <1>1, <1>2, <1>3, PTL DEF Spec

---------------------------------------------------------------------------
(* How deep the descent goes. *)

\* An anonymous struct is open once too; a stack that was exhausted was full.
Deep ==
  /\ \A i, j \in DOMAIN frames :
       Kind(frames[i].type) = "anonymous" /\ frames[j].type = frames[i].type => i = j
  /\ mode = "crashed" => Len(frames) = MaxFrames

LEMMA DeepKept ==
  ASSUME Deep, graph' = graph, DOMAIN frames' \subseteq DOMAIN frames,
         \A i \in DOMAIN frames' : frames'[i].type = frames[i].type,
         mode' # "crashed"
  PROVE  Deep'
BY DEF Deep, Kind

LEMMA ReturnDeep ==
  ASSUME Deep, NEW below \in Seq(FrameType), NEW refs, Return(refs, below),
         DOMAIN below \subseteq DOMAIN frames,
         \A i \in DOMAIN below : below[i].type = frames[i].type
  PROVE  Deep'
<1>1. graph' = graph /\ mode' # "crashed"
  BY DEF Return, history
<1>2. DOMAIN frames' \subseteq DOMAIN below /\ \A i \in DOMAIN frames' : frames'[i].type = below[i].type
  <2>1. CASE below = <<>>
    BY <2>1 DEF Return
  <2>2. CASE below # <<>>
    <3> DEFINE n == Len(below)
    <3>1. frames' = [below EXCEPT ![n] = Answered(below[n], refs)]
      BY <2>2 DEF Return
    <3>2. Answered(below[n], refs).type = below[n].type
      BY DEF Answered
    <3> HIDE DEF n
    <3> QED
      BY <3>1, <3>2
  <2> QED
    BY <2>1, <2>2
<1> QED
  BY <1>1, <1>2, DeepKept

LEMMA BelowDeep ==
  ASSUME frames \in Seq(FrameType), frames # <<>>
  PROVE  /\ Below \in Seq(FrameType) /\ DOMAIN Below \subseteq DOMAIN frames
         /\ \A i \in DOMAIN Below : Below[i].type = frames[i].type
<1>1. /\ Len(frames) \in Nat \ {0} /\ Below \in Seq(FrameType) /\ Len(Below) = Len(frames) - 1
      /\ \A i \in 1 .. Len(Below) : Below[i] = frames[i]
  BY TopFrame
<1>2. DOMAIN Below = 1 .. Len(Below) /\ DOMAIN frames = 1 .. Len(frames)
  BY <1>1, LenProperties
<1>3. \A i \in DOMAIN Below : i \in DOMAIN frames
  BY <1>1, <1>2
<1> QED
  BY <1>1, <1>2, <1>3

LEMMA PushDeep ==
  ASSUME TypeOK, Deep, Push(arg), mode = "call",
         Kind(arg) = "anonymous" => arg \notin Open
  PROVE  Deep'
<1>1. /\ frames \in Seq(FrameType) /\ arg \in Types /\ frames' = Append(frames, Frame(arg))
      /\ mode' = "visit" /\ graph' = graph
  BY DEF TypeOK, Push, history
<1>2. /\ DOMAIN frames' = DOMAIN frames \cup {Len(frames) + 1}
      /\ \A i \in DOMAIN frames : frames'[i] = frames[i]
      /\ frames'[Len(frames) + 1] = Frame(arg)
  BY <1>1, OpenGrows
<1>3. Frame(arg).type = arg
  BY DEF Frame
<1>4. ASSUME NEW i \in DOMAIN frames', NEW j \in DOMAIN frames',
             Kind(frames'[i].type) = "anonymous", frames'[j].type = frames'[i].type
      PROVE  i = j
  <2>1. CASE i \in DOMAIN frames /\ j \in DOMAIN frames
    BY <1>2, <1>4, <2>1 DEF Deep
  <2>2. CASE i \in DOMAIN frames /\ j \notin DOMAIN frames
    <3>1. frames[i].type = arg
      BY <1>2, <1>3, <1>4, <2>2
    <3> QED
      BY <1>2, <1>4, <2>2, <3>1 DEF Open
  <2>3. CASE i \notin DOMAIN frames /\ j \in DOMAIN frames
    <3>1. frames[j].type = arg
      BY <1>2, <1>3, <1>4, <2>3
    <3> QED
      BY <1>2, <1>4, <2>3, <3>1 DEF Open
  <2>4. CASE i \notin DOMAIN frames /\ j \notin DOMAIN frames
    BY <1>2, <2>4
  <2> QED
    BY <2>1, <2>2, <2>3, <2>4
<1> QED
  BY <1>1, <1>4 DEF Deep, Kind

LEMMA NextDeep == Inductive /\ Deep /\ [Next]_vars => Deep'
<1> SUFFICES ASSUME Inductive, Deep, [Next]_vars
             PROVE  Deep'
  OBVIOUS
<1>0. TypeOK /\ frames \in Seq(FrameType) /\ (mode = "visit" => frames # <<>>)
  BY DEF Inductive, TypeOK
<1>1. CASE Leaf \/ Known
  BY <1>0, <1>1, ReturnDeep DEF Leaf, Known
<1>2. CASE CloseInline \/ CloseNamed
  <2>1. frames # <<>>
    BY <1>0, <1>2 DEF CloseInline, CloseNamed, Closing
  <2> QED
    BY <1>0, <1>2, <2>1, BelowDeep, ReturnDeep DEF CloseInline, CloseNamed
<1>3. CASE EnterInline
  BY <1>0, <1>3, PushDeep DEF EnterInline, Calling
<1>4. CASE EnterNamed
  BY <1>0, <1>4, PushDeep DEF EnterNamed, Calling
<1>5. CASE Unwind
  <2>1. frames' = Below /\ mode' # "crashed" /\ graph' = graph
    BY <1>5 DEF Unwind, history
  <2> QED
    BY <1>0, <1>5, <2>1, BelowDeep, DeepKept DEF Unwind
<1>6. CASE Unsupported \/ RecursiveAnonymous \/ Descend \/ Abort \/ (\E t \in Types : Ref(t))
  <2>1. frames' = frames /\ mode' # "crashed" /\ graph' = graph
    BY <1>6 DEF Unsupported, RecursiveAnonymous, Fail, Descend, Abort, Ref, history
  <2> QED
    BY <2>1, DeepKept
<1>7. CASE Exhaust
  BY <1>7 DEF Exhaust, Deep, Kind, history
<1>8. CASE Rest \/ UNCHANGED vars
  BY <1>8 DEF Rest, vars, Deep, Kind
<1> QED
  BY <1>1, <1>2, <1>3, <1>4, <1>5, <1>6, <1>7, <1>8 DEF Next, Step

\* The types up to the i-th activation that are no lists: there at most once each.
Solid(i) == Kind(frames[i].type) # "wrap"
Solids(i) == {frames[k].type : k \in {k \in 1 .. i : Solid(k)}}

LEMMA SolidOnce ==
  ASSUME Inductive, Gathering, Deep,
         NEW i \in DOMAIN frames, NEW j \in DOMAIN frames,
         Solid(i), frames[j].type = frames[i].type
  PROVE  i = j
<1>1. Kind(frames[i].type) = "named" \/ Kind(frames[i].type) = "anonymous"
  BY DEF Gathering, StackGathers, FrameGathers, Inline, Solid
<1>2. CASE Kind(frames[i].type) = "named"
  BY <1>2 DEF Inductive, OpenOnce
<1>3. CASE Kind(frames[i].type) = "anonymous"
  BY <1>3 DEF Deep
<1> QED
  BY <1>1, <1>2, <1>3

\* Between two activations of one type there is a struct, unless a list holds itself.
LEMMA ListsEnd ==
  ASSUME Inductive, Gathering, ~EndlessLists,
         NEW i \in DOMAIN frames, NEW j \in DOMAIN frames, i < j,
         frames[i].type = frames[j].type
  PROVE  \E k \in i .. j : Solid(k)
<1> SUFFICES ASSUME \A k \in i .. j : ~Solid(k)
             PROVE  FALSE
  OBVIOUS
<1> DEFINE ts == {frames[k].type : k \in i .. j - 1}
<1>0. /\ frames \in Seq(FrameType) /\ DOMAIN frames = 1 .. Len(frames) /\ Len(frames) \in Nat
      /\ i \in Nat /\ j \in Nat /\ 1 <= i /\ j <= Len(frames)
  BY LenProperties DEF Inductive, TypeOK
<1>1. ASSUME NEW k \in i .. j - 1
      PROVE  /\ frames[k].type \in Types /\ Kind(frames[k].type) = "wrap"
             /\ \E n \in DOMAIN Parts(frames[k].type) :
                  Parts(frames[k].type)[n] = frames[k + 1].type
             /\ frames[k + 1].type \in ts
  <2>1. k \in i .. j /\ k \in DOMAIN frames /\ k + 1 \in DOMAIN frames /\ k < Len(frames)
    BY <1>0
  <2>2. frames[k] \in FrameType
    BY <1>0, <2>1, ElementOfSeq
  <2>3. frames[k].type \in Types /\ frames[k].at \in Nat \ {0}
    BY <2>2 DEF FrameType
  <2>4. Kind(frames[k].type) = "wrap"
    BY <2>1 DEF Solid
  <2>5. Asks(frames[k], frames[k + 1].type)
    BY <2>1 DEF Gathering, StackAsks
  <2>6. Len(Parts(frames[k].type)) \in Nat /\ DOMAIN Parts(frames[k].type) = 1 .. Len(Parts(frames[k].type))
    BY <2>3, PartTypes DEF Inductive
  <2>7. frames[k].at \in DOMAIN Parts(frames[k].type)
    BY <2>3, <2>5, <2>6 DEF Asks
  <2>8. frames[k + 1].type \in ts
    <3>1. CASE k + 1 = j
      <4>1. i \in i .. j - 1
        BY <1>0
      <4> QED
        BY <3>1, <4>1
    <3>2. CASE k + 1 # j
      <4>1. k + 1 \in i .. j - 1
        BY <1>0, <3>2
      <4> QED
        BY <4>1
    <3> QED
      BY <3>1, <3>2
  <2> QED
    BY <2>3, <2>4, <2>5, <2>7, <2>8 DEF Asks
<1>2. ts # {}
  <2>1. i \in i .. j - 1
    BY <1>0
  <2> QED
    BY <2>1
<1>3. ASSUME NEW t \in ts
      PROVE  t \in Types /\ Kind(t) = "wrap" /\ \E n \in DOMAIN Parts(t) : Parts(t)[n] \in ts
  <2>1. PICK k \in i .. j - 1 : t = frames[k].type
    OBVIOUS
  <2> HIDE DEF ts
  <2> QED
    BY <1>1, <2>1
<1> HIDE DEF ts
<1> QED
  BY <1>2, <1>3 DEF EndlessLists

MaxDescent == (Cardinality(Types) + 1) * Cardinality(Types)

\* The descent is no deeper than this, unless a list holds itself: an activation is
\* told from the others by its type and by how many structs are open at it.
LEMMA DepthBound ==
  ASSUME IsFiniteSet(Types), Inductive, Gathering, Deep, ~EndlessLists
  PROVE  Len(frames) <= MaxDescent
<1> DEFINE C == Cardinality(Types)
           L == Len(frames)
           f == [i \in 1 .. L |-> <<Cardinality(Solids(i)), frames[i].type>>]
<1>0. /\ frames \in Seq(FrameType) /\ DOMAIN frames = 1 .. L /\ L \in Nat /\ C \in Nat
      /\ \A i \in 1 .. L : frames[i].type \in Types
  <2>1. frames \in Seq(FrameType)
    BY DEF Inductive, TypeOK
  <2>2. \A i \in 1 .. L : frames[i] \in FrameType
    BY <2>1, ElementOfSeq
  <2> QED
    BY <2>1, <2>2, LenProperties, FS_CardinalityType DEF FrameType
<1> HIDE DEF C
<1>1. ASSUME NEW i \in 1 .. L
      PROVE  Solids(i) \in SUBSET Types /\ IsFiniteSet(Solids(i)) /\ Cardinality(Solids(i)) \in 0 .. C
  <2>1. \A k \in 1 .. i : k \in 1 .. L
    BY <1>0
  <2>2. Solids(i) \in SUBSET Types
    BY <1>0, <2>1 DEF Solids
  <2>3. IsFiniteSet(Solids(i)) /\ Cardinality(Solids(i)) <= C
    BY <2>2, FS_Subset DEF C
  <2>4. Cardinality(Solids(i)) \in Nat
    BY <2>3, FS_CardinalityType
  <2> QED
    BY <1>0, <2>2, <2>3, <2>4
<1>2. ASSUME NEW i \in 1 .. L, NEW j \in 1 .. L, i < j,
             Cardinality(Solids(i)) = Cardinality(Solids(j)), frames[i].type = frames[j].type
      PROVE  FALSE
  <2>1. Solids(i) \in SUBSET Solids(j)
    <3>1. \A k \in 1 .. i : k \in 1 .. j
      BY <1>0, <1>2
    <3> QED
      BY <3>1 DEF Solids
  <2>2. Solids(i) = Solids(j)
    BY <1>1, <1>2, <2>1, FS_Subset
  <2>3. PICK k \in i .. j : Solid(k)
    BY <1>0, <1>2, ListsEnd
  <2>4. k \in 1 .. j /\ k \in 1 .. L
    BY <1>0
  <2>5. frames[k].type \in Solids(i)
    BY <2>2, <2>3, <2>4 DEF Solids
  <2>6. PICK m \in 1 .. i : frames[m].type = frames[k].type
    BY <2>5 DEF Solids
  <2>7. m \in 1 .. L
    BY <1>0
  <2>8. k = m
    BY <1>0, <2>3, <2>4, <2>6, <2>7, SolidOnce
  <2>9. k = i
    BY <1>0, <2>3, <2>4, <2>8
  <2>10. j = i
    BY <1>0, <1>2, <2>3, <2>9, SolidOnce
  <2> QED
    BY <1>0, <1>2, <2>10
<1>3. f \in [1 .. L -> (0 .. C) \X Types]
  BY <1>0, <1>1
<1>4. ASSUME NEW i \in 1 .. L, NEW j \in 1 .. L, f[i] = f[j]
      PROVE  i = j
  <2>1. Cardinality(Solids(i)) = Cardinality(Solids(j)) /\ frames[i].type = frames[j].type
    BY <1>4
  <2>2. ~(i < j) /\ ~(j < i)
    BY <1>2, <2>1
  <2> QED
    BY <1>0, <2>2
<1>5. f \in Injection(1 .. L, (0 .. C) \X Types)
  <2>1. DOMAIN f = 1 .. L
    BY <1>3
  <2> HIDE DEF f
  <2> QED
    BY <1>3, <1>4, <2>1 DEF Injection, IsInjective
<1>6. /\ IsFiniteSet((0 .. C) \X Types)
      /\ Cardinality((0 .. C) \X Types) = (C + 1) * C
  <2>1. IsFiniteSet(0 .. C) /\ Cardinality(0 .. C) = C + 1
    BY <1>0, FS_Interval
  <2> QED
    BY <2>1, FS_Product DEF C
<1> HIDE DEF f
<1>7. Cardinality(1 .. L) <= (C + 1) * C
  BY <1>5, <1>6, FS_Injection
<1>8. Cardinality(1 .. L) = L
  <2> HIDE DEF L
  <2>1. 1 \in Int /\ L \in Int
    BY <1>0
  <2>2. Cardinality(1 .. L) = IF 1 > L THEN 0 ELSE L - 1 + 1
    BY <2>1, FS_Interval
  <2> QED
    BY <1>0, <2>2
<1> QED
  BY <1>7, <1>8 DEF MaxDescent, C

\* The descent of schemaFor runs out of stack on lists of themselves only: with a
\* deeper stack no other type, recursive or not, ends the program (reflector.go:90).
StackSuffices == mode = "crashed" => EndlessLists \/ MaxFrames <= MaxDescent

\* For any program of finitely many types, in every state of every build.
THEOREM StackHolds == IsFiniteSet(Types) => (Spec => []StackSuffices)
<1> SUFFICES ASSUME IsFiniteSet(Types)
             PROVE  Spec => []StackSuffices
  OBVIOUS
<1>1. Init => Inductive /\ Gathering /\ Deep
  <2>1. ASSUME Init
        PROVE  Deep
    BY <2>1 DEF Init, Deep
  <2> QED
    BY <2>1, InitHolds, InitGathers
<1>2. Inductive /\ Gathering /\ Deep /\ [Next]_vars => Inductive' /\ Gathering' /\ Deep'
  BY NextKeeps, NextGathers, NextDeep
<1>3. Inductive /\ Gathering /\ Deep => StackSuffices
  BY DepthBound DEF Deep, StackSuffices
<1> QED
  BY <1>1, <1>2, <1>3, PTL DEF Spec
=============================================================================
