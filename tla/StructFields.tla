---------------------------- MODULE StructFields ----------------------------
(***************************************************************************)
(* What one Go struct type becomes on both sides of an operation: the JSON *)
(* properties its schema documents (internal/schema/jsonfields.go), and    *)
(* the fields its validation plan visits (internal/validation/compiler.go  *)
(* and validate.go).  The two walk the same type in different ways; the    *)
(* properties compare them with each other and with encoding/json.         *)
(***************************************************************************)
EXTENDS Naturals, Sequences, FiniteSets

CONSTANTS
  Types,       \* struct types
  Scalar,      \* any type without fields of its own
  SchemaLeaves,  \* structs whose schema does not show their fields
  PlanLeaves,    \* structs the validation plan does not enter
  Names,       \* names a plain field may have in JSON
  Menu,        \* the fields each type may have
  MaxFields,   \* bound: fields of one type
  Root         \* the type of the request body

\* json: the tag, "name" if it gives the field its name, "none" if the field keeps
\* its Go name, "skip" for json:"-" and "dash" for json:"-,".  A pointer counts
\* as what it points to; slice: a list or a map of the type.
FieldType ==
  [name : Names, json : {"name", "none", "skip", "dash"}, type : Types \cup {Scalar},
   slice : BOOLEAN, anonymous : BOOLEAN, exported : BOOLEAN, rule : BOOLEAN]

\* The two sides stop at different structs.  The schema stops at those that describe
\* themselves, time.Time, UUID and those with a MarshalText (reflector.go:47-61), the
\* plan at package time, UUID and those with an UnmarshalText (compiler.go:77).
ASSUME FieldsAssumption ==
  /\ IsFiniteSet(Types) /\ Scalar \notin Types /\ Root \in Types
  /\ SchemaLeaves \subseteq Types /\ PlanLeaves \subseteq Types
  /\ MaxFields \in Nat
  /\ Menu \in [Types -> SUBSET FieldType]
  /\ \A t \in Types : \A f \in Menu[t] : f.anonymous => ~f.slice

VARIABLES
  shapes,      \* the fields of each type, in order
  stage,       \* "declared", then "compiled"
  selected,    \* the JSON fields of Root that its schema documents
  plan         \* Root's validation plan

vars == <<shapes, stage, selected, plan>>

\* A field of the program: the type that declares it and its place in there.
Places == UNION {{t} \X DOMAIN shapes[t] : t \in Types}
Field(x) == shapes[x[1]][x[2]]

Dash == "-"

JSONName(f) == IF f.json = "dash" THEN Dash ELSE f.name
Tagged(f) == f.json \in {"name", "dash"}

\* A field encoding/json looks at, and one it looks through.
Visible(f) == f.json # "skip" /\ (f.exported \/ (f.anonymous /\ f.type # Scalar))
Promotes(f) == f.anonymous /\ ~Tagged(f) /\ f.type # Scalar

Seen == {x \in Places : Visible(Field(x))}
Entered == {x \in Seen : Promotes(Field(x))}

---------------------------------------------------------------------------
(* Both sides walk down from a type: a path is the fields passed on the way. *)

Last(w) == w[Len(w)]

\* The paths from t over seen fields, all but the last entered, that come to a type
\* in once at most once: that type is on the stack of the walk.
Walks(t, seen, entered, once) ==
  LET walks[n \in 0 .. Cardinality(Types)] ==
        IF n = 0 THEN {}
        ELSE LET shorter == walks[n - 1]
             IN {<<x>> : x \in {x \in seen : x[1] = t}}
                  \cup UNION {{Append(w, x) : x \in {x \in seen :
                                 /\ x[1] = Field(Last(w)).type
                                 /\ x[1] \in once => \A k \in DOMAIN w : w[k][1] # x[1]}} :
                              w \in {w \in shorter : Last(w) \in entered}}
  IN walks[Cardinality(Types)]


(* internal/schema/jsonfields.go *)

\* A struct that embeds itself is entered once on each path.
CollectJSONFields(t) == {w \in Walks(t, Seen, Entered, Types) : ~Promotes(Field(Last(w)))}

NameOf(c) == JSONName(Field(Last(c)))
TaggedAs(c) == Tagged(Field(Last(c)))

\* Mutant: the tag of a field does not count.
DominantUntagged(group) ==
  {c \in group : \A d \in group : Len(c) < Len(d) \/ d = c}

\* Mutant: equals at the least depth are all kept.
DominantTies(group) ==
  {c \in group : \A d \in group : Len(c) <= Len(d)}

\* Of the candidates of one name: the shallowest, the tagged ones among them if
\* there are any, and none unless exactly one is left.
Dominant(group) ==
  LET shallow == {c \in group : \A d \in group : Len(c) <= Len(d)}
      tagged == {c \in shallow : TaggedAs(c)}
      best == IF tagged # {} THEN tagged ELSE shallow
  IN {c \in best : best = {c}}

ResolveJSONFields(t) ==
  LET candidates == CollectJSONFields(t)
  IN UNION {Dominant({c \in candidates : NameOf(c) = n}) : n \in Names \cup {Dash}}

---------------------------------------------------------------------------
(* internal/validation/compiler.go: the fields with rules. *)

Bound == {x \in Places : Field(x).exported /\ Field(x).json \notin {"skip", "dash"}}

\* Mutant: every struct is entered.
NestedLeaves == {x \in Bound : Field(x).type # Scalar /\ ~Field(x).slice}

Nested ==
  {x \in Bound : Field(x).type \notin PlanLeaves \cup {Scalar} /\ ~Field(x).slice}

\* Mutant: embedded structs are left to their own plans.
CompileStructFlat(t) == {<<x>> : x \in {x \in Bound : x[1] = t /\ Field(x).rule}}

CompileStruct(t) == {w \in Walks(t, Bound, Nested, Types) : Field(Last(w)).rule}

---------------------------------------------------------------------------
Init ==
  /\ shapes = [t \in Types |-> <<>>]
  /\ stage = "declared" /\ selected = {} /\ plan = {}

\* The program's types: Go field names are unique within a struct, the name of
\* an embedded field is its type's.
Clash(f, g) ==
  IF f.anonymous \/ g.anonymous THEN f.anonymous /\ g.anonymous /\ f.type = g.type
  ELSE f.json = "none" /\ g.json = "none" /\ f.name = g.name

Declare ==
  /\ stage = "declared"
  /\ \E t \in Types : \E f \in Menu[t] :
       /\ Len(shapes[t]) < MaxFields
       /\ \A i \in DOMAIN shapes[t] : ~Clash(f, shapes[t][i])
       /\ shapes' = [shapes EXCEPT ![t] = Append(@, f)]
  /\ UNCHANGED <<stage, selected, plan>>

\* An operation's compilation asks for the schema of its body (Registry.structSchema)
\* and for its validation plan (validation.Compile, of the struct that holds the body).
Compile ==
  /\ stage = "declared" /\ stage' = "compiled"
  /\ selected' = IF Root \in SchemaLeaves THEN {} ELSE ResolveJSONFields(Root)
  /\ plan' = IF Root \in PlanLeaves THEN {} ELSE CompileStruct(Root)
  /\ UNCHANGED shapes

Done == stage = "compiled" /\ UNCHANGED vars

Next == Declare \/ Compile \/ Done

Spec == Init /\ [][Next]_vars

---------------------------------------------------------------------------
(* The field selection of encoding/json v1, level by level: a type is        *)
(* expanded at the first level that embeds it, and its fields count twice    *)
(* when that level embeds it more than once.                                 *)

\* The types met on the first level, on the first two, and so on.
Met(t) ==
  LET met[n \in 1 .. Cardinality(Types)] ==
        IF n = 1 THEN <<{t}>>
        ELSE LET before == met[n - 1]
             IN Append(before, Last(before)
                  \cup {Field(x).type : x \in {x \in Entered : x[1] \in Last(before)}})
  IN met[Cardinality(Types)]

\* The fields encoding/json reads and writes: where each is declared.
EncodingJSON(t) ==
  LET met == Met(t)
      fields == Seen \ Entered
      Level(n) == IF n = 1 THEN {t} ELSE met[n] \ met[n - 1]
      Embeds(n, u) == {x \in Entered : x[1] \in Level(n) /\ Field(x).type = u}
      Copied(n, u) == n > 1 /\ \E x, y \in Embeds(n - 1, u) : x # y
      all == UNION {{[at |-> x, level |-> n, copied |-> Copied(n, x[1])] :
                       x \in {x \in fields : x[1] \in Level(n)}} : n \in DOMAIN met}
      Name(f) == JSONName(Field(f.at))
      Dominates(f, g) ==
        f.level < g.level \/ (f.level = g.level /\ Tagged(Field(f.at)) /\ ~Tagged(Field(g.at)))
  IN {f.at : f \in {f \in all : ~f.copied /\ \A g \in all \ {f} :
                                   Name(g) = Name(f) => Dominates(f, g)}}

\* encoding/json counts how often the level above embeds a type, the code how many
\* paths lead to it.  They differ on a field that is met twice through one
\* embedding, because the type which has that embedding is met twice.
BelowDiamond ==
  \E c, d \in CollectJSONFields(Root) :
    /\ c # d /\ Last(c)[1] = Last(d)[1] /\ Len(c) = Len(d)
    /\ Len(c) > 1 /\ c[Len(c) - 1] = d[Len(c) - 1]

---------------------------------------------------------------------------
(* Which fields the two sides constrain. *)

\* The schema of a field refers to the schema of its type, over and over: each part
\* of a documented path that ends at a property is a selected field of the type it
\* begins at.  Of the paths of a recursive type these are the short ones.  What is
\* promoted is documented whatever struct promotes it.
Documented(t) ==
  LET Deeper == {x \in Seen : /\ Field(x).type # Scalar
                              /\ Promotes(Field(x)) \/ Field(x).type \notin SchemaLeaves}
      Ends(w, k) == ~Promotes(Field(w[k]))
      Begins(w, j) == j = 1 \/ Ends(w, j - 1)
  IN {w \in Walks(t, Seen, Deeper, {}) :
        /\ t \notin SchemaLeaves
        /\ Field(Last(w)).rule /\ Ends(w, Len(w))
        /\ \A j, k \in DOMAIN w :
             j <= k /\ Begins(w, j) /\ Ends(w, k) /\ (\A i \in j .. k - 1 : ~Ends(w, i)) =>
               SubSeq(w, j, k) \in ResolveJSONFields(w[j][1])}

\* The fields whose types one side or the other opens.
Structs ==
  {x \in Places : /\ Field(x).type # Scalar
                  /\ Promotes(Field(x)) \/ Field(x).type \notin SchemaLeaves \cap PlanLeaves}

\* The types that values of t hold, as far as they are opened.
Reach(t) == {Last(w)[1] : w \in Walks(t, Places, Structs, Types)}

\* No type holds itself, through whatever others.
Acyclic(ts) ==
  \A S \in SUBSET ts \ {{}} : \E u \in S : \A x \in Structs : x[1] \in S => Field(x).type # u

Hides(t) == \E c \in CollectJSONFields(t) : c \notin ResolveJSONFields(t)

\* Both sides stop at the type, or neither does.
Alike(type) == type \in SchemaLeaves <=> type \in PlanLeaves

\* Nothing hides or repeats, no rule sits on an embedding, and no type is a struct
\* to one side only: what the two walks agree on by design.
Ordinary ==
  LET reach == Reach(Root)
  IN /\ Alike(Root)
     /\ \A x \in Places : x[1] \in reach =>
          LET f == Field(x)
          IN /\ ~f.slice /\ f.json # "dash" /\ (Visible(f) => f.exported)
             /\ IF Promotes(f) THEN ~f.rule /\ f.type \notin PlanLeaves ELSE Alike(f.type)
     /\ Acyclic(reach)
     /\ \A t \in reach : ~Hides(t)

---------------------------------------------------------------------------
(* Properties. *)

\* The schema of a struct documents exactly the fields encoding/json selects from
\* it, through shadowing, tags, ambiguity and embedded cycles (CHANGELOG.md:35),
\* unless a field lies below a type that is embedded twice (jsonfields.go:163).  Of a
\* struct with a JSON or text method of its own encoding/json reads no fields.
SelectsLikeEncodingJSON ==
  stage = "compiled" /\ Root \notin SchemaLeaves =>
    {Last(c) : c \in selected} = EncodingJSON(Root) \/ BelowDiamond

\* On a type without slices, cycles, hidden fields, unexported embeddings, rules on
\* embedded fields and structs that are leaves of one side only, the schema and the
\* validation plan constrain the same fields, however they are nested, embedded or
\* renamed (architecture.md:97).
OrdinaryAgree ==
  stage = "compiled" /\ Ordinary => plan = Documented(Root)
=============================================================================
