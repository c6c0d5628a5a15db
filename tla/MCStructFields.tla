-------------------------- MODULE MCStructFields --------------------------
(* Instances of StructFields for TLC. *)
EXTENDS StructFields

T == "T"  A == "A"  B == "B"  C == "C"  D == "D"

\* A struct with MarshalText only, and one that is a leaf to both sides.  D is a
\* struct of package time without methods: a leaf to the plan only.
M == "M"  S == "S"

Plain(name, json, rule) ==
  [name |-> name, json |-> json, type |-> Scalar, slice |-> FALSE, anonymous |-> FALSE,
   exported |-> TRUE, rule |-> rule]
Struct(name, type, slice) ==
  [name |-> name, json |-> "name", type |-> type, slice |-> slice, anonymous |-> FALSE,
   exported |-> TRUE, rule |-> FALSE]
Embed(name, json, type, exported) ==
  [name |-> name, json |-> json, type |-> type, slice |-> FALSE, anonymous |-> TRUE,
   exported |-> exported, rule |-> FALSE]

\* Every kind of field, and every type embedding every other one.
Leaves ==
  {Plain("x", "none", TRUE), Plain("x", "name", FALSE), Plain("y", "none", TRUE),
   Plain("y", "skip", TRUE), Plain("y", "dash", TRUE)}
Everything(others) ==
  Leaves \cup {[Plain("x", "none", TRUE) EXCEPT !.exported = FALSE]}
    \cup {Embed("y", "none", t, exported) : t \in others, exported \in BOOLEAN}
    \cup {Embed("x", "name", t, TRUE) : t \in others}
ThreeTypes == {T, A, B}
ConflictMenu == [t \in ThreeTypes |-> Everything(ThreeTypes \ (IF t = T THEN {T} ELSE {T, t})) ]

\* Nesting, embedding and renaming, with rules; below B nothing more is held.
Inner(t) == CASE t = T -> {A, B} [] t = A -> {B} [] t = B -> {}
NestMenu ==
  [t \in ThreeTypes |->
     {Plain("x", "none", TRUE), Plain("y", "name", TRUE), Plain("y", "skip", TRUE)}
     \cup {Struct("z", u, FALSE) : u \in Inner(t)}
     \cup {Embed("e", json, u, TRUE) : u \in Inner(t), json \in {"none", "name"}}
     \cup {[Embed("e", "none", u, TRUE) EXCEPT !.rule = TRUE] : u \in Inner(t)}]

\* A type that two embedded types embed, and that embeds the type of the field.
FiveTypes == {T, A, B, C, D}
DiamondMenu ==
  [t \in FiveTypes |->
     CASE t = T -> {Embed("y", "none", A, TRUE), Embed("z", "none", B, TRUE)}
       [] t \in {A, B} -> {Embed("y", "none", C, TRUE), Plain("y", "none", TRUE)}
       [] t = C -> {Embed("y", "none", D, TRUE), Plain("z", "none", TRUE)}
       [] t = D -> {Plain("x", "none", TRUE), Plain("y", "name", TRUE)}]

\* Structs that one side or both do not open, held and embedded.  (What embeds a
\* MarshalText has one itself.)
LeafMenu ==
  [t \in {T, A, D, M, S} |->
     CASE t = T -> {Struct("x", M, FALSE), Struct("y", D, FALSE), Struct("z", S, FALSE),
                    Struct("e", A, FALSE), Embed("y", "none", D, TRUE)}
       [] t = A -> {Struct("x", M, FALSE), Struct("y", D, FALSE), Struct("z", S, FALSE),
                    Plain("x", "none", TRUE)}
       [] t = D -> {Plain("x", "none", TRUE), Plain("y", "name", TRUE)}
       [] t \in {M, S} -> {Plain("x", "none", TRUE)}]
SevenTypes == FiveTypes \cup {M, S}

\* The types of a program are drawn from one menu.
VARIABLE scenario

MenuOf ==
  [conflicts |-> ConflictMenu, nested |-> NestMenu, diamond |-> DiamondMenu, leaves |-> LeafMenu]
EveryMenu ==
  [t \in SevenTypes |-> UNION {MenuOf[s][t] : s \in {s \in DOMAIN MenuOf : t \in DOMAIN MenuOf[s]}}]

InScenario ==
  \A t \in Types : shapes'[t] # shapes[t] =>
    /\ t \in DOMAIN MenuOf[scenario]
    /\ shapes'[t][Len(shapes'[t])] \in MenuOf[scenario][t]

ScenarioInit == Init /\ scenario \in DOMAIN MenuOf
ScenarioNext == Next /\ InScenario /\ UNCHANGED scenario
ScenarioSpec == ScenarioInit /\ [][ScenarioNext]_<<vars, scenario>>
=============================================================================
