-------------------------- MODULE MCSchemaRegistry --------------------------
(* Instances of SchemaRegistry for TLC. *)
EXTENDS SchemaRegistry

AllTypes == {"a.User", "b.User", "c.b_User", "struct", "wrap", "leaf", "bad"}
AllNames == {"User", "a_User", "b_User", "b_User_2", "c_b_User"}
\* b.User gets User, b_User or b_User_2; c's type is itself called b_User.
Candidates ==
  [t \in AllTypes |->
     CASE t = "a.User" -> <<"User", "a_User">>
       [] t = "b.User" -> <<"User", "b_User", "b_User_2">>
       [] t = "c.b_User" -> <<"b_User", "c_b_User">>
       [] OTHER -> <<>>]

KindOf ==
  [t \in AllTypes |->
     CASE t = "struct" -> "anonymous" [] t = "wrap" -> "wrap"
       [] t = "leaf" -> "leaf" [] t = "bad" -> "bad" [] OTHER -> "named"]

Lists(ts, n) == UNION {[1..k -> ts] : k \in 0..n}
Graph(a, b, c, s, w) ==
  [kind |-> KindOf,
   parts |-> [t \in AllTypes |->
     CASE t = "a.User" -> a [] t = "b.User" -> b [] t = "c.b_User" -> c
       [] t = "struct" -> s [] t = "wrap" -> <<w>> [] OTHER -> <<>>]]

Named == {"a.User", "b.User", "c.b_User"}
EveryGraph ==
  {Graph(a, b, c, s, w) :
     a \in Lists({"b.User", "struct", "wrap"}, 2),
     b \in Lists({"a.User", "c.b_User", "wrap", "bad"}, 1),
     c \in Lists({"b.User", "leaf", "struct"}, 1),
     s \in Lists({"a.User", "c.b_User", "wrap", "bad"}, 1),
     w \in {"a.User", "b.User", "struct"}}
\* type Tree map[string]Tree, in a struct.
TreeGraphs == {Graph(<<"wrap">>, b, <<>>, <<>>, "wrap") : b \in {<<>>, <<"wrap">>, <<"a.User">>}}
AllGraphs == EveryGraph \cup TreeGraphs
=============================================================================
