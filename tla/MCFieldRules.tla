----------------------------- MODULE MCFieldRules -----------------------------
(* Instances of FieldRules for TLC. *)
EXTENDS FieldRules

Type(kind, pointers, stringer, quoted, described, reads) ==
  [kind |-> kind, pointers |-> pointers, stringer |-> stringer, quoted |-> quoted,
   described |-> described, reads |-> reads]
\* By the kind alone; a **T among them.
PlainTypes ==
  {Type(k, p, FALSE, FALSE, "kind", "kind") : k \in Kinds, p \in {0, 1}}
    \cup {Type(k, p, s, ~s, "kind", "kind") : k \in Scalar, p \in {0, 1}, s \in BOOLEAN}
    \cup {Type("int", 2, FALSE, FALSE, "kind", "kind")}
\* With a schema or a JSON form of their own.  ("int", "text", "kind") is a Level with
\* MarshalText alone, ("slice", "text", "string") a net.IP, ("struct", "text", "string")
\* a time.Time, ("string", "text", "string") a UUID, ("slice", "kind", "string") a []byte.
OwnTypes ==
  {Type(k, 0, FALSE, FALSE, d, r) :
     k \in {"int", "uint", "string", "slice", "array", "struct"},
     d \in {"kind", "text", "provided"}, r \in {"kind", "string", "number"}}
    \cup {Type(k, 1, FALSE, FALSE, d, r) :
             k \in {"int", "struct"}, d \in {"text", "provided"}, r \in {"kind", "string"}}
    \cup {Type("int", p, FALSE, TRUE, "text", r) : p \in {0, 1}, r \in {"kind", "string"}}
AllTypes == PlainTypes \cup OwnTypes

Rule(kind, n, choices) == [kind |-> kind, n |-> n, choices |-> choices]
AllRules ==
  {Rule(k, 0, {}) : k \in {"required", "email", "uuid", "e164", "malformed", "oneof"}}
    \cup {Rule(k, n, {}) : k \in {"min", "max", "len", "gte", "lte"}, n \in {-1, 1, 2, 9}}
    \cup {Rule("oneof", 0, {1, 2}), Rule("oneof", 0, {0, 1}), Rule("oneof", 0, {-1})}
\* 9 is the first number whose float64 is another one.
AllIds == {-1, 0, 1, 2, 3, 8, 9}
Strings == {0, 1, 2, 3, 8, 9}
AllLengths == [i \in Strings |-> CASE i = 0 -> 0 [] i = 1 -> 1 [] i = 2 -> 2 [] OTHER -> 9]
AllFormats ==
  [i \in Strings |-> CASE i = 3 -> {"email"} [] i = 8 -> {"uuid"} [] i = 9 -> {"e164"} [] OTHER -> {}]
\* A string that reads as a number, numbers that read as another one, and the other way round.
AllReads == [i \in AllIds |-> CASE i = 2 -> 3 [] i = 3 -> 0 [] i = 8 -> 2 [] i = 9 -> 9 [] OTHER -> 1]
=============================================================================
