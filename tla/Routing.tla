------------------------------ MODULE Routing ------------------------------
(***************************************************************************)
(* Paths, prefixes and ServeMux patterns: what group.go makes of a prefix  *)
(* and a path, what internal/route makes of the result, and when the       *)
(* standard library's ServeMux refuses two patterns.                       *)
(*                                                                         *)
(* A path is its sequence of segments and whether it ends in a slash: the  *)
(* characters inside a segment only matter through the kind, the name and  *)
(* the constraint of the segment.                                          *)
(***************************************************************************)
EXTENDS Naturals, Sequences

Literal(name) == [kind |-> "literal", name |-> name, constraint |-> ""]

\* {name} and {name:constraint}
Param(name, constraint) ==
  [kind |-> "param", name |-> name, constraint |-> constraint]

EmptySegment == Literal("")

Path(segs, slash) == [segs |-> segs, slash |-> slash]

NoPath == Path(<<>>, FALSE)      \* the string ""
RootPath == Path(<<>>, TRUE)     \* the string "/"

Segments(path) == {path.segs[i] : i \in DOMAIN path.segs}

---------------------------------------------------------------------------
(* Prefixes and joined paths: group.go. *)

\* A prefix is static and has no empty segment.
PrefixAccepted(prefix) ==
  \A s \in Segments(prefix) : s.kind = "literal" /\ s # EmptySegment

\* "" and "/" become "", a trailing slash is trimmed.
NormalizePrefix(prefix) == Path(prefix.segs, FALSE)

\* The separator is always written: a prefix that is itself "/" leaves an
\* empty segment in front of the path.
JoinPaths(prefix, path) ==
  IF prefix = NoPath
  THEN IF path = NoPath THEN RootPath ELSE path
  ELSE IF path \in {NoPath, RootPath}
       THEN prefix
       ELSE Path(prefix.segs \o (IF prefix.slash THEN <<EmptySegment>> ELSE <<>>)
                             \o path.segs,
                 path.slash)

---------------------------------------------------------------------------
(* Route templates: internal/route. *)

Constraints == {"string", "uuid", "int", "int64", "bool", "date", "datetime"}

\* No empty segment, known constraints, no parameter name used twice.
ParseAccepts(route) ==
  /\ route # NoPath
  /\ \A i \in DOMAIN route.segs :
       /\ route.segs[i] # EmptySegment
       /\ route.segs[i].kind = "param" =>
            /\ route.segs[i].name # ""
            /\ route.segs[i].constraint \in Constraints \cup {""}
            /\ \A j \in DOMAIN route.segs \ {i} :
                 route.segs[j].kind = "param" =>
                   route.segs[j].name # route.segs[i].name

Unconstrained(segs) == [i \in DOMAIN segs |-> [segs[i] EXCEPT !.constraint = ""]]

\* The document's path and the mux's path both drop the constraints; the
\* mux's path closes a trailing slash with {$}, so it matches nothing below.
OpenAPIPath(route) == Path(Unconstrained(route.segs), route.slash)

ServeMuxPath(route) ==
  [segs |-> Unconstrained(route.segs),
   tail |-> IF route.slash THEN "end" ELSE "none"]

---------------------------------------------------------------------------
(* net/http.ServeMux: which patterns it accepts together.  A pattern is a  *)
(* method and a path of segments with a tail: "none", "end" ({$}), or      *)
(* "rest" (a final slash: every path below).                               *)

Pattern(method, muxPath) ==
  [method |-> method, segs |-> muxPath.segs, tail |-> muxPath.tail]

\* A documentation path is registered as it is written.
DocumentationPattern(path) ==
  [method |-> "GET", segs |-> path.segs, tail |-> IF path.slash THEN "rest" ELSE "none"]

SegmentCovers(s, t) == s.kind = "param" \/ s = t
SegmentsMeet(s, t) == s.kind = "param" \/ t.kind = "param" \/ s = t

\* The length of q is one that p's tail allows.
TailReaches(p, q) ==
  IF p.tail = "rest"
  THEN \/ Len(q.segs) > Len(p.segs)
       \/ Len(q.segs) = Len(p.segs) /\ q.tail # "none"
  ELSE Len(q.segs) = Len(p.segs) /\ q.tail = p.tail

\* Every request path that q matches is matched by p.
PathCovers(p, q) ==
  /\ TailReaches(p, q)
  /\ \A i \in DOMAIN p.segs : SegmentCovers(p.segs[i], q.segs[i])

\* Some request path is matched by both.
PathsMeet(p, q) ==
  /\ TailReaches(p, q) \/ TailReaches(q, p)
  /\ \A i \in DOMAIN p.segs \cap DOMAIN q.segs : SegmentsMeet(p.segs[i], q.segs[i])

\* A GET pattern also serves HEAD.
MethodCovers(m, n) == m = n \/ (m = "GET" /\ n = "HEAD")

PatternCovers(p, q) == MethodCovers(p.method, q.method) /\ PathCovers(p, q)
PatternsMeet(p, q) ==
  /\ MethodCovers(p.method, q.method) \/ MethodCovers(q.method, p.method)
  /\ PathsMeet(p, q)

\* ServeMux panics on two patterns that share a request when neither is more
\* specific than the other; two equivalent patterns are such a pair.
Conflict(p, q) ==
  PatternsMeet(p, q) /\ (PatternCovers(p, q) <=> PatternCovers(q, p))
============================================================================
