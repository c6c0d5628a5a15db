------------------------ MODULE MCOperationDocument ------------------------
(* An instance of OperationDocument for TLC. *)
EXTENDS OperationDocument, TLC

TypesDef == {"User", "Problem", "Text", "Channel"}
SchemableDef == TypesDef \ {"Channel"}
MediaDef == {"text/csv", "text/csv; charset=utf-8", "application/json"}
EssenceDef ==
  [m \in MediaDef |-> IF m = "application/json" THEN m ELSE "text/csv"]

Scheme(type, scheme, format, name, in) ==
  [type |-> type, scheme |-> scheme, format |-> format, name |-> name, in |-> in]

\* Of either type, and one of each that is refused.
SchemesDef ==
  {Scheme("http", "bearer", "opaque", "", ""), Scheme("apiKey", "", "", "X-Key", "header"),
   Scheme("http", "basic", "JWT", "", ""), Scheme("apiKey", "", "", "X-Key", "body")}

Spec200(kind, media, type) == [kind |-> kind, media |-> media, type |-> type]
JsonOf(type) == Spec200("json", "application/json", type)
ProblemSpec == Spec200("problem", "application/json", NoType)
RawSpec == Spec200("raw", "application/json", NoType)
Csv == Spec200("custom", "text/csv; charset=utf-8", "Text")

Field(in, name, required, type) ==
  [in |-> in, name |-> name, required |-> required, type |-> type]

Route(segs) == Path(segs, FALSE)
Users == Literal("users")

Typed(method, segs, fields, responses) ==
  [method |-> method, route |-> Route(segs), raw |-> FALSE, fields |-> fields,
   responses |-> responses, consumes |-> {}, feature |-> FALSE, security |-> NoProvider]
Raw(method, segs, consumes, responses) ==
  [Typed(method, segs, <<>>, responses) EXCEPT !.raw = TRUE, !.consumes = consumes]

Id == Field("path", "id", TRUE, "Text")
Query == Field("query", "q", FALSE, "Text")
Body == Field("body", "json", TRUE, "User")

List == Typed("GET", <<Users>>, <<Query>>, 200 :> JsonOf("User") @@ 400 :> Csv @@ 500 :> ProblemSpec)
Read == Typed("GET", <<Users, Param("id", "int64")>>, <<Id>>, 200 :> JsonOf("User") @@ 404 :> ProblemSpec)
Update ==
  Typed("PUT", <<Users, Param("id", "")>>, <<Id, Body>>, 204 :> JsonOf("User") @@ 415 :> Csv)
Export == Raw("GET", <<Users, Param("id", "uuid"), Literal("csv")>>, {}, 200 :> Csv @@ 101 :> RawSpec)
Upload == Raw("POST", <<Users, Param("user", "")>>, {"text/csv", "text/csv; charset=utf-8"}, 201 :> RawSpec)

Legacy(d) == [d EXCEPT !.feature = TRUE]
Secured(d, name) == [d EXCEPT !.security = name]

\* Typed and raw operations, protected by the legacy integration, by a provider,
\* by both or not at all; two with one pattern; and one of each kind that is refused.
DefinitionsDef ==
  {List, Read, Legacy(Read), Secured(Update, "key"), Legacy(Secured(Export, "key")),
   Legacy(Upload), Secured(List, "bearerAuth"), Secured(Read, "other"),
   [Update EXCEPT !.fields = <<Body>>],
   [Update EXCEPT !.fields = <<Id, Field("body", "json", TRUE, "Channel")>>],
   [List EXCEPT !.responses = 400 :> JsonOf("Channel") @@ 200 :> JsonOf("User")],
   [List EXCEPT !.responses = 302 :> JsonOf("User")],
   [Export EXCEPT !.method = "CONNECT"]}
=============================================================================
