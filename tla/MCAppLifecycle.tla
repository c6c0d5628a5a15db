--------------------------- MODULE MCAppLifecycle ---------------------------
(***************************************************************************)
(* Menus and configurations for the runs of AppLifecycle.                  *)
(***************************************************************************)
EXTENDS AppLifecycle

a == Literal("a")
b == Literal("b")
id == Param("id", "")
name == Param("name", "int")

Slash(segs) == Path(segs, TRUE)
Plain(segs) == Path(segs, FALSE)

Set(n, set) == [kind |-> "Mutate", operation |-> n, set |-> set]
SetID(n, value) == Set(n, [field |-> "id", value |-> value])
SetSecurity(n, value) == Set(n, [field |-> "security", value |-> value])
SetRights(n, feature, permission) ==
  Set(n, [field |-> "rights", feature |-> feature, permission |-> permission])
SetResponse(n, status, value) ==
  Set(n, [field |-> "responses", status |-> status, value |-> value])
SetMiddlewares(n, values) == Set(n, [field |-> "middlewares", values |-> values])

MapRaw(n, method, path) ==
  [kind |-> "Map", group |-> n, method |-> method, path |-> path, raw |-> TRUE, shape |-> "sound"]
MapTyped(n, method, path, shape) ==
  [kind |-> "Map", group |-> n, method |-> method, path |-> path, raw |-> FALSE, shape |-> shape]

AppGroupAt(prefix) == [kind |-> "AppGroup", prefix |-> prefix]
ChildAt(n, prefix) == [kind |-> "Group", group |-> n, prefix |-> prefix]
UseIt(m) == [kind |-> "Use", middleware |-> m]
GroupUseIt(n, m) == [kind |-> "GroupUse", group |-> n, middleware |-> m]
OpenAPIAt(path) == [kind |-> "MapOpenAPI", path |-> path]
SwaggerAt(path, page) == [kind |-> "MapSwaggerUI", path |-> path, page |-> page]
BuildIt == [kind |-> "Build"]

MiddlewareNames == {"m1", "m2"}
StringSet ==
  {"a", "b", "id", "name", "one", "two", "GET", "POST", "HEAD", "CONNECT"}
SecurityNameSet == {"key"}
StatusSet == {103, 200, 204, 600}
OneStatus == {200}

SoundConfig ==
  [info |-> TRUE, formatter |-> TRUE, recovery |-> TRUE, authenticator |-> FALSE,
   providers |-> [n \in SecurityNameSet |-> "valid"]]

OneConfig == {SoundConfig}

Produces(n) == SetResponse(n, 200, "raw")

\* Two goroutines configure an App, set up an operation and build, with user code
\* that calls back and panics.
MenuConcurrent ==
  {AppGroupAt(NoPath), ChildAt(2, NoPath), UseIt("m1"), GroupUseIt(1, "m2"), GroupUseIt(2, Nil),
   MapRaw(1, "GET", Plain(<<a>>)), SetID(1, "one"), Produces(1), SetSecurity(1, "key"),
   SetMiddlewares(1, <<"m1", Nil, "m2">>),
   OpenAPIAt(Plain(<<b>>)), SwaggerAt(Plain(<<b>>), TRUE), BuildIt}

\* Patterns that are equal, nested, overlapping and disjoint, and operation
\* IDs used twice.
MenuRoutes ==
  {AppGroupAt(NoPath),
   MapRaw(1, "GET", Plain(<<a>>)), MapRaw(1, "GET", Slash(<<a>>)), MapRaw(1, "GET", Plain(<<id, b>>)),
   MapRaw(1, "GET", Plain(<<a, id>>)), MapRaw(1, "POST", Plain(<<a, id>>)), MapRaw(1, "POST", Plain(<<id, b>>)),
   MapRaw(1, "HEAD", Plain(<<name>>)), MapRaw(1, "HEAD", Plain(<<a>>)), MapRaw(1, "CONNECT", Plain(<<a>>)),
   SetID(1, "one"), SetID(2, "two"), SetID(2, "one"), Produces(1), Produces(2),
   BuildIt}

\* Documentation routes that are equal, nested and subtrees, beside one
\* operation; and middlewares of the App.
MenuDocumentation ==
  {AppGroupAt(NoPath),
   MapRaw(1, "GET", Plain(<<id, b>>)), MapRaw(1, "HEAD", Plain(<<a>>)),
   SetID(1, "one"), Produces(1),
   OpenAPIAt(Slash(<<a>>)), OpenAPIAt(Plain(<<a>>)),
   SwaggerAt(Plain(<<a>>), TRUE), SwaggerAt(Plain(<<a, b>>), TRUE), SwaggerAt(Slash(<<b>>), FALSE),
   UseIt("m1"), UseIt("m2"), BuildIt}

\* Security, responses, media types and input types, under configurations
\* that lack what an operation needs.
MenuContracts ==
  {AppGroupAt(NoPath), MapRaw(1, "GET", Plain(<<a>>)),
   MapTyped(1, "GET", Plain(<<b>>), "badRules"), MapTyped(1, "GET", Plain(<<b>>), "badOutput"),
   SetID(1, "one"),
   SetSecurity(1, "key"), SetSecurity(1, "bearerAuth"), SetRights(1, TRUE, TRUE),
   SetRights(1, TRUE, FALSE), SetResponse(1, 103, "problem"), SetResponse(1, 600, "json"),
   SetResponse(1, 204, "badCustom"), SetResponse(1, 200, "badCustom"),
   SetResponse(1, 200, "json"), Produces(1),
   Set(1, [field |-> "validation"]), Set(1, [field |-> "consumes", value |-> "invalid"]),
   BuildIt}

\* A build that the first checks end looks at nothing else.
ContractConfigs ==
  {c \in [info : BOOLEAN, formatter : BOOLEAN, recovery : {FALSE}, authenticator : BOOLEAN,
          providers : [SecurityNameSet -> {"absent", "valid", "invalid"}]] :
     (c.info /\ c.formatter) \/ (~c.authenticator /\ c.providers["key"] = "valid")}

\* Prefixes a program may nest.
MenuPrefixes ==
  {AppGroupAt(NoPath), AppGroupAt(RootPath), AppGroupAt(Slash(<<a>>)),
   ChildAt(1, NoPath), ChildAt(1, Plain(<<b>>)), ChildAt(2, RootPath),
   MapRaw(1, "GET", Plain(<<a>>)), MapRaw(2, "GET", Plain(<<a>>)), MapRaw(3, "GET", RootPath)}
=============================================================================
