------------------------ MODULE RequestBindingProofs ------------------------
(***************************************************************************)
(* Proofs about RequestBinding, for every menu of fields, set of routes    *)
(* and requests, every limit and every meaning of texts.                   *)
(***************************************************************************)
EXTENDS RequestBinding, FiniteSetTheorems, SequenceTheorems, TLAPS

---------------------------------------------------------------------------
(* The invariant. *)

PlanEntry == [of : Nat, source : Sources, required : BOOLEAN]

Waiting == {"compile", "refused", "compiled"}
Serving == {"bind", "answered"}

Shape ==
  /\ pattern \in Patterns /\ options \in Options
  /\ fields \in Seq(Menu) /\ plan \in Seq(PlanEntry)
  /\ phase \in Waiting \cup Serving
  /\ phase \in Waiting => at = 0 /\ status = 0 /\ input = <<>> /\ request = NoRequest
  /\ phase \in Serving => at \in 1..(Len(plan) + 1) /\ DOMAIN input = DOMAIN fields
  /\ phase = "bind" => status = 0
  /\ errs \subseteq 1..(at - 1)

\* An entry of the plan is made of a field that compiles.
Matches(entry, f, params) ==
  /\ f.tags = {entry.source} /\ f.exported /\ f.name # ""
  /\ entry.source = "path" => f.name \in params
  /\ entry.source = "body" =>
       f.name = "json" /\ SupportedJSON(f) /\ entry.required = (f.kind # "pointer")
  /\ entry.source \in {"query", "header"} => entry.required = f.required

Compiled(n) ==
  plan[n].of \in DOMAIN fields /\ Matches(plan[n], fields[plan[n].of], DOMAIN pattern)

PlanFor(i) == \E n \in DOMAIN plan : plan[n].of = i

Planning ==
  /\ \A n \in DOMAIN plan : Compiled(n)
  /\ \A m, n \in DOMAIN plan : plan[m].of = plan[n].of => m = n
  /\ \A m, n \in DOMAIN plan :
       plan[m].source \in {"path", "body"} /\ plan[m].source = plan[n].source
         /\ fields[plan[m].of].name = fields[plan[n].of].name => m = n
  /\ phase # "refused" => \A i \in DOMAIN fields : fields[i].tags # {} => PlanFor(i)
  /\ phase = "refused" => ~WellFormed
  /\ phase \in {"compiled"} \cup Serving => Missing = {}

ValueOK(value) ==
  value.nil \in BOOLEAN /\ \A k \in DOMAIN value.elements : value.elements[k] \in Values

Texted(n) ==
  plan[n].source \in {"query", "header"} =>
    request.values[<<plan[n].source, fields[plan[n].of].name>>] \in Seq(Texts)

\* A request the server may hand out, and an input that holds only what parsed.
Received ==
  phase \in Serving =>
    /\ request.path \in [DOMAIN pattern -> Texts \ {""}]
    /\ request.body \in Bodies \cup {NoBody}
    /\ \A n \in DOMAIN plan : Texted(n)
    /\ \A i \in DOMAIN fields : ValueOK(input[i])

\* What the values of a parameter mean.
Parsed(f, texts) == [k \in DOMAIN texts |-> SetScalar(f.scalar, texts[k])]

\* What a field that is bound without fault holds.
Holds(n, value) ==
  LET f == fields[plan[n].of]
      raw == request.path[f.name]
      texts == request.values[<<plan[n].source, f.name>>]
  IN CASE plan[n].source = "path" ->
            /\ raw \in Satisfies[pattern[f.name]]
            /\ value.elements = <<ScanPath(f.scalar, pattern[f.name], raw)>>
       [] plan[n].source \in {"query", "header"} ->
            IF texts = <<>> THEN value = Zero(f)
            ELSE /\ value.elements = Parsed(f, texts)
                 /\ f.kind \in {"plain", "pointer"} => Len(value.elements) = 1
       [] plan[n].source = "body" ->
            IF Sent /\ request.body.json # "null"
            THEN value = Holding(<<"decoded">>) /\ request.body.length <= options.limit
            ELSE value = Zero(f)

\* What was bound is bound or noted, what is not yet bound is zero.
Filled ==
  phase \in Serving =>
    /\ \A i \in DOMAIN fields : (\A n \in 1..(at - 1) : plan[n].of # i) => input[i] = Zero(fields[i])
    /\ \A n \in 1..(at - 1) : n \in errs <=> Faulty(n)
    /\ \A n \in 1..(at - 1) : ~Faulty(n) => Holds(n, input[plan[n].of])
    /\ \A n \in 1..(at - 1) : plan[n].source = "body" => ~Oversize /\ ~Unsupported

\* What an answer says of the request.
Answered ==
  phase = "answered" =>
    \/ status = 413 /\ Oversize
    \/ status = 415 /\ ~Oversize /\ Unsupported
    \/ /\ status = 400 /\ at > Len(plan)
       /\ errs = {} => options.validation /\ (RequiredFails \/ options.validator)
    \/ /\ status = 200 /\ at > Len(plan) /\ errs = {}
       /\ options.validation => ~RequiredFails

Inductive == Shape /\ Planning /\ Received /\ Filled /\ Answered

---------------------------------------------------------------------------
(* Tags and sequences. *)

LEMMA MenuFields ==
  ASSUME NEW f \in Menu
  PROVE  /\ f \in FieldType /\ f.tags \subseteq Sources /\ f.kind \in Kinds /\ f.scalar \in Scalars
         /\ f.exported \in BOOLEAN /\ f.skipped \in BOOLEAN /\ f.required \in BOOLEAN
BY BindingAssumption DEF FieldType

LEMMA TagsCounted ==
  ASSUME NEW tags \in SUBSET Sources
  PROVE  /\ IsFiniteSet(tags) /\ Cardinality(tags) \in Nat
         /\ ~(Cardinality(tags) > 1) /\ tags # {} => \E s \in Sources : tags = {s}
<1>1. IsFiniteSet(Sources)
  <2> DEFINE two == ({} \cup {"path"}) \cup {"query"}
             four == (two \cup {"header"}) \cup {"body"}
  <2>1. IsFiniteSet(two)
    BY FS_EmptySet, FS_AddElement
  <2> HIDE DEF two
  <2>2. IsFiniteSet(four)
    BY <2>1, FS_AddElement
  <2>3. four = Sources
    BY DEF two, Sources
  <2> QED
    BY <2>2, <2>3
<1>2. IsFiniteSet(tags)
  BY <1>1, FS_Subset
<1>3. Cardinality(tags) \in Nat
  BY <1>2, FS_CardinalityType
<1>4. ASSUME ~(Cardinality(tags) > 1), tags # {}
      PROVE  \E s \in Sources : tags = {s}
  <2>1. Cardinality(tags) # 0
    BY <1>2, <1>4, FS_EmptySet
  <2>2. Cardinality(tags) = 1
    BY <1>3, <1>4, <2>1
  <2>3. PICK s : tags = {s}
    BY <1>2, <2>2, FS_Singleton
  <2> QED
    BY <2>3
<1> QED
  BY <1>2, <1>3, <1>4

LEMMA Appended ==
  ASSUME NEW S, NEW s \in Seq(S), NEW e \in S
  PROVE  /\ Append(s, e) \in Seq(S) /\ Len(Append(s, e)) = Len(s) + 1 /\ Len(s) \in Nat
         /\ DOMAIN s = 1..Len(s) /\ DOMAIN Append(s, e) = 1..(Len(s) + 1)
         /\ \A i \in 1..Len(s) : Append(s, e)[i] = s[i]
         /\ Append(s, e)[Len(s) + 1] = e
OBVIOUS

\* What Planned makes of a field with one tag.
LEMMA PlannedEntry ==
  ASSUME NEW f \in Menu, NEW s \in Sources, f.tags = {s}, NEW i \in Nat
  PROVE  LET p == Planned(f, i)
         IN /\ p \in PlanEntry /\ p.of = i /\ p.source = s
            /\ s = "body" => p.required = (f.kind # "pointer")
            /\ s \in {"query", "header"} => p.required = f.required
<1> DEFINE p == Planned(f, i)
           c == CHOOSE t \in Sources : t \in f.tags
           r == CASE "path" \in f.tags -> TRUE
                  [] "body" \in f.tags -> f.kind # "pointer"
                  [] OTHER -> f.required
<1>1. c = s
  OBVIOUS
<1>2. /\ r \in BOOLEAN
      /\ s = "body" => r = (f.kind # "pointer")
      /\ s \in {"query", "header"} => r = f.required
  <2>1. f.required \in BOOLEAN /\ (f.kind # "pointer") \in BOOLEAN
    BY MenuFields
  <2>2. CASE s = "path"
    BY <2>2
  <2>3. CASE s = "body"
    <3>1. r = (f.kind # "pointer")
      BY <2>3
    <3> HIDE DEF r
    <3> QED
      BY <2>1, <2>3, <3>1
  <2>4. CASE s \in {"query", "header"}
    <3>1. r = f.required
      BY <2>4
    <3> HIDE DEF r
    <3> QED
      BY <2>1, <2>4, <3>1
  <2> QED
    BY <2>2, <2>3, <2>4 DEF Sources
<1>3. p = [of |-> i, source |-> c, required |-> r]
  BY DEF Planned
<1> HIDE DEF c, r, p
<1>4. p.of = i /\ p.source = s /\ p.required = r /\ p \in PlanEntry
  BY <1>1, <1>2, <1>3 DEF PlanEntry
<1> QED
  BY <1>2, <1>4 DEF p

---------------------------------------------------------------------------
(* Compiling. *)

\* Before a request arrives there is nothing to say of one.
LEMMA WaitingKeeps ==
  ASSUME Shape', phase' \in Waiting
  PROVE  Received' /\ Filled' /\ Answered'
BY DEF Received, Filled, Answered, Waiting, Serving

LEMMA QuietKeeps ==
  ASSUME Shape, phase \in Waiting, Quiet, phase' \in Waiting,
         fields' \in Seq(Menu), plan' \in Seq(PlanEntry)
  PROVE  Shape'
BY DEF Shape, Quiet, Waiting, Serving

LEMMA CompileFieldKeeps ==
  ASSUME Inductive, CompileField
  PROVE  Inductive'
<1>1. PICK f \in Menu :
        /\ ~RefusesField(f)
        /\ fields' = Append(fields, f)
        /\ plan' = IF f.tags = {} THEN plan ELSE Append(plan, Planned(f, Len(fields) + 1))
  BY DEF CompileField
<1>2. /\ phase = "compile" /\ phase' = "compile" /\ Quiet
      /\ UNCHANGED pattern
  BY DEF CompileField, Quiet
<1>3. /\ fields \in Seq(Menu) /\ plan \in Seq(PlanEntry) /\ Planning /\ Shape
      /\ phase \in Waiting /\ phase' \in Waiting
  BY <1>2 DEF Inductive, Shape, Waiting
<1> DEFINE last == Len(fields) + 1
<1>4. /\ fields' \in Seq(Menu) /\ Len(fields) \in Nat
      /\ DOMAIN fields = 1..Len(fields) /\ DOMAIN fields' = 1..last
      /\ \A i \in 1..Len(fields) : fields'[i] = fields[i]
      /\ fields'[last] = f
  BY <1>1, <1>3, Appended
<1>5. ASSUME NEW n \in DOMAIN plan
      PROVE  Compiled(n) /\ plan[n].of \in 1..Len(fields) /\ fields'[plan[n].of] = fields[plan[n].of]
  <2>1. Compiled(n)
    BY <1>3 DEF Planning
  <2> QED
    BY <1>4, <2>1 DEF Compiled
<1> HIDE DEF last
<1>6. CASE f.tags = {}
  <2>1. plan' = plan
    BY <1>1, <1>6
  <2>2. Shape'
    BY <1>2, <1>3, <1>4, <2>1, QuietKeeps
  <2>3. \A n \in DOMAIN plan' : Compiled(n)'
    BY <1>2, <1>4, <1>5, <2>1 DEF Compiled, last
  <2>4. /\ \A m, n \in DOMAIN plan' : plan'[m].of = plan'[n].of => m = n
        /\ \A m, n \in DOMAIN plan' :
             plan'[m].source \in {"path", "body"} /\ plan'[m].source = plan'[n].source
               /\ fields'[plan'[m].of].name = fields'[plan'[n].of].name => m = n
    BY <1>3, <1>5, <2>1 DEF Planning
  <2>5. ASSUME NEW i \in DOMAIN fields', fields'[i].tags # {}
        PROVE  PlanFor(i)'
    <3>1. i \in 1..Len(fields)
      BY <1>4, <1>6, <2>5 DEF last
    <3> QED
      BY <1>2, <1>3, <1>4, <2>1, <2>5, <3>1 DEF Planning, PlanFor
  <2>6. Planning'
    BY <1>2, <2>3, <2>4, <2>5 DEF Planning, Serving
  <2> QED
    BY <1>3, <2>2, <2>6, WaitingKeeps DEF Inductive
<1>7. CASE f.tags # {}
  <2>1. PICK s \in Sources : f.tags = {s}
    BY <1>1, <1>7, MenuFields, TagsCounted DEF RefusesField
  <2> DEFINE p == Planned(f, last)
             end == Len(plan) + 1
  <2>2. /\ p \in PlanEntry /\ p.of = last /\ p.source = s
        /\ s = "body" => p.required = (f.kind # "pointer")
        /\ s \in {"query", "header"} => p.required = f.required
    <3>1. last \in Nat
      BY <1>4 DEF last
    <3> QED
      BY <2>1, <3>1, PlannedEntry
  <2>3. plan' = Append(plan, p)
    BY <1>1, <1>7 DEF last
  <2> HIDE DEF p
  <2>4. /\ plan' \in Seq(PlanEntry) /\ Len(plan) \in Nat
        /\ DOMAIN plan = 1..Len(plan) /\ DOMAIN plan' = 1..end
        /\ \A n \in 1..Len(plan) : plan'[n] = plan[n]
        /\ plan'[end] = p
    BY <1>3, <2>2, <2>3, Appended
  <2> HIDE DEF end
  <2>5. Shape'
    BY <1>2, <1>3, <1>4, <2>4, QuietKeeps
  <2>6. /\ f.exported /\ f.name # ""
        /\ s = "path" => f.name \in DOMAIN pattern /\ f.name \notin Bound("path")
        /\ s = "body" => f.name = "json" /\ Bound("body") = {} /\ SupportedJSON(f)
    BY <1>1, <1>7, <2>1 DEF RefusesField
  <2>7. ASSUME NEW n \in DOMAIN plan'
        PROVE  Compiled(n)'
    <3>1. CASE n \in DOMAIN plan
      BY <1>2, <1>4, <1>5, <2>4, <3>1 DEF Compiled, last
    <3>2. CASE n = end
      <4>1. Matches(p, f, DOMAIN pattern)
        BY <2>1, <2>2, <2>6 DEF Matches
      <4> QED
        BY <1>2, <1>4, <2>2, <2>4, <3>2, <4>1 DEF Compiled, last
    <3> QED
      BY <2>4, <2>7, <3>1, <3>2 DEF end
  <2>8. ASSUME NEW m \in DOMAIN plan', NEW n \in DOMAIN plan', plan'[m].of = plan'[n].of
        PROVE  m = n
    <3>1. \A k \in DOMAIN plan : plan'[k].of # last
      BY <1>4, <1>5, <2>4 DEF last
    <3>2. plan'[end].of = last
      BY <2>2, <2>4
    <3>3. CASE m \in DOMAIN plan /\ n \in DOMAIN plan
      BY <1>3, <2>4, <2>8, <3>3 DEF Planning
    <3> QED
      BY <2>4, <2>8, <3>1, <3>2, <3>3 DEF end
  <2>9. ASSUME NEW m \in DOMAIN plan', NEW n \in DOMAIN plan',
               plan'[m].source \in {"path", "body"}, plan'[m].source = plan'[n].source,
               fields'[plan'[m].of].name = fields'[plan'[n].of].name
        PROVE  m = n
    <3>1. ASSUME NEW k \in DOMAIN plan, plan[k].source = s, s \in {"path", "body"}
          PROVE  fields[plan[k].of].name # f.name
      <4>1. fields[plan[k].of].name \in Bound(s)
        BY <3>1 DEF Bound
      <4> QED
        BY <2>6, <3>1, <4>1
    <3>2. plan'[end].source = s /\ fields'[plan'[end].of].name = f.name
      BY <1>4, <2>2, <2>4
    <3>3. \A k \in DOMAIN plan : plan'[k] = plan[k] /\ fields'[plan'[k].of] = fields[plan[k].of]
      BY <1>5, <2>4
    <3>4. CASE m \in DOMAIN plan /\ n \in DOMAIN plan
      BY <1>3, <2>9, <3>3, <3>4 DEF Planning
    <3>5. CASE m = end /\ n \in DOMAIN plan
      BY <2>9, <3>1, <3>2, <3>3, <3>5
    <3>6. CASE m \in DOMAIN plan /\ n = end
      BY <2>9, <3>1, <3>2, <3>3, <3>6
    <3> QED
      BY <2>4, <2>9, <3>4, <3>5, <3>6 DEF end
  <2>10. ASSUME NEW i \in DOMAIN fields', fields'[i].tags # {}
         PROVE  PlanFor(i)'
    <3>1. CASE i \in DOMAIN fields
      <4>1. PICK n \in DOMAIN plan : plan[n].of = i
        BY <1>2, <1>3, <1>4, <2>10, <3>1 DEF Planning, PlanFor
      <4>2. n \in DOMAIN plan' /\ plan'[n].of = i
        BY <2>4, <4>1 DEF end
      <4> QED
        BY <4>2 DEF PlanFor
    <3>2. CASE i = last
      <4>1. end \in DOMAIN plan' /\ plan'[end].of = i
        BY <2>2, <2>4, <3>2 DEF end
      <4> QED
        BY <4>1 DEF PlanFor
    <3> QED
      BY <1>4, <2>10, <3>1, <3>2 DEF last
  <2>11. Planning'
    BY <1>2, <2>7, <2>8, <2>9, <2>10 DEF Planning, Serving
  <2> QED
    BY <1>3, <2>5, <2>11, WaitingKeeps DEF Inductive
<1> QED
  BY <1>6, <1>7

\* Two members are more than one.
LEMMA TwoMembers ==
  ASSUME NEW n \in Nat, NEW set \in SUBSET (1..n), NEW i \in set, NEW j \in set, i # j
  PROVE  Cardinality(set) \in Nat /\ Cardinality(set) > 1
<1>1. IsFiniteSet(set)
  <2>1. IsFiniteSet(1..n)
    BY FS_Interval
  <2> QED
    BY <2>1, FS_Subset
<1>2. Cardinality(set) \in Nat /\ Cardinality(set) # 0 /\ Cardinality(set) # 1
  BY <1>1, FS_CardinalityType, FS_EmptySet, FS_Singleton
<1> QED
  BY <1>2

\* What a tag of a field that RefuseField appends does to the struct.
LEMMA RefusedIsIllFormed ==
  ASSUME Shape, Planning, pattern' = pattern, NEW f \in Menu, RefusesField(f), fields' = Append(fields, f)
  PROVE  ~WellFormed'
<1> DEFINE last == Len(fields) + 1
<1>1. /\ fields' \in Seq(Menu) /\ Len(fields) \in Nat
      /\ DOMAIN fields = 1..Len(fields) /\ DOMAIN fields' = 1..last
      /\ \A i \in 1..Len(fields) : fields'[i] = fields[i]
      /\ fields'[last] = f
  BY Appended DEF Shape
<1>2. last \in DOMAIN fields' /\ last \in Nat
  BY <1>1 DEF last
<1> HIDE DEF last
<1>3. PICK s \in Sources : s \in f.tags
  BY MenuFields DEF RefusesField
<1>4. SUFFICES ASSUME WellFormed'
               PROVE  FALSE
  OBVIOUS
<1>5. \A t \in Sources : t \in f.tags => last \in Tagged(t)'
  BY <1>1, <1>2 DEF Tagged
<1>6. f.exported /\ f.name # "" /\ \A t \in f.tags : t \in Sources => f.tags = {t}
  <2>1. ASSUME NEW t \in Sources, t \in f.tags
        PROVE  fields'[last].exported /\ fields'[last].name # "" /\ fields'[last].tags = {t}
    BY <1>4, <1>5, <2>1 DEF WellFormed
  <2> QED
    BY <1>1, <1>3, <2>1
<1>7. CASE "path" \in f.tags /\ f.name \notin DOMAIN pattern
  BY <1>1, <1>4, <1>5, <1>7 DEF WellFormed, Sources
<1>8. CASE "path" \in f.tags /\ f.name \in DOMAIN pattern /\ f.name \in Bound("path")
  <2>1. PICK n \in DOMAIN plan : plan[n].source = "path" /\ fields[plan[n].of].name = f.name
    BY <1>8 DEF Bound
  <2>2. plan[n].of \in 1..Len(fields) /\ fields[plan[n].of].tags = {"path"}
    BY <1>1, <2>1 DEF Planning, Compiled, Matches
  <2> DEFINE both == {i \in Tagged("path") : fields[i].name = f.name}'
  <2>3. both \subseteq 1..last /\ plan[n].of \in both /\ last \in both /\ plan[n].of # last
    BY <1>1, <1>2, <1>5, <1>8, <2>1, <2>2 DEF Tagged, Sources, last
  <2>4. Cardinality(both) = 1
    BY <1>4, <1>8 DEF WellFormed
  <2> HIDE DEF both
  <2>5. Cardinality(both) > 1
    BY <1>2, <2>3, TwoMembers
  <2> QED
    BY <2>4, <2>5
<1>9. CASE "body" \in f.tags /\ (f.name # "json" \/ ~SupportedJSON(f))
  BY <1>1, <1>4, <1>5, <1>9, ZenonT(60) DEF WellFormed, Sources, SupportedJSON
<1>10. CASE "body" \in f.tags /\ Bound("body") # {}
  <2>1. PICK n \in DOMAIN plan : plan[n].source = "body"
    BY <1>10 DEF Bound
  <2>2. plan[n].of \in 1..Len(fields) /\ fields[plan[n].of].tags = {"body"}
    BY <1>1, <2>1 DEF Planning, Compiled, Matches
  <2> DEFINE both == Tagged("body")'
  <2>3. both \subseteq 1..last /\ plan[n].of \in both /\ last \in both /\ plan[n].of # last
    BY <1>1, <1>2, <1>5, <1>10, <2>1, <2>2 DEF Tagged, Sources, last
  <2>4. Cardinality(both) <= 1
    BY <1>4 DEF WellFormed
  <2> HIDE DEF both
  <2>5. Cardinality(both) \in Nat /\ Cardinality(both) > 1
    BY <1>2, <2>3, TwoMembers
  <2> QED
    BY <2>4, <2>5
<1>11. CASE Cardinality(f.tags) > 1
  <2>1. f.tags = {s} /\ Cardinality({s}) = 1
    BY <1>3, <1>6, FS_Singleton
  <2> QED
    BY <1>11, <2>1
<1> QED
  BY <1>6, <1>7, <1>8, <1>9, <1>10, <1>11 DEF RefusesField

LEMMA RefuseFieldKeeps ==
  ASSUME Inductive, RefuseField
  PROVE  Inductive'
<1>1. /\ phase = "compile" /\ phase' = "refused" /\ Quiet /\ UNCHANGED <<pattern, plan>>
  BY DEF RefuseField, Quiet
<1>2. PICK f \in Menu : RefusesField(f) /\ fields' = Append(fields, f)
  BY DEF RefuseField
<1>3. /\ fields \in Seq(Menu) /\ plan \in Seq(PlanEntry) /\ Planning /\ Shape
      /\ phase \in Waiting /\ phase' \in Waiting
  BY <1>1 DEF Inductive, Shape, Waiting
<1>4. /\ fields' \in Seq(Menu)
      /\ DOMAIN fields \subseteq DOMAIN fields'
      /\ \A i \in DOMAIN fields : fields'[i] = fields[i]
  BY <1>2, <1>3, Appended
<1>5. Shape'
  BY <1>1, <1>3, <1>4, QuietKeeps
<1>6. ~WellFormed'
  BY <1>1, <1>2, <1>3, RefusedIsIllFormed
<1>7. ASSUME NEW n \in DOMAIN plan
      PROVE  Compiled(n)' /\ fields'[plan[n].of] = fields[plan[n].of]
  BY <1>1, <1>3, <1>4 DEF Planning, Compiled
<1>8. Planning'
  BY <1>1, <1>3, <1>6, <1>7 DEF Planning, Serving
<1> QED
  BY <1>3, <1>5, <1>8, WaitingKeeps DEF Inductive

LEMMA CompileEndKeeps ==
  ASSUME Inductive, CompileEnd
  PROVE  Inductive'
<1>1. /\ phase = "compile" /\ phase' = (IF Missing = {} THEN "compiled" ELSE "refused")
      /\ Quiet /\ UNCHANGED <<pattern, fields, plan>>
  BY DEF CompileEnd, Quiet
<1>2. /\ fields \in Seq(Menu) /\ plan \in Seq(PlanEntry) /\ Planning /\ Shape
      /\ phase \in Waiting /\ phase' \in Waiting
  BY <1>1 DEF Inductive, Shape, Waiting
<1>3. Shape'
  BY <1>1, <1>2, QuietKeeps
<1>4. ASSUME Missing # {}
      PROVE  ~WellFormed
  <2>1. PICK p \in DOMAIN pattern : p \notin Bound("path")
    BY <1>4 DEF Missing
  <2> DEFINE none == {i \in Tagged("path") : fields[i].name = p}
  <2>2. ASSUME NEW i \in none
        PROVE  FALSE
    <3>1. i \in DOMAIN fields /\ "path" \in fields[i].tags /\ fields[i].name = p
      BY <2>2 DEF Tagged
    <3>2. PICK n \in DOMAIN plan : plan[n].of = i
      BY <1>1, <1>2, <3>1 DEF Planning, PlanFor
    <3>3. plan[n].source = "path"
      BY <1>2, <3>1, <3>2 DEF Planning, Compiled, Matches
    <3> QED
      BY <2>1, <3>1, <3>2, <3>3 DEF Bound
  <2>3. none = {}
    BY <2>2
  <2>4. Cardinality(none) = 0
    BY <2>3, FS_EmptySet
  <2>5. WellFormed => Cardinality(none) = 1
    BY <2>1 DEF WellFormed
  <2> QED
    BY <2>4, <2>5
<1>5. Planning'
  <2>1. WellFormed' = WellFormed /\ Missing' = Missing
    BY <1>1 DEF WellFormed, Missing, Bound, Tagged, SupportedJSON
  <2>2. \A n \in DOMAIN plan : Compiled(n)'
    BY <1>1, <1>2 DEF Planning, Compiled
  <2>3. \A i \in DOMAIN fields : fields[i].tags # {} => PlanFor(i)'
    BY <1>1, <1>2 DEF Planning, PlanFor
  <2> QED
    BY <1>1, <1>2, <1>4, <2>1, <2>2, <2>3 DEF Planning, Serving
<1> QED
  BY <1>2, <1>3, <1>5, WaitingKeeps DEF Inductive

---------------------------------------------------------------------------
(* Binding. *)

\* A compiled plan stays what it is.
LEMMA PlanningStays ==
  ASSUME Planning, UNCHANGED <<pattern, fields, plan>>,
         phase \in {"compiled"} \cup Serving, phase' \in Serving
  PROVE  Planning'
<1>1. Missing' = Missing
  BY DEF Missing, Bound
<1>2. \A n \in DOMAIN plan : Compiled(n)'
  BY DEF Planning, Compiled
<1>3. \A i \in DOMAIN fields : fields[i].tags # {} => PlanFor(i)'
  BY DEF Planning, PlanFor, Serving
<1> QED
  BY <1>1, <1>2, <1>3 DEF Planning, Serving

\* What a field holds that holds elements.
LEMMA HoldingFields ==
  ASSUME NEW elements
  PROVE  Holding(elements).nil = FALSE /\ Holding(elements).elements = elements
BY DEF Holding

LEMMA HoldingOK ==
  ASSUME NEW elements, \A k \in DOMAIN elements : elements[k] \in Values
  PROVE  ValueOK(Holding(elements))
BY HoldingFields DEF ValueOK

LEMMA ZeroOK ==
  ASSUME NEW f \in Menu
  PROVE  ValueOK(Zero(f))
<1> DEFINE v == ZeroOf[f.scalar]
<1>1. f.kind \in Kinds /\ v \in Values
  BY MenuFields, BindingAssumption
<1> HIDE DEF v
<1>2. CASE f.kind = "plain"
  <2>1. Zero(f) = Holding(<<v>>)
    BY <1>2 DEF Zero, v
  <2>2. \A k \in DOMAIN <<v>> : <<v>>[k] \in Values
    BY <1>1
  <2> QED
    BY <2>1, <2>2, HoldingOK
<1>3. CASE f.kind = "pair"
  <2>1. Zero(f) = Holding(<<v, v>>)
    BY <1>3 DEF Zero, v
  <2>2. \A k \in DOMAIN <<v, v>> : <<v, v>>[k] \in Values
    BY <1>1
  <2> QED
    BY <2>1, <2>2, HoldingOK
<1>4. CASE f.kind \in {"pointer", "slice"}
  <2>1. Zero(f) = Nil
    BY <1>4 DEF Zero
  <2>2. Nil.nil = TRUE /\ Nil.elements = << >>
    BY DEF Nil
  <2>3. \A k \in DOMAIN << >> : << >>[k] \in Values
    OBVIOUS
  <2> QED
    BY <2>1, <2>2, <2>3 DEF ValueOK
<1> QED
  BY <1>1, <1>2, <1>3, <1>4 DEF Kinds

\* What Receive says of the request.
LEMMA Receives ==
  ASSUME Receive
  PROVE  /\ request'.path \in [DOMAIN pattern -> Texts \ {""}]
         /\ request'.body \in Bodies \cup {NoBody}
         /\ \A s \in {"query", "header"} : \A n \in Bound(s) : request'.values[<<s, n>>] \in Seq(Texts)
<1> DEFINE queries == {"query"} \X Bound("query")
           headers == {"header"} \X Bound("header")
           bodies == IF Bound("body") = {} THEN {NoBody} ELSE Bodies
<1>1. \A s \in {"query", "header"} : \A n \in Bound(s) : <<s, n>> \in queries \cup headers
  OBVIOUS
<1>2. bodies \subseteq Bodies \cup {NoBody}
  OBVIOUS
<1>3. \E path \in [DOMAIN pattern -> Texts \ {""}], values \in [queries \cup headers -> Repeats],
         body \in bodies :
        request' = [path |-> path, values |-> values, body |-> body]
  BY DEF Receive
<1> HIDE DEF queries, headers, bodies
<1>4. \E path \in [DOMAIN pattern -> Texts \ {""}] : \E values \in [queries \cup headers -> Repeats] :
      \E body \in bodies :
        request' = [path |-> path, values |-> values, body |-> body]
  BY <1>3
<1>5. PICK path \in [DOMAIN pattern -> Texts \ {""}] : \E values \in [queries \cup headers -> Repeats] :
      \E body \in bodies :
        request' = [path |-> path, values |-> values, body |-> body]
  BY <1>4
<1>6. PICK values \in [queries \cup headers -> Repeats] : \E body \in bodies :
        request' = [path |-> path, values |-> values, body |-> body]
  BY <1>5
<1>7. PICK body \in bodies : request' = [path |-> path, values |-> values, body |-> body]
  BY <1>6
<1>8. request'.path = path /\ request'.values = values /\ request'.body = body
  BY <1>7
<1>9. \A slot \in queries \cup headers : values[slot] \in Seq(Texts)
  BY <1>6, BindingAssumption
<1> QED
  BY <1>1, <1>2, <1>8, <1>9

LEMMA ReceiveKeeps ==
  ASSUME Inductive, Receive
  PROVE  Inductive'
<1>1. /\ phase = "compiled" /\ phase' = "bind" /\ at' = 1
      /\ input' = [i \in DOMAIN fields |-> Zero(fields[i])]
      /\ UNCHANGED <<pattern, options, fields, plan, errs, status>>
  BY DEF Receive
<1>3. /\ Shape /\ Planning /\ at = 0 /\ status = 0 /\ errs = {} /\ Len(plan) \in Nat
      /\ fields \in Seq(Menu) /\ plan \in Seq(PlanEntry)
  BY <1>1 DEF Inductive, Shape, Waiting
<1>4. Shape'
  BY <1>1, <1>3 DEF Shape, Waiting, Serving
<1>5. Planning'
  BY <1>1, <1>3, PlanningStays DEF Serving
<1>6. Received'
  <2>2. request'.path \in [DOMAIN pattern' -> Texts \ {""}] /\ request'.body \in Bodies \cup {NoBody}
    BY <1>1, Receives
  <2>3. ASSUME NEW n \in DOMAIN plan
        PROVE  Texted(n)'
    <3>1. ASSUME plan[n].source \in {"query", "header"}
          PROVE  request'.values[<<plan[n].source, fields[plan[n].of].name>>] \in Seq(Texts)
      <4>1. fields[plan[n].of].name \in Bound(plan[n].source)
        BY DEF Bound
      <4> QED
        BY <3>1, <4>1, Receives
    <3> QED
      BY <1>1, <3>1 DEF Texted
  <2>4. ASSUME NEW i \in DOMAIN fields
        PROVE  ValueOK(input[i])'
    <3>1. fields[i] \in Menu /\ input'[i] = Zero(fields[i])
      BY <1>1, <1>3, <2>4
    <3>2. ValueOK(Zero(fields[i]))
      BY <3>1, ZeroOK
    <3> QED
      BY <3>1, <3>2 DEF ValueOK
  <2> QED
    BY <1>1, <2>2, <2>3, <2>4 DEF Received
<1>7. Filled'
  <2>1. \A i \in DOMAIN fields' : input'[i] = Zero(fields'[i])
    BY <1>1
  <2>2. 1..(at' - 1) = {}
    BY <1>1
  <2> QED
    BY <2>1, <2>2 DEF Filled, Zero
<1>8. Answered'
  BY <1>1 DEF Answered
<1> QED
  BY <1>4, <1>5, <1>6, <1>7, <1>8 DEF Inductive

\* While the request is bound.
LEMMA WhileBinding ==
  ASSUME Inductive, phase = "bind"
  PROVE  /\ Shape /\ Planning /\ Received /\ Filled
         /\ at \in 1..(Len(plan) + 1) /\ at \in Nat /\ Len(plan) \in Nat
         /\ DOMAIN plan = 1..Len(plan) /\ DOMAIN input = DOMAIN fields
         /\ errs \subseteq 1..(at - 1)
         /\ pattern \in Patterns /\ options \in OptionsType
         /\ \A n \in DOMAIN plan : /\ Compiled(n) /\ plan[n].source \in Sources
                                   /\ plan[n].of \in DOMAIN fields /\ fields[plan[n].of] \in Menu
         /\ phase \in Serving
<1>1. /\ Shape /\ Planning /\ Received /\ Filled /\ phase \in Serving
  BY DEF Inductive, Serving
<1>2. /\ at \in 1..(Len(plan) + 1) /\ DOMAIN input = DOMAIN fields
      /\ errs \subseteq 1..(at - 1) /\ pattern \in Patterns /\ options \in OptionsType
      /\ plan \in Seq(PlanEntry) /\ fields \in Seq(Menu)
  BY <1>1, BindingAssumption DEF Shape
<1>3. Len(plan) \in Nat /\ DOMAIN plan = 1..Len(plan) /\ at \in Nat
  BY <1>2
<1>4. ASSUME NEW n \in DOMAIN plan
      PROVE  /\ Compiled(n) /\ plan[n].source \in Sources
             /\ plan[n].of \in DOMAIN fields /\ fields[plan[n].of] \in Menu
  <2>1. Compiled(n) /\ plan[n] \in PlanEntry
    BY <1>1, <1>2, <1>4 DEF Planning
  <2>2. plan[n].of \in DOMAIN fields
    BY <2>1 DEF Compiled
  <2> QED
    BY <1>2, <2>1, <2>2 DEF PlanEntry
<1> QED
  BY <1>1, <1>2, <1>3, <1>4

\* Field at is bound: its value is the only one that changes, and its errors are noted.
LEMMA BoundKeeps ==
  ASSUME Inductive, phase = "bind", at \in DOMAIN plan, Continue,
         NEW value, ValueOK(value),
         DOMAIN input' = DOMAIN input,
         \A i \in DOMAIN fields : input'[i] = IF i = plan[at].of THEN value ELSE input[i],
         errs' \in {errs, errs \cup {at}},
         at \in errs' <=> Faulty(at),
         ~Faulty(at) => Holds(at, value),
         plan[at].source = "body" => ~Oversize /\ ~Unsupported
  PROVE  Inductive'
<1>1. /\ phase' = phase /\ at' = at + 1
      /\ UNCHANGED <<pattern, options, fields, plan, request, status>>
  BY DEF Continue
<1>2. /\ Shape /\ Planning /\ Received /\ Filled
      /\ at \in 1..(Len(plan) + 1) /\ at \in Nat /\ Len(plan) \in Nat
      /\ DOMAIN plan = 1..Len(plan) /\ DOMAIN input = DOMAIN fields
      /\ errs \subseteq 1..(at - 1) /\ phase \in Serving
      /\ plan[at].of \in DOMAIN fields
  BY WhileBinding
<1>3. /\ at' \in 1..(Len(plan) + 1) /\ DOMAIN input' = DOMAIN fields
      /\ errs' \subseteq 1..(at' - 1) /\ 1..(at' - 1) = (1..(at - 1)) \cup {at}
      /\ at \notin 1..(at - 1)
  <2>1. at <= Len(plan)
    BY <1>2
  <2>2. at' \in 1..(Len(plan) + 1) /\ 1..(at' - 1) = (1..(at - 1)) \cup {at} /\ at \notin 1..(at - 1)
    BY <1>1, <1>2, <2>1
  <2> QED
    BY <1>2, <2>2
<1>4. Shape'
  BY <1>1, <1>2, <1>3 DEF Shape, Waiting, Serving
<1>5. Planning'
  BY <1>1, <1>2, PlanningStays
<1>6. \A i \in DOMAIN fields : input'[i] = IF i = plan[at].of THEN value ELSE input[i]
  OBVIOUS
<1>7. Received'
  <2>1. \A i \in DOMAIN fields : ValueOK(input[i])'
    BY <1>2, <1>6 DEF Received, ValueOK
  <2>2. \A n \in DOMAIN plan : Texted(n)'
    BY <1>1, <1>2 DEF Received, Texted
  <2> QED
    BY <1>1, <1>2, <2>1, <2>2 DEF Received
<1>8. ASSUME NEW n \in 1..(at - 1)
      PROVE  n \in DOMAIN plan /\ plan[n].of # plan[at].of /\ plan[n].of \in DOMAIN fields
  <2>1. n \in DOMAIN plan /\ n # at
    BY <1>2, <1>8
  <2> QED
    BY <1>2, <2>1, WhileBinding DEF Planning
<1>9. ASSUME NEW i \in DOMAIN fields, \A n \in 1..(at' - 1) : plan[n].of # i
      PROVE  input'[i] = Zero(fields[i])
  <2>1. i # plan[at].of /\ \A n \in 1..(at - 1) : plan[n].of # i
    BY <1>3, <1>9
  <2> QED
    BY <1>2, <1>6, <2>1 DEF Filled
<1>10. ASSUME NEW n \in 1..(at' - 1)
       PROVE  /\ n \in errs' <=> Faulty(n)
              /\ ~Faulty(n) => Holds(n, input'[plan[n].of])
              /\ plan[n].source = "body" => ~Oversize /\ ~Unsupported
  <2>1. CASE n = at
    <3>1. input'[plan[n].of] = value
      BY <1>2, <1>6, <2>1
    <3> QED
      BY <1>10, <2>1, <3>1
  <2>2. CASE n \in 1..(at - 1)
    <3>1. input'[plan[n].of] = input[plan[n].of] /\ n # at
      BY <1>3, <1>6, <1>8, <2>2
    <3>2. n \in errs' <=> n \in errs
      BY <3>1
    <3> QED
      BY <1>2, <1>10, <2>2, <3>1, <3>2 DEF Filled
  <2> QED
    BY <1>3, <1>10, <2>1, <2>2
<1>11. HasBody' = HasBody /\ BodyUnread' = BodyUnread /\ Sent' = Sent
  BY <1>1 DEF BodyUnread, HasBody, Sent
<1>12. Oversize' = Oversize
  BY <1>1, <1>11 DEF Oversize
<1>13. Unsupported' = Unsupported
  BY <1>1, <1>11, <1>12 DEF Unsupported
<1>14. ASSUME NEW i
       PROVE  Zero(fields[i])' = Zero(fields[i])
  BY <1>1 DEF Zero
<1>15. Decodes' = Decodes
  BY <1>1 DEF Decodes
<1>16. ASSUME NEW n
       PROVE  Faulty(n)' = Faulty(n)
  BY <1>1, <1>11, <1>15 DEF Faulty, ScanPath, SetScalar
<1>17. ASSUME NEW n
       PROVE  Holds(n, input[plan[n].of])' = Holds(n, input'[plan[n].of])
  BY <1>1, <1>11 DEF Holds, ScanPath, SetScalar
<1>18. Filled'
  BY <1>1, <1>2, <1>9, <1>10, <1>11, <1>12, <1>13, <1>14, <1>16, <1>17 DEF Filled
<1>19. Answered'
  BY <1>1 DEF Answered
<1> QED
  BY <1>4, <1>5, <1>7, <1>18, <1>19 DEF Inductive

\* The field is set.
LEMMA SetKeeps ==
  ASSUME Inductive, phase = "bind", at \in DOMAIN plan, Continue,
         NEW value, ValueOK(value), input' = [input EXCEPT ![plan[at].of] = value],
         errs' = errs,
         ~Faulty(at), Holds(at, value),
         plan[at].source = "body" => ~Oversize /\ ~Unsupported
  PROVE  Inductive'
<1>1. /\ DOMAIN input' = DOMAIN input
      /\ \A i \in DOMAIN fields : input'[i] = IF i = plan[at].of THEN value ELSE input[i]
  BY WhileBinding
<1>2. at \notin errs'
  BY WhileBinding
<1> QED
  BY <1>1, <1>2, BoundKeeps

\* A field that is not bound yet is zero.
LEMMA ZeroBefore ==
  ASSUME Inductive, phase = "bind", at \in DOMAIN plan
  PROVE  input[plan[at].of] = Zero(fields[plan[at].of]) /\ ValueOK(input[plan[at].of])
<1>1. plan[at].of \in DOMAIN fields /\ Filled /\ Received /\ phase \in Serving
  BY WhileBinding
<1>2. ASSUME NEW n \in 1..(at - 1)
      PROVE  plan[n].of # plan[at].of
  <2>1. n \in DOMAIN plan /\ n # at
    BY <1>2, WhileBinding
  <2> QED
    BY <2>1, WhileBinding DEF Planning
<1> QED
  BY <1>1, <1>2 DEF Filled, Received

\* The field is left alone, and its error noted if there is one.
LEMMA LeftKeeps ==
  ASSUME Inductive, phase = "bind", at \in DOMAIN plan, Continue, input' = input,
         errs' \in {errs, errs \cup {at}},
         at \in errs' <=> Faulty(at),
         ~Faulty(at) => Holds(at, Zero(fields[plan[at].of])),
         plan[at].source = "body" => ~Oversize /\ ~Unsupported
  PROVE  Inductive'
<1> DEFINE value == input[plan[at].of]
<1>1. value = Zero(fields[plan[at].of]) /\ ValueOK(value)
  BY ZeroBefore
<1>2. DOMAIN input' = DOMAIN input
  OBVIOUS
<1>3. \A i \in DOMAIN fields : input'[i] = IF i = plan[at].of THEN value ELSE input[i]
  OBVIOUS
<1> HIDE DEF value
<1> QED
  BY <1>1, <1>2, <1>3, BoundKeeps

\* Faults and values by the source of the field.
LEMMA FaultyPath ==
  ASSUME NEW n, plan[n].source = "path"
  PROVE  LET f == fields[plan[n].of]
             raw == request.path[f.name]
         IN /\ Faulty(n) <=> \/ raw \notin Satisfies[pattern[f.name]] \/ f.kind = "pair"
                             \/ ScanPath(f.scalar, pattern[f.name], raw) = Malformed
            /\ \A value : Holds(n, value) <=>
                 /\ raw \in Satisfies[pattern[f.name]]
                 /\ value.elements = <<ScanPath(f.scalar, pattern[f.name], raw)>>
BY DEF Faulty, Holds

LEMMA FaultyValues ==
  ASSUME NEW n, plan[n].source \in {"query", "header"}
  PROVE  LET f == fields[plan[n].of]
             texts == request.values[<<plan[n].source, f.name>>]
         IN /\ Faulty(n) <=>
                 texts # <<>> /\
                   \/ f.kind \in {"plain", "pointer"} /\ Len(texts) # 1
                   \/ f.kind = "pair" /\ Len(texts) # 2
                   \/ \E k \in DOMAIN texts : SetScalar(f.scalar, texts[k]) = Malformed
            /\ \A value : Holds(n, value) <=>
                 IF texts = <<>> THEN value = Zero(f)
                 ELSE /\ value.elements = Parsed(f, texts)
                      /\ f.kind \in {"plain", "pointer"} => Len(value.elements) = 1
BY DEF Faulty, Holds

LEMMA FaultyBody ==
  ASSUME NEW n, plan[n].source = "body"
  PROVE  /\ Faulty(n) <=> \/ ~request.body.whole /\ ~BodyUnread
                          \/ IF Sent THEN ~Decodes ELSE plan[n].required
         /\ \A value : Holds(n, value) <=>
              IF Sent /\ request.body.json # "null"
              THEN value = Holding(<<"decoded">>) /\ request.body.length <= options.limit
              ELSE value = Zero(fields[plan[n].of])
BY DEF Faulty, Holds

LEMMA BindPathKeeps ==
  ASSUME Inductive, BindPath
  PROVE  Inductive'
<1> DEFINE f == fields[plan[at].of]
           raw == request.path[f.name]
           constraint == pattern[f.name]
           parsed == ScanPath(f.scalar, constraint, raw)
<1>1. /\ phase = "bind" /\ at <= Len(plan) /\ plan[at].source = "path" /\ Continue
      /\ IF PathRefused(raw, constraint)
         THEN errs' = errs \cup {at} /\ UNCHANGED input
         ELSE SetField(<<raw>>, <<parsed>>)
  BY DEF BindPath, Binding
<1>2. at \in DOMAIN plan /\ f \in Menu /\ Compiled(at) /\ phase \in Serving /\ Received
  BY <1>1, WhileBinding
<1>3. f.scalar \in Scalars /\ f.kind \in Kinds /\ f.name \in DOMAIN pattern
  BY <1>1, <1>2, MenuFields DEF Compiled, Matches
<1>4. raw \in Texts /\ raw # ""
  BY <1>2, <1>3 DEF Received
<1> HIDE DEF raw, constraint
<1>5. parsed \in Values \cup {Malformed}
  <2>1. Scan[f.scalar][raw] \in Values \cup {Malformed} /\ ScanDate[raw] \in Values \cup {Malformed}
    BY <1>3, <1>4, BindingAssumption, ZenonT(60)
  <2> QED
    BY <2>1 DEF ScanPath, SetScalar
<1>6. /\ Faulty(at) <=> raw \notin Satisfies[constraint] \/ f.kind = "pair" \/ parsed = Malformed
      /\ \A value : Holds(at, value) <=> raw \in Satisfies[constraint] /\ value.elements = <<parsed>>
  BY <1>1, FaultyPath DEF raw, constraint
<1>7. plan[at].source # "body"
  BY <1>1
<1> HIDE DEF parsed
<1>8. CASE raw \notin Satisfies[constraint]
  <2>1. errs' = errs \cup {at} /\ input' = input
    BY <1>1, <1>8 DEF PathRefused
  <2> QED
    BY <1>1, <1>2, <1>6, <1>7, <1>8, <2>1, LeftKeeps
<1>9. CASE raw \in Satisfies[constraint]
  <2> DEFINE sound == f.kind # "pair" /\ parsed # Malformed
  <2>1. SetField(<<raw>>, <<parsed>>)
    BY <1>1, <1>4, <1>9 DEF PathRefused
  <2>2. Accepts(f, <<raw>>) <=> f.kind # "pair"
    <3>1. Len(<<raw>>) = 1
      OBVIOUS
    <3>2. CASE f.kind = "slice"
      BY <3>2 DEF Accepts
    <3>3. CASE f.kind = "pair"
      BY <3>1, <3>3 DEF Accepts
    <3>4. CASE f.kind \in {"plain", "pointer"}
      BY <3>1, <3>4 DEF Accepts
    <3> QED
      BY <1>3, <3>2, <3>3, <3>4 DEF Kinds
  <2>3. (\A n \in DOMAIN <<parsed>> : <<parsed>>[n] # Malformed) <=> parsed # Malformed
    OBVIOUS
  <2>4. /\ input' = IF sound THEN [input EXCEPT ![plan[at].of] = Holding(<<parsed>>)] ELSE input
        /\ errs' = IF sound THEN errs ELSE errs \cup {at}
    BY <2>1, <2>2, <2>3 DEF SetField
  <2>5. CASE ~sound
    <3>1. input' = input /\ errs' = errs \cup {at} /\ Faulty(at)
      BY <1>6, <2>4, <2>5
    <3> QED
      BY <1>1, <1>2, <1>7, <3>1, LeftKeeps
  <2>6. CASE sound
    <3> DEFINE value == Holding(<<parsed>>)
    <3>1. ValueOK(value)
      <4>1. \A k \in DOMAIN <<parsed>> : <<parsed>>[k] \in Values
        BY <1>5, <2>6
      <4> QED
        BY <4>1, HoldingOK
    <3>2. ~Faulty(at) /\ Holds(at, value)
      BY <1>6, <1>9, <2>6, HoldingFields
    <3>3. input' = [input EXCEPT ![plan[at].of] = value] /\ errs' = errs
      BY <2>4, <2>6
    <3> HIDE DEF value
    <3> QED
      BY <1>1, <1>2, <1>7, <3>1, <3>2, <3>3, SetKeeps
  <2> QED
    BY <2>5, <2>6
<1> QED
  BY <1>8, <1>9

\* Parsing keeps how many texts there are.
LEMMA ParsedLength ==
  ASSUME NEW f, NEW texts \in Seq(Texts)
  PROVE  Len(Parsed(f, texts)) = Len(texts)
<1>1. DOMAIN texts = 1..Len(texts) /\ Len(texts) \in Nat
  OBVIOUS
<1> QED
  BY <1>1 DEF Parsed

LEMMA BindValuesKeeps ==
  ASSUME Inductive, BindValues
  PROVE  Inductive'
<1> DEFINE f == fields[plan[at].of]
           texts == request.values[<<plan[at].source, f.name>>]
           parsed == Parsed(f, texts)
<1>1. /\ phase = "bind" /\ at <= Len(plan) /\ plan[at].source \in {"query", "header"} /\ Continue
      /\ IF texts = <<>> THEN UNCHANGED <<input, errs>> ELSE SetField(texts, parsed)
  BY DEF BindValues, Binding, Parsed
<1>2. at \in DOMAIN plan /\ f \in Menu /\ phase \in Serving /\ Received
  BY <1>1, WhileBinding
<1>3. f.scalar \in Scalars /\ f.kind \in Kinds
  BY <1>2, MenuFields
<1>4. texts \in Seq(Texts)
  BY <1>1, <1>2 DEF Received, Texted
<1>5. /\ Faulty(at) <=>
           texts # <<>> /\
             \/ f.kind \in {"plain", "pointer"} /\ Len(texts) # 1
             \/ f.kind = "pair" /\ Len(texts) # 2
             \/ \E k \in DOMAIN texts : SetScalar(f.scalar, texts[k]) = Malformed
      /\ \A value : Holds(at, value) <=>
           IF texts = <<>> THEN value = Zero(f)
           ELSE value.elements = parsed /\ (f.kind \in {"plain", "pointer"} => Len(value.elements) = 1)
  <2> HIDE DEF parsed, texts, f
  <2>1. plan[at].source \in {"query", "header"}
    BY <1>1
  <2> QED
    BY <2>1, FaultyValues DEF parsed, texts, f
<1>6. plan[at].source # "body" /\ at \notin errs
  BY <1>1, WhileBinding
<1> HIDE DEF texts
<1>7. CASE texts = <<>>
  <2>1. input' = input /\ errs' = errs
    BY <1>1, <1>7
  <2>2. ~Faulty(at) /\ Holds(at, Zero(f))
    BY <1>5, <1>7
  <2> QED
    BY <1>1, <1>2, <1>6, <2>1, <2>2, LeftKeeps
<1>8. CASE texts # <<>>
  <2> DEFINE whole == \A k \in DOMAIN texts : SetScalar(f.scalar, texts[k]) # Malformed
             sound == Accepts(f, texts) /\ whole
  <2>1. (\A n \in DOMAIN parsed : parsed[n] # Malformed) <=> whole
    BY DEF Parsed
  <2>2. /\ input' = IF sound THEN [input EXCEPT ![plan[at].of] = Holding(parsed)] ELSE input
        /\ errs' = IF sound THEN errs ELSE errs \cup {at}
    <3>1. SetField(texts, parsed)
      BY <1>1, <1>8
    <3> HIDE DEF parsed
    <3> QED
      BY <2>1, <3>1 DEF SetField
  <2>3. /\ Accepts(f, texts) => ~(f.kind \in {"plain", "pointer"} /\ Len(texts) # 1)
                                /\ ~(f.kind = "pair" /\ Len(texts) # 2)
        /\ ~Accepts(f, texts) => \/ f.kind \in {"plain", "pointer"} /\ Len(texts) # 1
                                 \/ f.kind = "pair" /\ Len(texts) # 2
    <3>1. Len(texts) \in Nat
      BY <1>4
    <3>2. CASE f.kind = "slice"
      BY <3>2 DEF Accepts
    <3>3. CASE f.kind = "pair"
      BY <3>3 DEF Accepts
    <3>4. CASE f.kind \in {"plain", "pointer"}
      BY <3>1, <3>4 DEF Accepts
    <3> QED
      BY <1>3, <3>2, <3>3, <3>4 DEF Kinds
  <2>4. sound <=> ~Faulty(at)
    BY <1>5, <1>8, <2>3
  <2>5. CASE ~sound
    <3>1. input' = input /\ errs' = errs \cup {at} /\ Faulty(at)
      BY <2>2, <2>4, <2>5
    <3> QED
      BY <1>1, <1>2, <1>6, <3>1, LeftKeeps
  <2>6. CASE sound
    <3> DEFINE value == Holding(parsed)
    <3>1. ValueOK(value)
      <4>1. \A k \in DOMAIN texts : texts[k] \in Texts
        BY <1>4
      <4>2. \A k \in DOMAIN parsed : parsed[k] \in Values
        BY <1>3, <2>6, <4>1, BindingAssumption DEF SetScalar, Parsed
      <4> HIDE DEF parsed
      <4> QED
        BY <4>2, HoldingOK
    <3>2. value.elements = parsed
      BY HoldingFields
    <3>3. f.kind \in {"plain", "pointer"} => Len(parsed) = 1
      BY <1>4, <2>3, <2>6, ParsedLength
    <3> HIDE DEF value, parsed
    <3>4. Holds(at, value)
      BY <1>5, <1>8, <3>2, <3>3
    <3>5. input' = [input EXCEPT ![plan[at].of] = value] /\ errs' = errs
      BY <2>2, <2>6 DEF value
    <3> QED
      BY <1>1, <1>2, <1>6, <2>4, <2>6, <3>1, <3>4, <3>5, SetKeeps
  <2> QED
    BY <2>5, <2>6
<1> QED
  BY <1>7, <1>8
\* Short of the largest int64 as the limit, what body.go measures is what was sent.
LEMMA BodyMeasured ==
  ASSUME Inductive, Binding({"body"})
  PROVE  /\ TooLarge <=> Oversize
         /\ ~TooLarge => /\ ReadFails <=> ~request.body.whole /\ ~BodyUnread
                         /\ Absent <=> ~Sent
                         /\ request.body.length <= options.limit
<1> DEFINE body == request.body
           limit == options.limit
<1>1. /\ phase = "bind" /\ at \in DOMAIN plan /\ plan[at].source = "body" /\ HasBody
  <2>1. phase = "bind" /\ at <= Len(plan) /\ plan[at].source = "body"
    BY DEF Binding
  <2> QED
    BY <2>1, WhileBinding DEF HasBody
<1>2. limit \in 1..MaxInt /\ MaxInt \in Nat /\ (BodyUnread <=> limit = MaxInt)
  BY <1>1, WhileBinding, BindingAssumption DEF OptionsType, BodyUnread
<1>3. body \in Bodies \cup {NoBody}
  BY <1>1, WhileBinding DEF Received
<1>4. /\ body.length \in 0..MaxInt /\ body.declared \in Int /\ body.declared <= MaxInt
      /\ body.length = 0 => body.blank
  <2>1. CASE body \in Bodies
    <3>1. body \in BodyType /\ (body.length = 0 => body.blank)
      BY <2>1, BindingAssumption
    <3> HIDE DEF body
    <3> QED
      BY <1>2, <3>1 DEF BodyType
  <2>2. CASE body = NoBody
    <3>1. NoBody.length = 0 /\ NoBody.declared = 0 /\ NoBody.blank = TRUE
      BY DEF NoBody
    <3> QED
      BY <1>2, <2>2, <3>1
  <2> QED
    BY <1>3, <2>1, <2>2
<1> HIDE DEF body, limit
<1>5. ASSUME ~BodyUnread
      PROVE  Wrapped(limit + 1) = limit + 1 /\ ~(limit + 1 <= 0)
  BY <1>2, <1>5 DEF Wrapped
<1>6. ASSUME BodyUnread
      PROVE  Wrapped(limit + 1) = 0 - limit - 1 /\ 0 - limit - 1 <= 0
  BY <1>2, <1>6 DEF Wrapped
<1>7. /\ ~BodyUnread => Readable = IF body.length < limit + 1 THEN body.length ELSE limit + 1
      /\ BodyUnread => Readable = 0
  BY <1>5, <1>6 DEF Readable, body, limit
<1>8. (Readable > limit) <=> (body.length > limit)
  BY <1>2, <1>4, <1>7
<1>9. TooLarge <=> Oversize
  BY <1>1, <1>8 DEF TooLarge, Oversize, body, limit
<1>10. ASSUME ~TooLarge
       PROVE  /\ body.length <= limit /\ body.length < limit + 1
              /\ ~BodyUnread => Readable = body.length
  <2>1. ~(body.length > limit)
    BY <1>8, <1>10 DEF TooLarge, limit
  <2> QED
    BY <1>2, <1>4, <1>7, <2>1
<1>11. ASSUME ~TooLarge
       PROVE  ReadFails <=> ~body.whole /\ ~BodyUnread
  <2>1. CASE BodyUnread
    <3>1. ~(body.length < Wrapped(limit + 1))
      BY <1>2, <1>4, <1>6, <2>1
    <3> QED
      BY <2>1, <3>1 DEF ReadFails, body, limit
  <2>2. CASE ~BodyUnread
    BY <1>5, <1>10, <1>11, <2>2 DEF ReadFails, body, limit
  <2> QED
    BY <2>1, <2>2
<1>12. ASSUME ~TooLarge
       PROVE  Absent <=> ~Sent
  BY <1>4, <1>7, <1>10, <1>12 DEF Absent, Sent, body
<1> QED
  BY <1>9, <1>10, <1>11, <1>12 DEF body, limit

\* While a body is bound.
LEMMA AtBody ==
  ASSUME Inductive, Binding({"body"})
  PROVE  phase = "bind" /\ at \in DOMAIN plan /\ plan[at].source = "body" /\ HasBody
<1>1. phase = "bind" /\ at <= Len(plan) /\ plan[at].source = "body"
  BY DEF Binding
<1> QED
  BY <1>1, WhileBinding DEF HasBody

LEMMA BodyMissingKeeps ==
  ASSUME Inductive, BodyMissing
  PROVE  Inductive'
<1>1. /\ Binding({"body"}) /\ ~TooLarge /\ ~ReadFails /\ Absent
      /\ errs' = IF plan[at].required THEN errs \cup {at} ELSE errs
      /\ input' = input /\ Continue
  BY DEF BodyMissing
<1>2. phase = "bind" /\ at \in DOMAIN plan /\ plan[at].source = "body" /\ at \notin errs
  BY <1>1, AtBody, WhileBinding
<1>3. errs' \in {errs, errs \cup {at}} /\ (at \in errs' <=> plan[at].required)
  BY <1>1, <1>2
<1>4. /\ Faulty(at) <=> plan[at].required
      /\ Holds(at, Zero(fields[plan[at].of]))
      /\ ~Oversize /\ ~Unsupported
  <2>1. ~Oversize /\ ~Sent /\ ~(~request.body.whole /\ ~BodyUnread)
    BY <1>1, BodyMeasured
  <2>2. ~Unsupported
    BY <2>1 DEF Unsupported
  <2> QED
    BY <1>2, <2>1, <2>2, FaultyBody
<1> QED
  BY <1>1, <1>2, <1>3, <1>4, LeftKeeps

LEMMA BodyReadKeeps ==
  ASSUME Inductive, BodyRead
  PROVE  Inductive'
<1>1. /\ Binding({"body"}) /\ ~TooLarge /\ ~ReadFails /\ ~Absent /\ request.body.media
      /\ IF Decodes
         THEN input' = [input EXCEPT ![plan[at].of] = Decoded] /\ errs' = errs
         ELSE errs' = errs \cup {at} /\ input' = input
      /\ Continue
  BY DEF BodyRead
<1>2. phase = "bind" /\ at \in DOMAIN plan /\ plan[at].source = "body" /\ at \notin errs
  BY <1>1, AtBody, WhileBinding
<1>3. /\ Faulty(at) <=> ~Decodes
      /\ Holds(at, Decoded)
      /\ ~Oversize /\ ~Unsupported
  <2>1. /\ ~Oversize /\ ~(~request.body.whole /\ ~BodyUnread) /\ Sent
        /\ request.body.length <= options.limit
    BY <1>1, BodyMeasured
  <2>2. ~Unsupported
    BY <1>1 DEF Unsupported
  <2> QED
    BY <1>2, <2>1, <2>2, FaultyBody DEF Decoded
<1>4. ValueOK(Decoded)
  <2>1. ValueOK(Zero(fields[plan[at].of]))
    BY <1>2, WhileBinding, ZeroOK
  <2>2. \A k \in DOMAIN <<"decoded">> : <<"decoded">>[k] \in Values
    BY BindingAssumption
  <2>3. ValueOK(Holding(<<"decoded">>))
    BY <2>2, HoldingOK
  <2> QED
    BY <2>1, <2>3 DEF Decoded
<1>5. CASE Decodes
  BY <1>1, <1>2, <1>3, <1>4, <1>5, SetKeeps
<1>6. CASE ~Decodes
  BY <1>1, <1>2, <1>3, <1>6, LeftKeeps
<1> QED
  BY <1>5, <1>6

LEMMA BodyUnreadableKeeps ==
  ASSUME Inductive, BodyUnreadable
  PROVE  Inductive'
<1>1. /\ Binding({"body"}) /\ ~TooLarge /\ ReadFails
      /\ errs' = errs \cup {at} /\ input' = input /\ Continue
  BY DEF BodyUnreadable
<1>2. phase = "bind" /\ at \in DOMAIN plan /\ plan[at].source = "body"
  BY <1>1, AtBody
<1>3. Faulty(at) /\ ~Oversize /\ ~Unsupported
  <2>1. ~Oversize /\ ~request.body.whole /\ ~BodyUnread
    BY <1>1, BodyMeasured
  <2> QED
    BY <1>2, <2>1, FaultyBody DEF Unsupported
<1> QED
  BY <1>1, <1>2, <1>3, LeftKeeps

---------------------------------------------------------------------------
(* Answering. *)

\* What an answer with status s says.
Justified(s) ==
  \/ s = 413 /\ Oversize
  \/ s = 415 /\ ~Oversize /\ Unsupported
  \/ /\ s = 400 /\ at > Len(plan)
     /\ errs = {} => options.validation /\ (RequiredFails \/ options.validator)
  \/ /\ s = 200 /\ at > Len(plan) /\ errs = {}
     /\ options.validation => ~RequiredFails

\* Nothing that was bound changes when the request is answered.
LEMMA FilledStays ==
  ASSUME Filled, phase \in Serving, phase' \in Serving,
         UNCHANGED <<pattern, options, fields, plan, at, request, input, errs>>
  PROVE  /\ Filled' /\ BodyUnread' = BodyUnread /\ Oversize' = Oversize
         /\ Unsupported' = Unsupported /\ RequiredFails' = RequiredFails
<1>1. HasBody' = HasBody /\ BodyUnread' = BodyUnread /\ Sent' = Sent
  BY DEF BodyUnread, HasBody, Sent
<1>2. Oversize' = Oversize
  BY <1>1 DEF Oversize
<1>3. Unsupported' = Unsupported
  BY <1>1, <1>2 DEF Unsupported
<1>4. RequiredFails' = RequiredFails
  BY DEF RequiredFails, Validated
<1>5. Decodes' = Decodes
  BY DEF Decodes
<1>6. ASSUME NEW n
      PROVE  Faulty(n)' = Faulty(n)
  BY <1>1, <1>5 DEF Faulty, ScanPath, SetScalar
<1>7. ASSUME NEW n
      PROVE  Holds(n, input[plan[n].of])' = Holds(n, input[plan[n].of])
  BY <1>1 DEF Holds, ScanPath, SetScalar
<1>8. Filled'
  BY <1>1, <1>2, <1>3, <1>6, <1>7 DEF Filled
<1> QED
  BY <1>1, <1>2, <1>3, <1>4, <1>8

LEMMA AnswerKeeps ==
  ASSUME Inductive, phase = "bind", NEW s, Justified(s), Answer(s)
  PROVE  Inductive'
<1>1. /\ phase' = "answered" /\ status' = s
      /\ UNCHANGED <<pattern, options, fields, plan, at, request, input, errs>>
  BY DEF Answer
<1>2. Shape /\ Planning /\ Received /\ Filled /\ phase \in Serving /\ phase' \in Serving
  BY <1>1, WhileBinding DEF Serving
<1>3. Shape'
  BY <1>1, <1>2 DEF Shape, Waiting, Serving
<1>4. Planning'
  BY <1>1, <1>2, PlanningStays
<1>5. Received'
  BY <1>1, <1>2 DEF Received, Texted, ValueOK
<1>6. /\ Filled' /\ BodyUnread' = BodyUnread /\ Oversize' = Oversize
      /\ Unsupported' = Unsupported /\ RequiredFails' = RequiredFails
  BY <1>1, <1>2, FilledStays
<1>7. Answered'
  BY <1>1, <1>6 DEF Answered, Justified
<1> QED
  BY <1>3, <1>4, <1>5, <1>6, <1>7 DEF Inductive

LEMMA RefusalKeeps ==
  ASSUME Inductive, BodyTooLarge \/ BodyUnsupported
  PROVE  Inductive'
<1>1. CASE BodyTooLarge
  <2>1. Binding({"body"}) /\ TooLarge /\ Answer(413)
    BY <1>1 DEF BodyTooLarge, Refusal, Answer
  <2>2. Justified(413)
    BY <2>1, BodyMeasured DEF Justified
  <2> QED
    BY <2>1, <2>2, AtBody, AnswerKeeps
<1>2. CASE BodyUnsupported
  <2>1. /\ Binding({"body"}) /\ ~TooLarge /\ ~ReadFails /\ ~Absent /\ ~request.body.media
        /\ Answer(415)
    BY <1>2 DEF BodyUnsupported, Refusal, Answer
  <2>2. ~Oversize /\ Unsupported
    <3>1. ~Oversize /\ ~(~request.body.whole /\ ~BodyUnread) /\ Sent
      BY <2>1, BodyMeasured
    <3> QED
      BY <2>1, <3>1, AtBody DEF Unsupported, Sent
  <2>3. Justified(415)
    BY <2>2 DEF Justified
  <2> QED
    BY <2>1, <2>3, AtBody, AnswerKeeps
<1> QED
  BY <1>1, <1>2

LEMMA AnswersKeep ==
  ASSUME Inductive, RefuseFields \/ RefuseInput \/ Handle
  PROVE  Inductive'
<1>1. phase = "bind" /\ at > Len(plan)
  BY DEF RefuseFields, RefuseInput, Handle, Done
<1>2. CASE RefuseFields
  <2>1. Answer(400) /\ Justified(400)
    BY <1>1, <1>2 DEF RefuseFields, Justified
  <2> QED
    BY <1>1, <2>1, AnswerKeeps
<1>3. CASE RefuseInput
  <2>1. Answer(400) /\ Justified(400)
    BY <1>1, <1>3 DEF RefuseInput, Justified
  <2> QED
    BY <1>1, <2>1, AnswerKeeps
<1>4. CASE Handle
  <2>1. Answer(200) /\ Justified(200)
    BY <1>1, <1>4 DEF Handle, Justified
  <2> QED
    BY <1>1, <2>1, AnswerKeeps
<1> QED
  BY <1>2, <1>3, <1>4

LEMMA StutterKeeps ==
  ASSUME Inductive, UNCHANGED vars
  PROVE  Inductive'
<1>1. /\ phase' = phase /\ status' = status
      /\ UNCHANGED <<pattern, options, fields, plan, at, request, input, errs>>
  BY DEF vars
<1>2. CASE phase \in Serving
  <2>1. /\ Filled' /\ BodyUnread' = BodyUnread /\ Oversize' = Oversize
        /\ Unsupported' = Unsupported /\ RequiredFails' = RequiredFails
    BY <1>1, <1>2, FilledStays DEF Inductive
  <2>2. Shape'
    BY <1>1 DEF Inductive, Shape
  <2>3. Planning'
    BY <1>1, <1>2, PlanningStays DEF Inductive
  <2>4. Received'
    BY <1>1 DEF Inductive, Received, Texted, ValueOK
  <2>5. Answered'
    BY <1>1, <2>1 DEF Inductive, Answered
  <2> QED
    BY <2>1, <2>2, <2>3, <2>4, <2>5 DEF Inductive
<1>3. CASE phase \in Waiting
  <2>1. Shape'
    BY <1>1 DEF Inductive, Shape
  <2>2. Planning'
    <3>1. WellFormed' = WellFormed /\ Missing' = Missing
      BY <1>1 DEF WellFormed, Missing, Bound, Tagged, SupportedJSON
    <3>2. \A n \in DOMAIN plan : Compiled(n)'
      BY <1>1 DEF Inductive, Planning, Compiled
    <3>3. phase # "refused" => \A i \in DOMAIN fields : fields[i].tags # {} => PlanFor(i)'
      BY <1>1 DEF Inductive, Planning, PlanFor
    <3> QED
      BY <1>1, <3>1, <3>2, <3>3 DEF Inductive, Planning
  <2> QED
    BY <1>1, <1>3, <2>1, <2>2, WaitingKeeps DEF Inductive
<1> QED
  BY <1>2, <1>3 DEF Inductive, Shape

LEMMA InitEstablishes ==
  ASSUME Init
  PROVE  Inductive
<1>1. /\ pattern \in Patterns /\ options \in Options
      /\ fields = <<>> /\ plan = <<>> /\ phase = "compile" /\ at = 0
      /\ request = NoRequest /\ input = <<>> /\ errs = {} /\ status = 0
  BY DEF Init
<1>2. /\ << >> \in Seq(Menu) /\ << >> \in Seq(PlanEntry) /\ DOMAIN << >> = {}
  OBVIOUS
<1>3. Shape
  BY <1>1, <1>2 DEF Shape, Waiting, Serving
<1>4. Planning
  BY <1>1, <1>2 DEF Planning, Serving
<1> QED
  BY <1>1, <1>3, <1>4 DEF Inductive, Received, Filled, Answered, Serving

---------------------------------------------------------------------------
(* The theorems. *)

\* The plan has an entry for exactly the tagged fields of a struct that
\* compiles; what is bound is bound as the request has it or noted as a fault,
\* and what is not bound yet is zero (internal/binding).
THEOREM BindingInvariant == Spec => []Inductive
<1>1. Init => Inductive
  BY InitEstablishes
<1>2. Inductive /\ [Next]_vars => Inductive'
  BY CompileFieldKeeps, RefuseFieldKeeps, CompileEndKeeps, ReceiveKeeps, BindPathKeeps,
     BindValuesKeeps, BodyMissingKeeps, BodyReadKeeps, BodyUnreadableKeeps, RefusalKeeps,
     AnswersKeep, StutterKeeps
  DEF Next, Rest
<1> QED
  BY <1>1, <1>2, PTL DEF Spec
LEMMA InductiveTyped ==
  ASSUME Inductive
  PROVE  TypeOK
<1>1. /\ Shape /\ fields \in Seq(Menu) /\ plan \in Seq(PlanEntry) /\ Len(plan) \in Nat
      /\ DOMAIN plan = 1..Len(plan) /\ errs \subseteq 1..(at - 1)
      /\ phase \in Waiting \cup Serving
  BY DEF Inductive, Shape
<1>2. ASSUME NEW n \in DOMAIN plan
      PROVE  plan[n] \in [of : DOMAIN fields, source : Sources, required : BOOLEAN]
  <2>1. plan[n] \in PlanEntry /\ plan[n].of \in DOMAIN fields
    BY <1>1 DEF Inductive, Planning, Compiled
  <2> QED
    BY <2>1 DEF PlanEntry
<1>3. at \in 0..Len(plan) + 1 /\ errs \subseteq DOMAIN plan
  <2>1. CASE phase \in Waiting
    <3>1. at = 0 /\ errs = {}
      BY <1>1, <2>1 DEF Shape
    <3> QED
      BY <1>1, <3>1
  <2>2. CASE phase \in Serving
    BY <1>1, <2>2 DEF Shape
  <2> QED
    BY <1>1, <2>1, <2>2
<1>4. request.body \in Bodies \cup {NoBody}
  <2>1. CASE phase \in Waiting
    <3>1. request.body = NoBody
      BY <1>1, <2>1 DEF Shape, NoRequest
    <3> QED
      BY <3>1
  <2> QED
    BY <1>1, <2>1 DEF Inductive, Received
<1>5. \A i \in DOMAIN input :
        input[i].nil \in BOOLEAN /\ \A n \in DOMAIN input[i].elements : input[i].elements[n] \in Values
  <2>1. CASE phase \in Waiting
    BY <1>1, <2>1 DEF Shape
  <2>2. CASE phase \in Serving
    BY <1>1, <2>2 DEF Inductive, Shape, Received, ValueOK
  <2> QED
    BY <1>1, <2>1, <2>2
<1>6. status \in {0, 200, 400, 413, 415}
  BY <1>1 DEF Shape, Waiting, Serving, Inductive, Answered
<1>7. /\ pattern \in Patterns /\ options \in Options /\ \A i \in DOMAIN fields : fields[i] \in Menu
      /\ phase \in {"compile", "refused", "compiled", "bind", "answered"}
      /\ phase \in {"bind", "answered"} => DOMAIN input = DOMAIN fields
  BY <1>1 DEF Shape, Waiting, Serving
<1> QED
  BY <1>2, <1>3, <1>4, <1>5, <1>6, <1>7 DEF TypeOK

\* Every variable of the binding has its type, and the input never holds
\* what did not parse (bind.go).
THEOREM BindingTypes == Spec => []TypeOK
BY BindingInvariant, InductiveTyped, PTL

LEMMA CompiledIsWellFormed ==
  ASSUME Inductive, phase \in {"compiled"} \cup Serving
  PROVE  /\ WellFormed
         /\ \A i \in DOMAIN fields :
              Cardinality({n \in DOMAIN plan : plan[n].of = i}) = Cardinality(fields[i].tags)
<1>1. Shape /\ Planning /\ Missing = {} /\ phase # "refused"
  BY DEF Inductive, Planning, Serving
<1>2. ASSUME NEW source \in Sources, NEW i \in Tagged(source)
      PROVE  \E n \in DOMAIN plan :
               /\ plan[n].of = i /\ plan[n].source = source
               /\ fields[i].tags = {source} /\ Matches(plan[n], fields[i], DOMAIN pattern)
  <2>1. i \in DOMAIN fields /\ source \in fields[i].tags
    BY <1>2 DEF Tagged
  <2>2. PICK n \in DOMAIN plan : plan[n].of = i
    BY <1>1, <2>1 DEF Planning, PlanFor
  <2>3. Matches(plan[n], fields[i], DOMAIN pattern)
    BY <1>1, <2>2 DEF Planning, Compiled
  <2>4. fields[i].tags = {plan[n].source} /\ plan[n].source = source
    BY <2>1, <2>3 DEF Matches
  <2> QED
    BY <2>2, <2>3, <2>4
<1>3. \A source \in Sources : \A i \in Tagged(source) :
        fields[i].exported /\ fields[i].name # "" /\ fields[i].tags = {source}
  <2>1. ASSUME NEW source \in Sources, NEW i \in Tagged(source)
        PROVE  fields[i].exported /\ fields[i].name # "" /\ fields[i].tags = {source}
    <3>1. PICK n \in DOMAIN plan :
               fields[i].tags = {source} /\ Matches(plan[n], fields[i], DOMAIN pattern)
      BY <1>2, <2>1
    <3> QED
      BY <3>1 DEF Matches
  <2> QED
    BY <2>1
<1>4. \A i \in Tagged("path") : fields[i].name \in DOMAIN pattern
  BY <1>2 DEF Matches, Sources
<1>5. ASSUME NEW p \in DOMAIN pattern
      PROVE  Cardinality({i \in Tagged("path") : fields[i].name = p}) = 1
  <2> DEFINE named == {i \in Tagged("path") : fields[i].name = p}
  <2>1. PICK n \in DOMAIN plan : plan[n].source = "path" /\ fields[plan[n].of].name = p
    BY <1>1, <1>5 DEF Missing, Bound
  <2>2. plan[n].of \in named
    BY <1>1, <2>1 DEF Planning, Compiled, Matches, Tagged
  <2>3. ASSUME NEW i \in named
        PROVE  i = plan[n].of
    <3>1. PICK m \in DOMAIN plan : plan[m].of = i /\ plan[m].source = "path"
      BY <1>2, <2>3 DEF Sources
    <3>2. m = n
      BY <1>1, <2>1, <2>3, <3>1 DEF Planning
    <3> QED
      BY <3>1, <3>2
  <2>4. named = {plan[n].of}
    BY <2>2, <2>3
  <2> HIDE DEF named
  <2>5. Cardinality(named) = 1
    BY <2>4, FS_Singleton
  <2> QED
    BY <2>5 DEF named
<1>6. \A i \in Tagged("body") : fields[i].name = "json" /\ SupportedJSON(fields[i])
  BY <1>2 DEF Matches, Sources
<1>7. Cardinality(Tagged("body")) <= 1
  <2>1. CASE Tagged("body") = {}
    BY <2>1, FS_EmptySet
  <2>2. CASE Tagged("body") # {}
    <3>1. PICK i : i \in Tagged("body")
      BY <2>2
    <3>2. ASSUME NEW j \in Tagged("body")
          PROVE  j = i
      <4>1. PICK m \in DOMAIN plan : plan[m].of = i /\ plan[m].source = "body"
        BY <1>2, <3>1 DEF Sources
      <4>2. PICK n \in DOMAIN plan : plan[n].of = j /\ plan[n].source = "body"
        BY <1>2, <3>2 DEF Sources
      <4>3. fields[i].name = fields[j].name
        BY <1>6, <3>1, <3>2
      <4>4. m = n
        BY <1>1, <4>1, <4>2, <4>3 DEF Planning
      <4> QED
        BY <4>1, <4>2, <4>4
    <3>3. Tagged("body") = {i}
      BY <3>1, <3>2
    <3>4. Cardinality(Tagged("body")) = 1
      BY <3>3, FS_Singleton
    <3> QED
      BY <3>4
  <2> QED
    BY <2>1, <2>2
<1>8. ASSUME NEW i \in DOMAIN fields
      PROVE  Cardinality({n \in DOMAIN plan : plan[n].of = i}) = Cardinality(fields[i].tags)
  <2> DEFINE entries == {n \in DOMAIN plan : plan[n].of = i}
  <2>1. CASE fields[i].tags = {}
    <3>1. entries = {}
      BY <1>1, <2>1 DEF Planning, Compiled, Matches
    <3> HIDE DEF entries
    <3>2. entries = fields[i].tags
      BY <2>1, <3>1
    <3>3. Cardinality(entries) = Cardinality(fields[i].tags)
      BY <3>2
    <3> QED
      BY <3>3 DEF entries
  <2>2. CASE fields[i].tags # {}
    <3>1. PICK n \in DOMAIN plan : plan[n].of = i
      BY <1>1, <2>2 DEF Planning, PlanFor
    <3>2. fields[i].tags = {plan[n].source}
      BY <1>1, <3>1 DEF Planning, Compiled, Matches
    <3>3. entries = {n}
      BY <1>1, <3>1 DEF Planning
    <3> HIDE DEF entries
    <3>4. Cardinality(entries) = 1 /\ Cardinality(fields[i].tags) = 1
      BY <3>2, <3>3, FS_Singleton
    <3> QED
      BY <3>4 DEF entries
  <2> QED
    BY <2>1, <2>2
<1>9. WellFormed
  BY <1>3, <1>4, <1>5, <1>6, <1>7 DEF WellFormed
<1> QED
  BY <1>8, <1>9

\* Compiling one field after the other accepts exactly the structs that bind
\* every parameter of the route once and at most one body, and the plan has
\* every tagged field once (compiler.go).
THEOREM PlanHolds == Spec => []PlanVerdict
<1>1. Inductive => PlanVerdict
  <2> SUFFICES ASSUME Inductive
               PROVE  PlanVerdict
    OBVIOUS
  <2>1. phase = "refused" => ~WellFormed
    BY DEF Inductive, Planning
  <2>2. phase \in {"compiled", "bind", "answered"} => phase \in {"compiled"} \cup Serving
    BY DEF Serving
  <2> QED
    BY <2>1, <2>2, CompiledIsWellFormed DEF PlanVerdict
<1> QED
  BY <1>1, BindingInvariant, PTL

\* What holds once every field is bound.
LEMMA AllBound ==
  ASSUME Inductive, phase = "answered", at > Len(plan)
  PROVE  /\ \A n \in DOMAIN plan : ~Faulty(n) => Holds(n, input[plan[n].of])
         /\ (errs = {}) <=> (\A n \in DOMAIN plan : ~Faulty(n))
         /\ ~Oversize /\ ~Unsupported
<1>1. /\ Shape /\ Filled /\ phase \in Serving /\ Len(plan) \in Nat
      /\ DOMAIN plan = 1..Len(plan) /\ at \in 1..(Len(plan) + 1) /\ errs \subseteq 1..(at - 1)
  BY DEF Inductive, Shape, Serving
<1>2. 1..(at - 1) = DOMAIN plan
  BY <1>1
<1>3. /\ \A n \in DOMAIN plan : n \in errs <=> Faulty(n)
      /\ \A n \in DOMAIN plan : ~Faulty(n) => Holds(n, input[plan[n].of])
      /\ \A n \in DOMAIN plan : plan[n].source = "body" => ~Oversize /\ ~Unsupported
  BY <1>1, <1>2 DEF Filled
<1>4. ~Oversize /\ ~Unsupported
  <2>1. CASE HasBody
    BY <1>3, <2>1 DEF HasBody
  <2>2. CASE ~HasBody
    BY <2>2 DEF Oversize, Unsupported
  <2> QED
    BY <2>1, <2>2
<1> QED
  BY <1>1, <1>2, <1>3, <1>4

\* The status depends on the request and not on the order of the fields: 413
\* and 415 come before any fault of a field, no request with a fault reaches
\* the handler and nothing else is refused (bind.go, body.go, typedEndpoint).
THEOREM VerdictHolds == Spec => []Verdict
<1>1. Inductive => Verdict
  <2> SUFFICES ASSUME Inductive, phase = "answered"
               PROVE  LET faulty == \E n \in DOMAIN plan : Faulty(n)
                      IN CASE Oversize -> status = 413
                           [] Unsupported -> status = 415
                           [] ~Oversize /\ ~Unsupported /\ faulty -> status = 400
                           [] OTHER -> \/ status = 200
                                       \/ /\ status = 400 /\ options.validation
                                          /\ (RequiredFails \/ options.validator)
    BY DEF Verdict
  <2>1. Answered
    BY DEF Inductive
  <2>2. CASE status = 413 /\ Oversize
    BY <2>2 DEF Unsupported
  <2>3. CASE status = 415 /\ ~Oversize /\ Unsupported
    BY <2>3
  <2>4. CASE /\ status = 400 /\ at > Len(plan)
             /\ errs = {} => options.validation /\ (RequiredFails \/ options.validator)
    <3>1. ~Oversize /\ ~Unsupported /\ ((errs = {}) <=> (\A n \in DOMAIN plan : ~Faulty(n)))
      BY <2>4, AllBound
    <3> QED
      BY <2>4, <3>1
  <2>5. CASE status = 200 /\ at > Len(plan) /\ errs = {}
    <3>1. ~Oversize /\ ~Unsupported /\ \A n \in DOMAIN plan : ~Faulty(n)
      BY <2>5, AllBound
    <3> QED
      BY <2>5, <3>1
  <2> QED
    BY <2>1, <2>2, <2>3, <2>4, <2>5 DEF Answered
<1> QED
  BY <1>1, BindingInvariant, PTL

\* The input of the handler has all of what the request has for each field, and
\* zero for what it has nothing for; with validation nothing that the document
\* calls required is missing, but for query parameters and headers with json:"-",
\* which the validation plan leaves out (bind.go, body.go, validation/compiler.go).
THEOREM InputHolds == Spec => []HandlerSeesRequest
<1>1. Inductive => HandlerSeesRequest
  <2> SUFFICES ASSUME Inductive, status = 200
               PROVE  HandlerSeesRequest
    BY DEF HandlerSeesRequest
  <2>1. /\ phase = "answered" /\ at > Len(plan) /\ errs = {} /\ Shape /\ Planning /\ Filled
        /\ options.validation => ~RequiredFails
    BY DEF Inductive, Shape, Waiting, Serving, Answered
  <2>2. \A n \in DOMAIN plan : ~Faulty(n) /\ Holds(n, input[plan[n].of])
    BY <2>1, AllBound
  <2>3. \A n \in DOMAIN plan : /\ plan[n].of \in DOMAIN fields /\ plan[n].source \in Sources
                                /\ Matches(plan[n], fields[plan[n].of], DOMAIN pattern)
    <3>1. \A n \in DOMAIN plan : plan[n] \in PlanEntry /\ Compiled(n)
      BY <2>1 DEF Shape, Planning
    <3>2. \A n \in DOMAIN plan : plan[n].source \in Sources
      BY <3>1 DEF PlanEntry
    <3> QED
      BY <3>1, <3>2 DEF Compiled
  <2>4. ASSUME options.validation, NEW n \in DOMAIN plan, DocumentedRequired(n)
        PROVE  Present(n) \/ Unenforced(n)
    <3>1. CASE plan[n].source = "path"
      BY <3>1 DEF Present
    <3>2. CASE plan[n].source = "body"
      <4>1. plan[n].required
        BY <2>4, <3>2 DEF DocumentedRequired
      <4>2. Sent
        BY <2>2, <3>2, <4>1, FaultyBody
      <4> QED
        BY <3>2, <4>2 DEF Present
    <3>3. CASE plan[n].source \in {"query", "header"} /\ ~Unenforced(n)
      <4> DEFINE f == fields[plan[n].of]
                 texts == request.values[<<plan[n].source, f.name>>]
      <4>1. Validated(f) /\ f.required
        BY <2>3, <2>4, <3>3 DEF DocumentedRequired, Matches, Unenforced
      <4>2. input[plan[n].of] # Zero(f)
        BY <2>1, <2>3, <2>4, <4>1 DEF RequiredFails
      <4>3. texts # <<>>
        BY <2>2, <3>3, <4>2, FaultyValues
      <4> QED
        BY <3>3, <4>3 DEF Present
    <3> QED
      BY <2>3, <3>1, <3>2, <3>3 DEF Sources
  <2>5. ASSUME NEW i \in DOMAIN fields, fields[i].tags = {}
        PROVE  input[i] = Zero(fields[i])
    <3>1. \A n \in DOMAIN plan : plan[n].of # i
      BY <2>3, <2>5 DEF Matches
    <3>2. 1..(at - 1) \subseteq DOMAIN plan
      BY <2>1 DEF Shape, Serving
    <3> QED
      BY <2>1, <3>1, <3>2 DEF Filled, Serving
  <2> QED
    BY <2>2, <2>4, <2>5 DEF HandlerSeesRequest, Holds, Parsed
<1> QED
  BY <1>1, BindingInvariant, PTL
=============================================================================
