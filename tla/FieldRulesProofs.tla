-------------------------- MODULE FieldRulesProofs --------------------------
(***************************************************************************)
(* Proofs about FieldRules, for every type of the field, any number of     *)
(* rules in any order, all values and any precision of float64.            *)
(***************************************************************************)
EXTENDS FieldRules, FiniteSetTheorems, SequenceTheorems, TLAPS

---------------------------------------------------------------------------
(* The inductive invariant. *)

Lower == {"min", "gte", "len"}
Upper == {"max", "lte", "len"}

IsSchema(s) ==
  s = [json |-> s.json, bounds |-> s.bounds, enum |-> s.enum, format |-> s.format, nullable |-> s.nullable]

\* The rules before the n-th that are of these kinds.
Among(kinds, n) == {i \in 1 .. (n - 1) : rules[i].kind \in kinds}

\* A keyword holds what the type gives it until a rule of the tag writes over it.
Bounded(s, keyword, kinds, n) ==
  IF Among(kinds, n) = {}
  THEN keyword \in DOMAIN s.bounds =>
         /\ keyword \in DOMAIN SchemaFor(type).bounds
         /\ s.bounds[keyword] = SchemaFor(type).bounds[keyword]
  ELSE /\ keyword \in DOMAIN s.bounds
       /\ \E i \in Among(kinds, n) : s.bounds[keyword] = Stated(type.kind, rules[i].n)

\* So do the set of values and the format, which no type gives.
Listed(s, n) ==
  IF Among({"oneof"}, n) = {} THEN s.enum = <<>>
  ELSE \E i \in Among({"oneof"}, n) : s.enum = <<rules[i].choices>>
Formatted(s, n) ==
  IF Among({"email", "uuid"}, n) = {} THEN s.format = "none"
  ELSE \E i \in Among({"email", "uuid"}, n) : s.format = rules[i].kind

\* The schema after the rules before the n-th.
Tells(s, n) ==
  /\ s.nullable = (type.pointers = 1) /\ s.json = SchemaFor(type).json
  /\ Bounded(s, LowerKeyword(type.kind), Lower, n)
  /\ Bounded(s, UpperKeyword(type.kind), Upper, n)
  /\ Listed(s, n) /\ Formatted(s, n)

\* The schema of a field is that of its rules; of a quoted one, what is left of it.
Documented(s, n) ==
  IF type.quoted
  THEN s.nullable = (type.pointers = 1) /\ s.json = "string" /\ Listed(s, n) /\ s.format = "none"
  ELSE Tells(s, n)

Parsed ==
  /\ type \in FieldTypes /\ rules \in Seq(Menu)
  /\ \A i \in DOMAIN rules : ~RefusesRule(rules[i])
  /\ phase \in {"parse", "refused", "document", "documented", "check", "checked"}
  /\ at \in Nat

Described ==
  /\ IsSchema(schema)
  /\ phase = "document" => at \in 1 .. (Len(rules) + 1) /\ Tells(schema, at)
  /\ phase \in {"documented", "check", "checked"} => Documented(schema, Len(rules) + 1)

Judged ==
  /\ phase \notin {"check", "checked"} => failed = {}
  /\ phase \in {"check", "checked"} =>
       /\ value \in ValueType /\ Possible(value) /\ (value.given # "value" => value.id = 0)
       /\ at \in 1 .. (Len(rules) + 1)
       /\ failed = {i \in 1 .. (at - 1) : ValidateRule(rules[i])}
  /\ phase = "checked" => at = Len(rules) + 1

Inductive == Parsed /\ Described /\ Judged

---------------------------------------------------------------------------
(* The keywords of a schema. *)

LEMMA KeywordsDiffer ==
  ASSUME NEW kind
  PROVE  LowerKeyword(kind) # UpperKeyword(kind)
BY DEF LowerKeyword, UpperKeyword

LEMMA PutEntry ==
  ASSUME NEW s, IsSchema(s), NEW keyword, NEW n
  PROVE  /\ IsSchema(Put(s, keyword, n))
         /\ Put(s, keyword, n).enum = s.enum /\ Put(s, keyword, n).format = s.format
         /\ Put(s, keyword, n).nullable = s.nullable /\ Put(s, keyword, n).json = s.json
         /\ DOMAIN Put(s, keyword, n).bounds = DOMAIN s.bounds \cup {keyword}
         /\ Put(s, keyword, n).bounds[keyword] = n
         /\ \A k \in DOMAIN s.bounds : k # keyword =>
              Put(s, keyword, n).bounds[k] = s.bounds[k]
<1> DEFINE b == [k \in DOMAIN s.bounds \cup {keyword} |-> IF k = keyword THEN n ELSE s.bounds[k]]
           r == [s EXCEPT !.bounds = b]
<1>1. Put(s, keyword, n) = r
  BY DEF Put
<1>2. /\ DOMAIN b = DOMAIN s.bounds \cup {keyword} /\ b[keyword] = n
      /\ \A k \in DOMAIN s.bounds : k # keyword => b[k] = s.bounds[k]
  OBVIOUS
<1> HIDE DEF b
<1>3. /\ IsSchema(r) /\ r.bounds = b /\ r.enum = s.enum /\ r.format = s.format
      /\ r.nullable = s.nullable /\ r.json = s.json
  BY DEF IsSchema
<1> HIDE DEF r
<1> QED
  BY <1>1, <1>2, <1>3

\* Two schemas say the same of a keyword.
SameBound(s, t, keyword) ==
  /\ keyword \in DOMAIN s.bounds <=> keyword \in DOMAIN t.bounds
  /\ keyword \in DOMAIN t.bounds => s.bounds[keyword] = t.bounds[keyword]

\* What a rule writes, and that it leaves the rest.
LEMMA RuleWrites ==
  ASSUME NEW s, IsSchema(s), NEW r, r.kind \in RuleKinds
  PROVE  LET t == ApplyFieldTag(s, r)
             low == LowerKeyword(type.kind)
             high == UpperKeyword(type.kind)
             n == Stated(type.kind, r.n)
         IN /\ IsSchema(t) /\ t.nullable = s.nullable /\ t.json = s.json
            /\ IF r.kind \in Lower THEN low \in DOMAIN t.bounds /\ t.bounds[low] = n
               ELSE SameBound(t, s, low)
            /\ IF r.kind \in Upper THEN high \in DOMAIN t.bounds /\ t.bounds[high] = n
               ELSE SameBound(t, s, high)
            /\ t.enum = IF r.kind = "oneof" THEN <<r.choices>> ELSE s.enum
            /\ t.format = IF r.kind \in {"email", "uuid"} THEN r.kind ELSE s.format
<1> DEFINE t == ApplyFieldTag(s, r)
           low == LowerKeyword(type.kind)
           high == UpperKeyword(type.kind)
           n == Stated(type.kind, r.n)
<1>0. low # high
  BY KeywordsDiffer
<1> HIDE DEF low, high, n
<1>1. CASE r.kind \in {"min", "gte"}
  <2>1. t = Put(s, low, n)
    BY <1>1 DEF ApplyFieldTag, low, n
  <2> QED
    BY <1>0, <1>1, <2>1, PutEntry DEF low, high, n, SameBound, Lower, Upper
<1>2. CASE r.kind \in {"max", "lte"}
  <2>1. t = Put(s, high, n)
    BY <1>2 DEF ApplyFieldTag, high, n
  <2> QED
    BY <1>0, <1>2, <2>1, PutEntry DEF low, high, n, SameBound, Lower, Upper
<1>3. CASE r.kind = "len"
  <2> DEFINE u == Put(s, low, n)
  <2>1. t = Put(u, high, n)
    BY <1>3 DEF ApplyFieldTag, high, low, n
  <2>2. /\ IsSchema(u) /\ u.enum = s.enum /\ u.format = s.format
        /\ u.nullable = s.nullable /\ u.json = s.json
        /\ low \in DOMAIN u.bounds /\ u.bounds[low] = n
    BY PutEntry
  <2> HIDE DEF u
  <2>3. /\ IsSchema(t) /\ t.enum = u.enum /\ t.format = u.format
        /\ t.nullable = u.nullable /\ t.json = u.json
        /\ DOMAIN t.bounds = DOMAIN u.bounds \cup {high}
        /\ t.bounds[high] = n /\ t.bounds[low] = u.bounds[low]
    BY <1>0, <2>1, <2>2, PutEntry
  <2> HIDE DEF t
  <2> QED
    BY <1>3, <2>2, <2>3 DEF low, high, n, Lower, Upper, t
<1>4. CASE r.kind = "oneof"
  <2>1. t = [s EXCEPT !.enum = <<r.choices>>]
    BY <1>4 DEF ApplyFieldTag
  <2>2. /\ IsSchema(t) /\ t.bounds = s.bounds /\ t.enum = <<r.choices>> /\ t.format = s.format
        /\ t.nullable = s.nullable /\ t.json = s.json
    BY <2>1 DEF IsSchema
  <2> HIDE DEF t
  <2> QED
    BY <1>4, <2>2 DEF SameBound, Lower, Upper, t, low, high
<1>5. CASE r.kind \in {"email", "uuid"}
  <2>1. t = [s EXCEPT !.format = r.kind]
    BY <1>5 DEF ApplyFieldTag
  <2>2. /\ IsSchema(t) /\ t.bounds = s.bounds /\ t.enum = s.enum /\ t.format = r.kind
        /\ t.nullable = s.nullable /\ t.json = s.json
    BY <2>1 DEF IsSchema
  <2> HIDE DEF t
  <2> QED
    BY <1>5, <2>2 DEF SameBound, Lower, Upper, t, low, high
<1>6. CASE r.kind \in {"required", "e164"}
  <2>1. t = s
    BY <1>6 DEF ApplyFieldTag
  <2> HIDE DEF t
  <2> QED
    BY <1>6, <2>1 DEF SameBound, Lower, Upper, t, low, high
<1> QED
  BY <1>1, <1>2, <1>3, <1>4, <1>5, <1>6 DEF RuleKinds

\* Before the next rule: the rules before this one, and this one if it is one of them.
LEMMA AmongNext ==
  ASSUME NEW n \in Nat \ {0}, NEW kinds
  PROVE  /\ Among(kinds, 1) = {}
         /\ rules[n].kind \in kinds => Among(kinds, n + 1) = Among(kinds, n) \cup {n}
         /\ rules[n].kind \notin kinds => Among(kinds, n + 1) = Among(kinds, n)
<1>1. 1 .. (n + 1 - 1) = (1 .. (n - 1)) \cup {n}
  OBVIOUS
<1> QED
  BY <1>1 DEF Among

\* A rule keeps what the schema tells of the rules before it, and adds itself.
LEMMA RuleTells ==
  ASSUME NEW s, IsSchema(s), NEW n \in Nat \ {0}, rules[n].kind \in RuleKinds, Tells(s, n)
  PROVE  Tells(ApplyFieldTag(s, rules[n]), n + 1)
<1> DEFINE r == rules[n]
           t == ApplyFieldTag(s, r)
           low == LowerKeyword(type.kind)
           high == UpperKeyword(type.kind)
<1>1. /\ t.nullable = s.nullable /\ t.json = s.json
      /\ IF r.kind \in Lower THEN low \in DOMAIN t.bounds /\ t.bounds[low] = Stated(type.kind, r.n)
         ELSE SameBound(t, s, low)
      /\ IF r.kind \in Upper THEN high \in DOMAIN t.bounds /\ t.bounds[high] = Stated(type.kind, r.n)
         ELSE SameBound(t, s, high)
      /\ t.enum = IF r.kind = "oneof" THEN <<r.choices>> ELSE s.enum
      /\ t.format = IF r.kind \in {"email", "uuid"} THEN r.kind ELSE s.format
  BY RuleWrites
<1> HIDE DEF t, low, high
<1>2. Bounded(t, low, Lower, n + 1)
  <2>1. Bounded(s, low, Lower, n)
    BY DEF Tells, low
  <2>2. CASE r.kind \in Lower
    <3>1. n \in Among(Lower, n + 1)
      BY <2>2, AmongNext
    <3> QED
      BY <1>1, <2>2, <3>1 DEF Bounded
  <2>3. CASE r.kind \notin Lower
    <3>1. Among(Lower, n + 1) = Among(Lower, n)
      BY <2>3, AmongNext
    <3> QED
      BY <1>1, <2>1, <2>3, <3>1 DEF Bounded, SameBound
  <2> QED
    BY <2>2, <2>3
<1>3. Bounded(t, high, Upper, n + 1)
  <2>1. Bounded(s, high, Upper, n)
    BY DEF Tells, high
  <2>2. CASE r.kind \in Upper
    <3>1. n \in Among(Upper, n + 1)
      BY <2>2, AmongNext
    <3> QED
      BY <1>1, <2>2, <3>1 DEF Bounded
  <2>3. CASE r.kind \notin Upper
    <3>1. Among(Upper, n + 1) = Among(Upper, n)
      BY <2>3, AmongNext
    <3> QED
      BY <1>1, <2>1, <2>3, <3>1 DEF Bounded, SameBound
  <2> QED
    BY <2>2, <2>3
<1>4. Listed(t, n + 1)
  <2>1. Listed(s, n)
    BY DEF Tells
  <2>2. CASE r.kind = "oneof"
    <3>1. n \in Among({"oneof"}, n + 1)
      BY <2>2, AmongNext
    <3> QED
      BY <1>1, <2>2, <3>1 DEF Listed
  <2>3. CASE r.kind # "oneof"
    <3>1. Among({"oneof"}, n + 1) = Among({"oneof"}, n)
      BY <2>3, AmongNext
    <3> QED
      BY <1>1, <2>1, <2>3, <3>1 DEF Listed
  <2> QED
    BY <2>2, <2>3
<1>5. Formatted(t, n + 1)
  <2>1. Formatted(s, n)
    BY DEF Tells
  <2>2. CASE r.kind \in {"email", "uuid"}
    <3>1. n \in Among({"email", "uuid"}, n + 1)
      BY <2>2, AmongNext
    <3> QED
      BY <1>1, <2>2, <3>1 DEF Formatted
  <2>3. CASE r.kind \notin {"email", "uuid"}
    <3>1. Among({"email", "uuid"}, n + 1) = Among({"email", "uuid"}, n)
      BY <2>3, AmongNext
    <3> QED
      BY <1>1, <2>1, <2>3, <3>1 DEF Formatted
  <2> QED
    BY <2>2, <2>3
<1>6. s.nullable = (type.pointers = 1) /\ s.json = SchemaFor(type).json
  BY DEF Tells
<1> QED
  BY <1>1, <1>2, <1>3, <1>4, <1>5, <1>6 DEF Tells, low, high, t

LEMMA SchemaOfFields ==
  ASSUME NEW t, NEW json
  PROVE  /\ IsSchema(SchemaOf(t, json)) /\ SchemaOf(t, json).json = json
         /\ SchemaOf(t, json).nullable = (t.pointers = 1)
         /\ SchemaOf(t, json).enum = <<>> /\ SchemaOf(t, json).format = "none"
         /\ t.described # "kind" => DOMAIN SchemaOf(t, json).bounds = {}
<1> DEFINE b == IF t.pointers > 0 \/ t.described # "kind" THEN [k \in {} |-> 0]
                ELSE CASE t.kind = "uint" -> [k \in {"minimum"} |-> 0]
                       [] t.kind = "array" -> [k \in {"minItems", "maxItems"} |-> ArrayLen]
                       [] OTHER -> [k \in {} |-> 0]
<1>1. SchemaOf(t, json) =
        [json |-> json, bounds |-> b, enum |-> <<>>, format |-> "none", nullable |-> t.pointers = 1]
  BY DEF SchemaOf
<1>2. t.described # "kind" => b = [k \in {} |-> 0]
  OBVIOUS
<1>3. t.described # "kind" => DOMAIN b = {}
  BY <1>2
<1> HIDE DEF b
<1> QED
  BY <1>1, <1>3 DEF IsSchema

\* The schema of the type alone tells of no rules.
LEMMA TypeTells == IsSchema(SchemaFor(type)) /\ Tells(SchemaFor(type), 1)
<1>1. \A kinds : Among(kinds, 1) = {}
  BY AmongNext
<1>2. /\ IsSchema(SchemaFor(type)) /\ SchemaFor(type).nullable = (type.pointers = 1)
      /\ SchemaFor(type).enum = <<>> /\ SchemaFor(type).format = "none"
  BY SchemaOfFields DEF SchemaFor
<1> HIDE DEF SchemaFor
<1> QED
  BY <1>1, <1>2 DEF Tells, Bounded, Listed, Formatted

---------------------------------------------------------------------------
(* Every step keeps the invariant. *)

\* What is told of a schema depends on the type and the rules alone.
LEMMA TellsKept ==
  ASSUME UNCHANGED <<type, rules>>, NEW s, NEW n
  PROVE  (Tells(s, n)' <=> Tells(s, n)) /\ (Documented(s, n)' <=> Documented(s, n))
BY DEF Documented, Tells, Bounded, Listed, Formatted, Among

\* And a judgement on the type and the value.
LEMMA JudgementKept ==
  ASSUME UNCHANGED <<type, value>>, NEW r
  PROVE  ValidateRule(r)' <=> ValidateRule(r)
BY DEF ValidateRule, IsZero, IsNil, Nillable, Measure, Size, Prints, Got

LEMMA RuleRange ==
  ASSUME rules \in Seq(Menu)
  PROVE  /\ Len(rules) \in Nat /\ DOMAIN rules = 1 .. Len(rules)
         /\ \A i \in DOMAIN rules : rules[i] \in Menu /\ rules[i] \in RuleType
BY LenProperties, ElementOfSeq, RulesAssumption

\* A rule that was not refused is of a kind that has a meaning.
LEMMA RuleMeans ==
  ASSUME Parsed, NEW i \in DOMAIN rules
  PROVE  rules[i].kind \in RuleKinds
<1>1. rules[i] \in RuleType /\ ~RefusesRule(rules[i])
  BY RuleRange DEF Parsed
<1> QED
  BY <1>1 DEF RuleType, RefusesRule

LEMMA InitHolds == Init => Inductive
<1> SUFFICES ASSUME Init
             PROVE  Inductive
  OBVIOUS
<1>1. rules \in Seq(Menu) /\ DOMAIN rules = {}
  BY EmptySeq DEF Init
<1>2. IsSchema(schema)
  BY TypeTells DEF Init
<1> QED
  BY <1>1, <1>2 DEF Init, Inductive, Parsed, Described, Judged

LEMMA ParseRuleKeeps ==
  ASSUME Inductive, ParseRule
  PROVE  Inductive'
<1>1. PICK r \in Menu : ~RefusesRule(r) /\ rules' = Append(rules, r)
  BY DEF ParseRule
<1>2. phase = "parse" /\ UNCHANGED <<type, phase, at, schema, value, failed>>
  BY DEF ParseRule
<1>3. rules \in Seq(Menu) /\ \A i \in DOMAIN rules : ~RefusesRule(rules[i])
  BY DEF Inductive, Parsed
<1>4. /\ rules' \in Seq(Menu) /\ Len(rules') = Len(rules) + 1
      /\ \A i \in 1 .. Len(rules) : rules'[i] = rules[i]
      /\ rules'[Len(rules) + 1] = r
  BY <1>1, <1>3, AppendProperties
<1>5. /\ Len(rules) \in Nat /\ DOMAIN rules = 1 .. Len(rules) /\ DOMAIN rules' = 1 .. Len(rules')
  BY <1>3, <1>4, LenProperties
<1>6. ASSUME NEW i \in DOMAIN rules'
      PROVE  ~RefusesRule(rules'[i])
  <2>1. i \in DOMAIN rules \/ i = Len(rules) + 1
    BY <1>4, <1>5, <1>6
  <2> QED
    BY <1>1, <1>3, <1>4, <1>5, <2>1
<1>7. Parsed'
  <2>1. \A i \in DOMAIN rules' : ~(RefusesRule(rules[i])')
    BY <1>2, <1>6 DEF RefusesRule
  <2> QED
    BY <1>2, <1>4, <2>1 DEF Inductive, Parsed
<1> QED
  BY <1>2, <1>7 DEF Inductive, Described, Judged

\* Steps that leave the type and the rules alone.
LEMMA ParsedKept ==
  ASSUME Parsed, UNCHANGED <<type, rules>>, at' \in Nat,
         phase' \in {"parse", "refused", "document", "documented", "check", "checked"}
  PROVE  Parsed'
BY DEF Parsed, RefusesRule

LEMMA RefuseRuleKeeps ==
  ASSUME Inductive, RefuseRule
  PROVE  Inductive'
<1>1. phase = "parse" /\ phase' = "refused" /\ UNCHANGED <<type, rules, at, schema, value, failed>>
  BY DEF RefuseRule
<1>2. Parsed'
  BY <1>1, ParsedKept DEF Inductive, Parsed
<1> QED
  BY <1>1, <1>2 DEF Inductive, Described, Judged

LEMMA DescribeKeeps ==
  ASSUME Inductive, Describe
  PROVE  Inductive'
<1>1. /\ phase = "parse" /\ phase' = "document" /\ at' = 1 /\ schema' = SchemaFor(type)
      /\ UNCHANGED <<type, rules, value, failed>>
  BY DEF Describe
<1>2. Parsed'
  BY <1>1, ParsedKept DEF Inductive
<1>3. IsSchema(schema') /\ Tells(schema', 1)
  BY <1>1, TypeTells
<1>4. 1 \in 1 .. (Len(rules) + 1)
  BY RuleRange DEF Inductive, Parsed
<1>5. Described'
  BY <1>1, <1>3, <1>4, TellsKept DEF Described, IsSchema
<1> QED
  BY <1>1, <1>2, <1>5 DEF Inductive, Judged

LEMMA ApplyTagKeeps ==
  ASSUME Inductive, ApplyTag
  PROVE  Inductive'
<1>1. /\ phase = "document" /\ at <= Len(rules) /\ at' = at + 1
      /\ schema' = ApplyFieldTag(schema, rules[at])
      /\ UNCHANGED <<type, rules, phase, value, failed>>
  BY DEF ApplyTag
<1>2. /\ at \in Nat \ {0} /\ IsSchema(schema) /\ Tells(schema, at) /\ Parsed
      /\ Len(rules) \in Nat /\ DOMAIN rules = 1 .. Len(rules)
  BY <1>1, RuleRange DEF Inductive, Described, Parsed
<1>3. at \in DOMAIN rules /\ at' \in 1 .. (Len(rules) + 1) /\ at' \in Nat
  BY <1>1, <1>2
<1>4. rules[at].kind \in RuleKinds
  BY <1>2, <1>3, RuleMeans
<1>5. IsSchema(schema') /\ Tells(schema', at')
  BY <1>1, <1>2, <1>4, RuleWrites, RuleTells
<1>6. Parsed'
  BY <1>1, <1>2, <1>3, ParsedKept DEF Parsed
<1>7. Described'
  BY <1>1, <1>3, <1>5, TellsKept DEF Described, IsSchema
<1> QED
  BY <1>1, <1>6, <1>7 DEF Inductive, Judged

\* Quoting leaves the set of values and the null branch.
LEMMA QuotedKeeps ==
  ASSUME NEW s, IsSchema(s), NEW n, Tells(s, n)
  PROVE  LET t == IF type.quoted THEN ApplyQuoted(s) ELSE s
         IN IsSchema(t) /\ Documented(t, n)
<1> DEFINE t == ApplyQuoted(s)
<1>1. IsSchema(t) /\ t.enum = s.enum /\ t.nullable = s.nullable /\ t.format = "none" /\ t.json = "string"
  <2> DEFINE b == [k \in {} |-> 0]
  <2>1. t = [s EXCEPT !.json = "string", !.bounds = b, !.format = "none"]
    BY DEF ApplyQuoted
  <2> HIDE DEF b, t
  <2> QED
    BY <2>1 DEF IsSchema
<1> HIDE DEF t
<1>2. CASE type.quoted
  <2>1. Listed(t, n)
    BY <1>1 DEF Tells, Listed
  <2> QED
    BY <1>1, <1>2, <2>1 DEF Tells, Documented, t
<1>3. CASE ~type.quoted
  BY <1>3 DEF Documented
<1> QED
  BY <1>2, <1>3

LEMMA FinishKeeps ==
  ASSUME Inductive, Finish
  PROVE  Inductive'
<1>1. /\ phase = "document" /\ at > Len(rules) /\ phase' = "documented"
      /\ schema' = (IF type.quoted THEN ApplyQuoted(schema) ELSE schema)
      /\ UNCHANGED <<type, rules, at, value, failed>>
  BY DEF Finish
<1>2. at = Len(rules) + 1 /\ IsSchema(schema) /\ Tells(schema, at) /\ at \in Nat
  BY <1>1, RuleRange DEF Inductive, Described, Parsed
<1>3. IsSchema(schema') /\ Documented(schema', Len(rules) + 1)
  BY <1>1, <1>2, QuotedKeeps
<1>4. Parsed'
  BY <1>1, <1>2, ParsedKept DEF Inductive
<1>5. Described'
  BY <1>1, <1>3, TellsKept DEF Described, IsSchema
<1> QED
  BY <1>1, <1>4, <1>5 DEF Inductive, Judged

\* From here on the schema stays what it is.
LEMMA DocumentedKept ==
  ASSUME Described, phase \in {"documented", "check", "checked"},
         phase' \in {"check", "checked"}, UNCHANGED <<type, rules, schema>>
  PROVE  Described'
BY TellsKept DEF Described, IsSchema

LEMMA ReceiveKeeps ==
  ASSUME Inductive, Receive
  PROVE  Inductive'
<1>1. /\ phase = "documented" /\ phase' = "check" /\ at' = 1
      /\ UNCHANGED <<type, rules, schema, failed>>
  BY DEF Receive
<1>2. value' \in ValueType /\ Possible(value') /\ (value'.given # "value" => value'.id = 0)
  BY DEF Receive
<1>3. Parsed'
  BY <1>1, ParsedKept DEF Inductive
<1>4. Described'
  BY <1>1, DocumentedKept DEF Inductive
<1>5. 1 \in 1 .. (Len(rules) + 1) /\ 1 .. (1 - 1) = {}
  BY RuleRange DEF Inductive, Parsed
<1>6. Judged'
  <2>1. Possible(value)'
    BY <1>1, <1>2 DEF Possible
  <2>2. failed' = {}
    BY <1>1 DEF Inductive, Judged
  <2> QED
    BY <1>1, <1>2, <1>5, <2>1, <2>2 DEF Judged
<1> QED
  BY <1>3, <1>4, <1>6 DEF Inductive

\* The rules before the n-th that a value fails.
LEMMA CheckRuleKeeps ==
  ASSUME Inductive, CheckRule
  PROVE  Inductive'
<1>1. /\ phase = "check" /\ at <= Len(rules) /\ at' = at + 1
      /\ failed' = (IF ValidateRule(rules[at]) THEN failed \cup {at} ELSE failed)
      /\ UNCHANGED <<type, rules, phase, schema, value>>
  BY DEF CheckRule
<1>2. /\ Len(rules) \in Nat /\ at \in 1 .. (Len(rules) + 1)
      /\ failed = {i \in 1 .. (at - 1) : ValidateRule(rules[i])}
      /\ value \in ValueType /\ Possible(value) /\ (value.given # "value" => value.id = 0)
  BY <1>1, RuleRange DEF Inductive, Parsed, Judged
<1>3. at' \in Nat /\ at' \in 1 .. (Len(rules) + 1) /\ 1 .. (at' - 1) = (1 .. (at - 1)) \cup {at}
  BY <1>1, <1>2
<1>4. failed' = {i \in 1 .. (at' - 1) : ValidateRule(rules[i])}
  BY <1>1, <1>2, <1>3
<1>5. failed' = {i \in 1 .. (at' - 1) : ValidateRule(rules[i])'}
  BY <1>1, <1>4, JudgementKept
<1>6. Parsed'
  BY <1>1, <1>3, ParsedKept DEF Inductive, Parsed
<1>7. Described'
  BY <1>1, DocumentedKept DEF Inductive
<1>8. Judged'
  <2>1. Possible(value)'
    BY <1>1, <1>2 DEF Possible
  <2> QED
    BY <1>1, <1>2, <1>3, <1>5, <2>1 DEF Judged
<1> QED
  BY <1>6, <1>7, <1>8 DEF Inductive

LEMMA JudgedStays ==
  ASSUME Judged, Parsed, phase = "check" \/ phase = "checked", phase' = "checked",
         at = Len(rules) + 1, UNCHANGED <<type, rules, at, schema, value, failed>>
  PROVE  Judged'
<1>1. Possible(value)'
  BY DEF Possible, Judged
<1>2. failed' = {i \in 1 .. (at - 1) : ValidateRule(rules[i])'}
  BY JudgementKept DEF Judged
<1> QED
  BY <1>1, <1>2 DEF Judged

LEMMA CheckedKeeps ==
  ASSUME Inductive, Checked
  PROVE  Inductive'
<1>1. /\ phase = "check" /\ at > Len(rules) /\ phase' = "checked"
      /\ UNCHANGED <<type, rules, at, schema, value, failed>>
  BY DEF Checked
<1>2. at = Len(rules) + 1 /\ at \in Nat
  BY <1>1, RuleRange DEF Inductive, Judged, Parsed
<1>3. Parsed'
  BY <1>1, <1>2, ParsedKept DEF Inductive
<1>4. Described'
  BY <1>1, DocumentedKept DEF Inductive
<1>5. Judged'
  BY <1>1, <1>2, JudgedStays DEF Inductive
<1> QED
  BY <1>3, <1>4, <1>5 DEF Inductive

LEMMA StutterKeeps ==
  ASSUME Inductive, UNCHANGED vars
  PROVE  Inductive'
<1>1. UNCHANGED <<type, rules, phase, at, schema, value, failed>>
  BY DEF vars
<1>2. Parsed'
  BY <1>1, ParsedKept DEF Inductive, Parsed
<1>3. Described'
  BY <1>1, TellsKept DEF Inductive, Described, IsSchema
<1>4. Judged'
  <2>1. CASE phase \in {"check", "checked"}
    <3>1. Possible(value)'
      BY <1>1, <2>1 DEF Possible, Inductive, Judged
    <3>2. failed' = {i \in 1 .. (at - 1) : ValidateRule(rules[i])'}
      BY <1>1, <2>1, JudgementKept DEF Inductive, Judged
    <3> QED
      BY <1>1, <2>1, <3>1, <3>2 DEF Inductive, Judged
  <2>2. CASE phase \notin {"check", "checked"}
    BY <1>1, <2>2 DEF Inductive, Judged
  <2> QED
    BY <2>1, <2>2
<1> QED
  BY <1>2, <1>3, <1>4 DEF Inductive

LEMMA NextKeeps == Inductive /\ [Next]_vars => Inductive'
<1> SUFFICES ASSUME Inductive, [Next]_vars
             PROVE  Inductive'
  OBVIOUS
<1>1. CASE ParseRule
  BY <1>1, ParseRuleKeeps
<1>2. CASE RefuseRule
  BY <1>2, RefuseRuleKeeps
<1>3. CASE Describe
  BY <1>3, DescribeKeeps
<1>4. CASE ApplyTag
  BY <1>4, ApplyTagKeeps
<1>5. CASE Finish
  BY <1>5, FinishKeeps
<1>6. CASE Receive
  BY <1>6, ReceiveKeeps
<1>7. CASE CheckRule
  BY <1>7, CheckRuleKeeps
<1>8. CASE Checked
  BY <1>8, CheckedKeeps
<1>9. CASE Rest \/ UNCHANGED vars
  BY <1>9, StutterKeeps DEF Rest
<1> QED
  BY <1>1, <1>2, <1>3, <1>4, <1>5, <1>6, <1>7, <1>8, <1>9 DEF Next

---------------------------------------------------------------------------
(* What a checked value tells. *)

LEMMA AmongAll ==
  ASSUME rules \in Seq(Menu), NEW kinds
  PROVE  Among(kinds, Len(rules) + 1) = {i \in DOMAIN rules : rules[i].kind \in kinds}
<1>1. 1 .. (Len(rules) + 1 - 1) = DOMAIN rules
  BY RuleRange
<1> QED
  BY <1>1 DEF Among

\* At most one of them is any two the same.
LEMMA AtMostOne ==
  ASSUME NEW S, IsFiniteSet(S), ~(Cardinality(S) > 1), NEW i \in S, NEW j \in S
  PROVE  i = j
<1> SUFFICES ASSUME i # j
             PROVE  FALSE
  OBVIOUS
<1>1. IsFiniteSet({i}) /\ Cardinality({i}) = 1
  BY FS_Singleton
<1>2. IsFiniteSet({i} \cup {j}) /\ Cardinality({i} \cup {j}) = 1 + 1
  BY <1>1, FS_AddElement
<1>3. Cardinality({i} \cup {j}) <= Cardinality(S)
  BY FS_Subset
<1>4. Cardinality(S) \in Nat
  BY FS_CardinalityType
<1> QED
  BY <1>2, <1>3, <1>4

LEMMA NotRepeated ==
  ASSUME rules \in Seq(Menu), ~Repeated
  PROVE  /\ \A i, j \in Among(Lower, Len(rules) + 1) : i = j
         /\ \A i, j \in Among(Upper, Len(rules) + 1) : i = j
         /\ \A i, j \in Among({"oneof"}, Len(rules) + 1) : i = j
         /\ \A i, j \in Among({"email", "uuid"}, Len(rules) + 1) : rules[i].kind = rules[j].kind
         /\ type.kind = "array" => \A i \in DOMAIN rules : rules[i].kind \notin {"min", "max", "len"}
<1>1. Len(rules) \in Nat /\ DOMAIN rules = 1 .. Len(rules) /\ IsFiniteSet(DOMAIN rules)
  BY RuleRange, FS_Interval
<1>2. /\ Bounding({"min", "gte"}) = Among(Lower, Len(rules) + 1)
      /\ Bounding({"max", "lte"}) = Among(Upper, Len(rules) + 1)
  BY AmongAll DEF Bounding, Lower, Upper
<1>3. \A kinds : IsFiniteSet(Among(kinds, Len(rules) + 1))
  BY <1>1, AmongAll, FS_Subset
<1>4. /\ \A i, j \in Among(Lower, Len(rules) + 1) : i = j
      /\ \A i, j \in Among(Upper, Len(rules) + 1) : i = j
  BY <1>2, <1>3, AtMostOne DEF Repeated
<1>5. ASSUME NEW i \in Among({"oneof"}, Len(rules) + 1), NEW j \in Among({"oneof"}, Len(rules) + 1)
      PROVE  i = j
  <2>1. i \in DOMAIN rules /\ j \in DOMAIN rules /\ rules[i].kind = "oneof" /\ rules[j].kind = "oneof"
    BY AmongAll
  <2>2. ~(i < j) /\ ~(j < i)
    BY <2>1 DEF Repeated
  <2> QED
    BY <1>1, <2>1, <2>2
<1>6. ASSUME NEW i \in Among({"email", "uuid"}, Len(rules) + 1),
             NEW j \in Among({"email", "uuid"}, Len(rules) + 1)
      PROVE  rules[i].kind = rules[j].kind
  <2>1. /\ i \in DOMAIN rules /\ j \in DOMAIN rules
        /\ rules[i].kind \in {"email", "uuid"} /\ rules[j].kind \in {"email", "uuid"}
    BY AmongAll
  <2> QED
    BY <2>1 DEF Repeated, Has
<1>7. type.kind = "array" => \A i \in DOMAIN rules : rules[i].kind \notin {"min", "max", "len"}
  BY DEF Repeated, Has
<1> QED
  BY <1>4, <1>5, <1>6, <1>7

\* The facts of a finished check.
LEMMA CheckedFacts ==
  ASSUME Inductive, phase = "checked"
  PROVE  /\ Parsed /\ rules \in Seq(Menu) /\ type \in TypeType
         /\ Documented(schema, Len(rules) + 1)
         /\ value.given \in {"absent", "null", "value"} /\ value.id \in Ids /\ value.id \in Int
         /\ Got \in Int
         /\ Possible(value) /\ (value.given # "value" => value.id = 0)
         /\ failed = {} <=> \A i \in DOMAIN rules : ~ValidateRule(rules[i])
<1>1. /\ at = Len(rules) + 1 /\ failed = {i \in 1 .. (at - 1) : ValidateRule(rules[i])}
      /\ value \in ValueType /\ Possible(value) /\ (value.given # "value" => value.id = 0)
      /\ Documented(schema, Len(rules) + 1) /\ Parsed
  BY DEF Inductive, Described, Judged
<1>2. rules \in Seq(Menu) /\ type \in FieldTypes
  BY <1>1 DEF Parsed
<1>3. 1 .. (at - 1) = DOMAIN rules
  BY <1>1, <1>2, RuleRange
<1>4. value.id \in Ids /\ value.id \in Int /\ type \in TypeType
  BY <1>1, <1>2, RulesAssumption DEF ValueType
<1>5. Got \in Int
  BY <1>4, RulesAssumption DEF Got
<1> QED
  BY <1>1, <1>2, <1>3, <1>4, <1>5 DEF ValueType

\* A property that is left out.
LEMMA AbsentAgrees ==
  ASSUME Inductive, phase = "checked", value.given = "absent"
  PROVE  /\ ~ZeroForNothing => (SchemaAccepts <=> failed = {})
         /\ failed = {} => SchemaAccepts
<1>1. /\ value.id = 0
      /\ failed = {} <=> \A i \in DOMAIN rules : ~ValidateRule(rules[i])
  BY CheckedFacts
<1>2. SchemaAccepts <=> ~Has("required")
  BY DEF SchemaAccepts
<1>3. IsZero
  BY <1>1 DEF IsZero, IsNil, Got
<1>4. \A i \in DOMAIN rules : rules[i].kind = "required" => ValidateRule(rules[i])
  BY <1>3 DEF ValidateRule
<1>5. Nillable => \A i \in DOMAIN rules : rules[i].kind # "required" => ~ValidateRule(rules[i])
  BY DEF ValidateRule, IsNil
<1>6. ~ZeroForNothing => Nillable
  BY DEF ZeroForNothing
<1> QED
  BY <1>1, <1>2, <1>4, <1>5, <1>6 DEF Has

\* null, for a pointer.
LEMMA NullAgrees ==
  ASSUME Inductive, phase = "checked", value.given = "null", ~ZeroForNothing
  PROVE  SchemaAccepts /\ failed = {}
<1>1. /\ Documented(schema, Len(rules) + 1) /\ rules \in Seq(Menu)
      /\ failed = {} <=> \A i \in DOMAIN rules : ~ValidateRule(rules[i])
  BY CheckedFacts
<1>2. type.pointers = 1 /\ ~Has("required") /\ (~Has("oneof") \/ type.quoted)
  BY DEF ZeroForNothing
<1>3. failed = {}
  BY <1>1, <1>2 DEF ValidateRule, Has, IsNil, Nillable
<1>4. schema.nullable /\ Listed(schema, Len(rules) + 1)
  BY <1>1, <1>2 DEF Documented, Tells
<1>5. ~Has("oneof") => schema.enum = <<>>
  BY <1>1, <1>4, AmongAll DEF Listed, Has
<1>6. SchemaAccepts
  BY <1>2, <1>4, <1>5 DEF SchemaAccepts
<1> QED
  BY <1>3, <1>6

---------------------------------------------------------------------------
(* A value that is given. *)

\* The schema is of the JSON type that the value has on the wire.
LEMMA WellDescribed ==
  ASSUME Inductive, phase = "checked", value.given = "value", ~Misdescribed
  PROVE  /\ schema.json = IF type.quoted THEN "string" ELSE Carried
         /\ schema.json # "provided"
         /\ type.reads # "kind" /\ ~type.quoted => type.described = "text"
<1>1. type \in TypeType /\ Documented(schema, Len(rules) + 1)
  BY CheckedFacts
<1>2. type.described \in {"kind", "text", "provided"}
  BY <1>1 DEF TypeType
<1>3. CASE type.quoted
  BY <1>1, <1>3 DEF Documented
<1>4. CASE ~type.quoted
  <2>1. schema.json = SchemaFor(type).json
    BY <1>1, <1>4 DEF Documented, Tells
  <2>2. CASE type.described = "kind"
    <3>1. schema.json = JSONOf(type.kind) /\ Carried = JSONOf(type.kind) /\ type.reads = "kind"
      BY <1>4, <2>1, <2>2 DEF SchemaFor, SchemaOf, Misdescribed, Carried
    <3>2. JSONOf(type.kind) # "provided"
      BY DEF JSONOf
    <3> QED
      BY <1>4, <3>1, <3>2
  <2>3. CASE type.described = "text"
    <3>1. schema.json = "string" /\ Carried = "string"
      BY <1>4, <2>1, <2>3 DEF SchemaFor, SchemaOf, Misdescribed
    <3> QED
      BY <1>4, <2>3, <3>1
  <2> QED
    BY <1>2, <1>4, <2>2, <2>3 DEF Misdescribed
<1> QED
  BY <1>3, <1>4

\* Without a method of the type's own, the field holds what was sent.
LEMMA ReadByKind ==
  ASSUME type.reads = "kind"
  PROVE  /\ Got = value.id /\ Carried = JSONOf(type.kind)
         /\ value.given = "value" => ~IsNil
BY DEF Got, Carried, IsNil

\* What a keyword and a rule compare is the same size; without rounding, the same
\* number too.
LEMMA SizesAgree ==
  ASSUME Inductive, phase = "checked", value.given = "value", type.reads = "kind",
         type.kind = "array" => value.id = ArrayLen
  PROVE  /\ Size \in Int
         /\ SizeFor(LowerKeyword(type.kind)) = Size /\ SizeFor(UpperKeyword(type.kind)) = Size
<1>1. /\ type.kind \in Kinds /\ value.id \in Ids /\ value.id \in Int /\ Possible(value)
      /\ Got = value.id
  BY CheckedFacts, ReadByKind DEF TypeType
<1>2. type.kind = "string" => Length[value.id] \in Int
  <2>1. type.kind = "string" => value.id >= 0
    BY <1>1 DEF Possible, Fits
  <2> QED
    BY <1>1, <2>1, RulesAssumption
<1>3. type.kind = "array" => ArrayLen \in Int
  BY RulesAssumption
<1>4. Size \in Int
  BY <1>1, <1>2, <1>3 DEF Size
<1>5. CASE type.kind = "string"
  <2>1. LowerKeyword(type.kind) = "minLength" /\ UpperKeyword(type.kind) = "maxLength"
    BY <1>5 DEF LowerKeyword, UpperKeyword
  <2>2. Size = Length[value.id]
    BY <1>1, <1>5 DEF Size
  <2> QED
    BY <1>4, <2>1, <2>2 DEF SizeFor
<1>6. CASE type.kind = "array"
  <2>1. LowerKeyword(type.kind) = "minItems" /\ UpperKeyword(type.kind) = "maxItems"
    BY <1>6 DEF LowerKeyword, UpperKeyword
  <2>2. Size = ArrayLen
    BY <1>6 DEF Size
  <2>3. SizeFor("minItems") = value.id /\ SizeFor("maxItems") = value.id
    BY DEF SizeFor
  <2> QED
    BY <1>4, <1>6, <2>1, <2>2, <2>3
<1>7. CASE type.kind \notin {"string", "array"}
  <2>1. Size = value.id
    BY <1>1, <1>7 DEF Size
  <2>2. /\ LowerKeyword(type.kind) \notin {"minLength", "maxLength"}
        /\ UpperKeyword(type.kind) \notin {"minLength", "maxLength"}
    BY <1>7 DEF LowerKeyword, UpperKeyword
  <2> QED
    BY <1>4, <2>1, <2>2 DEF SizeFor
<1> QED
  BY <1>4, <1>5, <1>6, <1>7

LEMMA ExactNumbers ==
  ASSUME Inductive, phase = "checked", ~Inexact
  PROVE  /\ Measure = Size
         /\ \A i \in DOMAIN rules : /\ rules[i].n \in Int /\ Float(rules[i].n) = rules[i].n
                                     /\ Stated(type.kind, rules[i].n) = rules[i].n
<1>1. rules \in Seq(Menu)
  BY CheckedFacts
<1>2. \A i \in DOMAIN rules : rules[i].n \in Int
  BY <1>1, RuleRange DEF RuleType
<1> QED
  BY <1>2 DEF Inexact, Stated

\* Which values a rule refuses.
LEMMA RuleRefuses ==
  ASSUME Inductive, phase = "checked", value.given = "value", type.reads = "kind", ~Inexact,
         NEW i \in DOMAIN rules
  PROVE  ValidateRule(rules[i]) <=>
           \/ rules[i].kind = "required" /\ IsZero
           \/ rules[i].kind \in {"min", "gte"} /\ Size < rules[i].n
           \/ rules[i].kind \in {"max", "lte"} /\ Size > rules[i].n
           \/ rules[i].kind = "len" /\ Size # rules[i].n
           \/ /\ rules[i].kind \in {"email", "uuid", "e164"}
              /\ rules[i].kind \notin Formats[value.id]
           \/ rules[i].kind = "oneof" /\ ~Prints(rules[i].choices)
<1>1. Measure = Size /\ Float(rules[i].n) = rules[i].n
  BY ExactNumbers
<1>2. ~IsNil /\ Got = value.id
  BY ReadByKind
<1>3. rules[i].kind \in RuleKinds
  BY CheckedFacts, RuleMeans
<1> DEFINE r == rules[i]
<1> HIDE DEF r
<1>4. CASE rules[i].kind = "required"
  BY <1>4 DEF ValidateRule
<1>5. CASE rules[i].kind \in {"min", "gte"}
  BY <1>1, <1>2, <1>5 DEF ValidateRule
<1>6. CASE rules[i].kind \in {"max", "lte"}
  BY <1>1, <1>2, <1>6 DEF ValidateRule
<1>7. CASE rules[i].kind = "len"
  BY <1>1, <1>2, <1>7 DEF ValidateRule
<1>8. CASE rules[i].kind \in {"email", "uuid", "e164"}
  BY <1>2, <1>8 DEF ValidateRule
<1>9. CASE rules[i].kind = "oneof"
  BY <1>2, <1>9 DEF ValidateRule
<1> QED
  BY <1>3, <1>4, <1>5, <1>6, <1>7, <1>8, <1>9 DEF RuleKinds

\* The keywords a type is born with hold of all its values.
LEMMA TypeBounds ==
  ASSUME Inductive, phase = "checked", value.given = "value", type.reads = "kind",
         type.kind = "array" => value.id = ArrayLen
  PROVE  LET low == LowerKeyword(type.kind)
             high == UpperKeyword(type.kind)
             given == SchemaFor(type).bounds
         IN /\ low \in DOMAIN given => given[low] \in Int /\ Size >= given[low]
            /\ high \in DOMAIN given => given[high] \in Int /\ Size <= given[high]
<1>1. /\ type.kind \in Kinds /\ value.id \in Int /\ Possible(value) /\ ArrayLen \in Int
      /\ Got = value.id
  BY CheckedFacts, ReadByKind, RulesAssumption DEF TypeType
<1>2. CASE type.kind = "uint"
  <2>1. Size = value.id /\ value.id >= 0
    BY <1>1, <1>2 DEF Size, Possible, Fits
  <2> QED
    BY <1>1, <1>2, <2>1 DEF SchemaFor, SchemaOf, LowerKeyword, UpperKeyword
<1>3. CASE type.kind = "array"
  <2>1. Size = ArrayLen
    BY <1>3 DEF Size
  <2> QED
    BY <1>1, <1>3, <2>1 DEF SchemaFor, SchemaOf, LowerKeyword, UpperKeyword
<1>4. CASE type.kind \notin {"uint", "array"}
  BY <1>4 DEF SchemaFor, SchemaOf
<1> QED
  BY <1>2, <1>3, <1>4

IsLower(keyword) == keyword \in {"minLength", "minItems", "minProperties", "minimum"}

LEMMA KeywordSides ==
  ASSUME NEW kind
  PROVE  IsLower(LowerKeyword(kind)) /\ ~IsLower(UpperKeyword(kind))
BY DEF IsLower, LowerKeyword, UpperKeyword

FormatFits == /\ schema.format \in Formats[value.id]
              /\ schema.format = "email" => value.id \notin Spaced

\* What the schema asks of a given value.
LEMMA AcceptsGiven ==
  ASSUME Inductive, phase = "checked", value.given = "value", type.reads = "kind", ~Misdescribed,
         type.kind = "array" => value.id = ArrayLen
  PROVE  LET low == LowerKeyword(type.kind)
             high == UpperKeyword(type.kind)
         IN SchemaAccepts <=>
              /\ ~type.quoted /\ low \in DOMAIN schema.bounds => Size >= schema.bounds[low]
              /\ ~type.quoted /\ high \in DOMAIN schema.bounds => Size <= schema.bounds[high]
              /\ schema.enum # <<>> => value.id \in schema.enum[1]
              /\ schema.format # "none" /\ type.kind = "string" => FormatFits
<1> DEFINE low == LowerKeyword(type.kind)
           high == UpperKeyword(type.kind)
<1>1. SizeFor(low) = Size /\ SizeFor(high) = Size
  BY SizesAgree
<1>2. IsLower(low) /\ ~IsLower(high)
  BY KeywordSides
<1>3. Carried = JSONOf(type.kind) /\ (Carried = "string" <=> type.kind = "string")
  <2>1. type.kind \in Kinds
    BY CheckedFacts DEF TypeType
  <2> QED
    BY <2>1, ReadByKind DEF JSONOf, Kinds, Scalar, Numeric
<1>4. SchemaAccepts <=>
        /\ \A k \in {k \in DOMAIN schema.bounds : Applies(k)} :
             IF IsLower(k) THEN SizeFor(k) >= schema.bounds[k] ELSE SizeFor(k) <= schema.bounds[k]
        /\ schema.enum # <<>> => value.id \in schema.enum[1]
        /\ schema.format # "none" /\ type.kind = "string" => FormatFits
  BY <1>3, WellDescribed DEF SchemaAccepts, IsLower, FormatFits
<1>5. \A k : Applies(k) <=> ~type.quoted /\ (k = low \/ k = high)
  BY <1>3 DEF Applies
<1> HIDE DEF low, high
<1>6. (\A k \in {k \in DOMAIN schema.bounds : Applies(k)} :
        IF IsLower(k) THEN SizeFor(k) >= schema.bounds[k] ELSE SizeFor(k) <= schema.bounds[k])
      <=> /\ ~type.quoted /\ low \in DOMAIN schema.bounds => Size >= schema.bounds[low]
          /\ ~type.quoted /\ high \in DOMAIN schema.bounds => Size <= schema.bounds[high]
  BY <1>1, <1>2, <1>5
<1> QED
  BY <1>4, <1>6 DEF low, high

\* The bound of the schema is the rule's, or the type's when no rule bounds that side.
LEMMA BoundsTold ==
  ASSUME Inductive, phase = "checked", value.given = "value", ~Inexact, ~type.quoted
  PROVE  LET low == LowerKeyword(type.kind)
             high == UpperKeyword(type.kind)
             given == SchemaFor(type).bounds
         IN /\ low \in DOMAIN schema.bounds =>
                 \/ low \in DOMAIN given /\ schema.bounds[low] = given[low]
                 \/ \E i \in DOMAIN rules : rules[i].kind \in Lower /\ schema.bounds[low] = rules[i].n
            /\ high \in DOMAIN schema.bounds =>
                 \/ high \in DOMAIN given /\ schema.bounds[high] = given[high]
                 \/ \E i \in DOMAIN rules : rules[i].kind \in Upper /\ schema.bounds[high] = rules[i].n
            /\ ~Repeated => \A i \in DOMAIN rules :
                 /\ rules[i].kind \in Lower => low \in DOMAIN schema.bounds /\ schema.bounds[low] = rules[i].n
                 /\ rules[i].kind \in Upper => high \in DOMAIN schema.bounds /\ schema.bounds[high] = rules[i].n
<1> DEFINE low == LowerKeyword(type.kind)
           high == UpperKeyword(type.kind)
           given == SchemaFor(type).bounds
           n == Len(rules) + 1
<1>1. rules \in Seq(Menu) /\ Bounded(schema, low, Lower, n) /\ Bounded(schema, high, Upper, n)
  BY CheckedFacts DEF Documented, Tells
<1>2. \A i \in DOMAIN rules : Stated(type.kind, rules[i].n) = rules[i].n
  BY ExactNumbers
<1>3. /\ Among(Lower, n) = {i \in DOMAIN rules : rules[i].kind \in Lower}
      /\ Among(Upper, n) = {i \in DOMAIN rules : rules[i].kind \in Upper}
  BY <1>1, AmongAll
<1>4. ~Repeated => /\ \A i, j \in Among(Lower, n) : i = j
                   /\ \A i, j \in Among(Upper, n) : i = j
  BY <1>1, NotRepeated
<1> HIDE DEF low, high, n
<1>5. low \in DOMAIN schema.bounds =>
        \/ low \in DOMAIN given /\ schema.bounds[low] = given[low]
        \/ \E i \in DOMAIN rules : rules[i].kind \in Lower /\ schema.bounds[low] = rules[i].n
  BY <1>1, <1>2, <1>3 DEF Bounded
<1>6. high \in DOMAIN schema.bounds =>
        \/ high \in DOMAIN given /\ schema.bounds[high] = given[high]
        \/ \E i \in DOMAIN rules : rules[i].kind \in Upper /\ schema.bounds[high] = rules[i].n
  BY <1>1, <1>2, <1>3 DEF Bounded
<1>7. ASSUME ~Repeated, NEW i \in DOMAIN rules
      PROVE  /\ rules[i].kind \in Lower => low \in DOMAIN schema.bounds /\ schema.bounds[low] = rules[i].n
             /\ rules[i].kind \in Upper => high \in DOMAIN schema.bounds /\ schema.bounds[high] = rules[i].n
  <2>1. ASSUME rules[i].kind \in Lower
        PROVE  low \in DOMAIN schema.bounds /\ schema.bounds[low] = rules[i].n
    <3>1. i \in Among(Lower, n)
      BY <1>3, <2>1
    <3>2. low \in DOMAIN schema.bounds /\ \E j \in Among(Lower, n) : schema.bounds[low] = Stated(type.kind, rules[j].n)
      BY <1>1, <3>1 DEF Bounded
    <3> QED
      BY <1>2, <1>4, <1>7, <3>1, <3>2
  <2>2. ASSUME rules[i].kind \in Upper
        PROVE  high \in DOMAIN schema.bounds /\ schema.bounds[high] = rules[i].n
    <3>1. i \in Among(Upper, n)
      BY <1>3, <2>2
    <3>2. high \in DOMAIN schema.bounds /\ \E j \in Among(Upper, n) : schema.bounds[high] = Stated(type.kind, rules[j].n)
      BY <1>1, <3>1 DEF Bounded
    <3> QED
      BY <1>2, <1>4, <1>7, <3>1, <3>2
  <2> QED
    BY <2>1, <2>2
<1> QED
  BY <1>5, <1>6, <1>7 DEF low, high

\* Likewise the values and the format.
LEMMA ListsTold ==
  ASSUME Inductive, phase = "checked"
  PROVE  /\ schema.enum # <<>> =>
              \E i \in DOMAIN rules : rules[i].kind = "oneof" /\ schema.enum = <<rules[i].choices>>
         /\ schema.format # "none" =>
              \E i \in DOMAIN rules : rules[i].kind \in {"email", "uuid"} /\ schema.format = rules[i].kind
         /\ ~Repeated => \A i \in DOMAIN rules :
              /\ rules[i].kind = "oneof" => schema.enum = <<rules[i].choices>>
              /\ rules[i].kind \in {"email", "uuid"} /\ ~type.quoted => schema.format = rules[i].kind
<1> DEFINE n == Len(rules) + 1
<1>1. /\ rules \in Seq(Menu) /\ Listed(schema, n)
      /\ IF type.quoted THEN schema.format = "none" ELSE Formatted(schema, n)
  BY CheckedFacts DEF Documented, Tells
<1>2. /\ Among({"oneof"}, n) = {i \in DOMAIN rules : rules[i].kind = "oneof"}
      /\ Among({"email", "uuid"}, n) = {i \in DOMAIN rules : rules[i].kind \in {"email", "uuid"}}
  BY <1>1, AmongAll
<1>3. ~Repeated => /\ \A i, j \in Among({"oneof"}, n) : i = j
                   /\ \A i, j \in Among({"email", "uuid"}, n) : rules[i].kind = rules[j].kind
  BY <1>1, NotRepeated
<1> HIDE DEF n
<1>4. schema.enum # <<>> =>
        \E i \in DOMAIN rules : rules[i].kind = "oneof" /\ schema.enum = <<rules[i].choices>>
  BY <1>1, <1>2 DEF Listed
<1>5. schema.format # "none" =>
        \E i \in DOMAIN rules : rules[i].kind \in {"email", "uuid"} /\ schema.format = rules[i].kind
  BY <1>1, <1>2 DEF Formatted
<1>6. ASSUME ~Repeated, NEW i \in DOMAIN rules, rules[i].kind = "oneof"
      PROVE  schema.enum = <<rules[i].choices>>
  <2>1. i \in Among({"oneof"}, n)
    BY <1>2, <1>6
  <2> QED
    BY <1>1, <1>3, <1>6, <2>1 DEF Listed
<1>7. ASSUME ~Repeated, NEW i \in DOMAIN rules, rules[i].kind \in {"email", "uuid"}, ~type.quoted
      PROVE  schema.format = rules[i].kind
  <2>1. i \in Among({"email", "uuid"}, n)
    BY <1>2, <1>7
  <2> QED
    BY <1>1, <1>3, <1>7, <2>1 DEF Formatted
<1> QED
  BY <1>4, <1>5, <1>6, <1>7

\* What the validation lets through, the schema accepts.
LEMMA PassedIsAccepted ==
  ASSUME Inductive, phase = "checked", value.given = "value", type.reads = "kind", failed = {},
         ~Looser, type.kind = "array" => value.id = ArrayLen
  PROVE  SchemaAccepts
<1> DEFINE low == LowerKeyword(type.kind)
           high == UpperKeyword(type.kind)
           given == SchemaFor(type).bounds
<1>0. ~Inexact /\ ~Misdescribed /\ ~SpacedEmail
  BY DEF Looser
<1>1. \A i \in DOMAIN rules : ~ValidateRule(rules[i])
  BY CheckedFacts
<1>2. Size \in Int /\ \A i \in DOMAIN rules : rules[i].n \in Int
  BY <1>0, SizesAgree, ExactNumbers
<1>3. /\ \A i \in DOMAIN rules : rules[i].kind \in Lower => Size >= rules[i].n
      /\ \A i \in DOMAIN rules : rules[i].kind \in Upper => Size <= rules[i].n
      /\ \A i \in DOMAIN rules : rules[i].kind \in {"email", "uuid"} => rules[i].kind \in Formats[value.id]
      /\ \A i \in DOMAIN rules : rules[i].kind = "oneof" => value.id \in rules[i].choices
  BY <1>0, <1>1, <1>2, RuleRefuses, ReadByKind DEF Lower, Upper, Prints
<1>4. /\ low \in DOMAIN given => Size >= given[low]
      /\ high \in DOMAIN given => Size <= given[high]
  BY TypeBounds
<1>5. ASSUME ~type.quoted
      PROVE  /\ low \in DOMAIN schema.bounds =>
                  \/ low \in DOMAIN given /\ schema.bounds[low] = given[low]
                  \/ \E i \in DOMAIN rules : rules[i].kind \in Lower /\ schema.bounds[low] = rules[i].n
             /\ high \in DOMAIN schema.bounds =>
                  \/ high \in DOMAIN given /\ schema.bounds[high] = given[high]
                  \/ \E i \in DOMAIN rules : rules[i].kind \in Upper /\ schema.bounds[high] = rules[i].n
  BY <1>0, <1>5, BoundsTold
<1>6. /\ schema.enum # <<>> => value.id \in schema.enum[1]
      /\ schema.format # "none" => FormatFits
  BY <1>0, <1>3, ListsTold DEF FormatFits, SpacedEmail, Has
<1>7. SchemaAccepts <=>
        /\ ~type.quoted /\ low \in DOMAIN schema.bounds => Size >= schema.bounds[low]
        /\ ~type.quoted /\ high \in DOMAIN schema.bounds => Size <= schema.bounds[high]
        /\ schema.enum # <<>> => value.id \in schema.enum[1]
        /\ schema.format # "none" /\ type.kind = "string" => FormatFits
  BY <1>0, AcceptsGiven
<1> HIDE DEF low, high, given
<1> QED
  BY <1>3, <1>4, <1>5, <1>6, <1>7

\* And outside the cases in which they differ, the other way round.
LEMMA AcceptedHasPassed ==
  ASSUME Inductive, phase = "checked", value.given = "value", type.reads = "kind",
         SchemaAccepts, ~Differs
  PROVE  failed = {}
<1> DEFINE low == LowerKeyword(type.kind)
           high == UpperKeyword(type.kind)
<1>1. /\ ~Repeated /\ ~Inexact /\ ~Undocumented /\ ~Misdescribed /\ ~ZeroForNothing
      /\ ~(type.stringer /\ Has("oneof"))
  BY DEF Differs, Looser
<1>2. /\ type.kind = "array" => value.id = ArrayLen
      /\ ~(Has("required") /\ IsZero)
  BY <1>1 DEF ZeroForNothing
<1>3. /\ ~type.quoted /\ low \in DOMAIN schema.bounds => Size >= schema.bounds[low]
      /\ ~type.quoted /\ high \in DOMAIN schema.bounds => Size <= schema.bounds[high]
      /\ schema.enum # <<>> => value.id \in schema.enum[1]
      /\ schema.format # "none" /\ type.kind = "string" => FormatFits
  BY <1>1, <1>2, AcceptsGiven
<1>4. Size \in Int /\ \A i \in DOMAIN rules : rules[i].n \in Int
  BY <1>1, <1>2, SizesAgree, ExactNumbers
<1>5. \A i \in DOMAIN rules : rules[i].kind \in RuleKinds
  BY CheckedFacts, RuleMeans
<1>6. ASSUME NEW i \in DOMAIN rules
      PROVE  ~ValidateRule(rules[i])
  <2>1. rules[i].kind = "required" => ~IsZero
    BY <1>2 DEF Has
  <2>2. rules[i].kind # "e164" /\ (type.quoted => rules[i].kind \in {"oneof", "required"})
    BY <1>1, <1>5 DEF Undocumented, Has
  <2>3. rules[i].kind \in Lower => Size >= rules[i].n
    <3>1. SUFFICES ASSUME rules[i].kind \in Lower
                   PROVE  Size >= rules[i].n
      OBVIOUS
    <3>2. ~type.quoted
      BY <2>2, <3>1 DEF Lower
    <3>3. low \in DOMAIN schema.bounds /\ schema.bounds[low] = rules[i].n
      BY <1>1, <3>1, <3>2, BoundsTold
    <3> QED
      BY <1>3, <3>2, <3>3
  <2>4. rules[i].kind \in Upper => Size <= rules[i].n
    <3>1. SUFFICES ASSUME rules[i].kind \in Upper
                   PROVE  Size <= rules[i].n
      OBVIOUS
    <3>2. ~type.quoted
      BY <2>2, <3>1 DEF Upper
    <3>3. high \in DOMAIN schema.bounds /\ schema.bounds[high] = rules[i].n
      BY <1>1, <3>1, <3>2, BoundsTold
    <3> QED
      BY <1>3, <3>2, <3>3
  <2>5. rules[i].kind \in {"email", "uuid"} => rules[i].kind \in Formats[value.id]
    <3>1. SUFFICES ASSUME rules[i].kind \in {"email", "uuid"}
                   PROVE  rules[i].kind \in Formats[value.id]
      OBVIOUS
    <3>2. ~type.quoted
      BY <2>2, <3>1
    <3>3. schema.format = rules[i].kind
      BY <1>1, <3>1, <3>2, ListsTold
    <3>4. type.kind = "string"
      BY <3>1, CheckedFacts DEF Parsed, RefusesRule
    <3> QED
      BY <1>3, <3>1, <3>3, <3>4 DEF FormatFits
  <2>6. rules[i].kind = "oneof" => Prints(rules[i].choices)
    <3>1. SUFFICES ASSUME rules[i].kind = "oneof"
                   PROVE  Prints(rules[i].choices)
      OBVIOUS
    <3>2. schema.enum = <<rules[i].choices>>
      BY <1>1, <3>1, ListsTold
    <3>3. value.id \in rules[i].choices
      BY <1>3, <3>2
    <3>4. ~type.stringer
      BY <1>1, <3>1 DEF Has
    <3> QED
      BY <3>3, <3>4, ReadByKind DEF Prints
  <2>7. /\ rules[i].kind \in {"min", "gte"} => ~(Size < rules[i].n)
        /\ rules[i].kind \in {"max", "lte"} => ~(Size > rules[i].n)
        /\ rules[i].kind = "len" => Size = rules[i].n
    BY <1>4, <2>3, <2>4 DEF Lower, Upper
  <2> QED
    BY <1>1, <2>1, <2>2, <2>5, <2>6, <2>7, RuleRefuses
<1> QED
  BY <1>6, CheckedFacts

\* A value that a method of the type's own reads, when no rule looks into it.
LEMMA ConvertedAgrees ==
  ASSUME Inductive, phase = "checked", value.given = "value", type.reads # "kind",
         ~Misdescribed, ~Converted
  PROVE  /\ SchemaAccepts
         /\ ~ZeroForNothing => failed = {}
<1>1. /\ rules \in Seq(Menu) /\ Documented(schema, Len(rules) + 1)
      /\ failed = {} <=> \A i \in DOMAIN rules : ~ValidateRule(rules[i])
  BY CheckedFacts
<1>2. \A i \in DOMAIN rules : rules[i].kind = "required"
  BY CheckedFacts, RuleMeans DEF Converted, Has
<1>3. ~ZeroForNothing => failed = {}
  BY <1>1, <1>2 DEF ZeroForNothing, ValidateRule, Has
<1>4. schema.enum = <<>> /\ schema.format = "none"
  BY <1>2, ListsTold
<1>5. ASSUME ~type.quoted, NEW k, Applies(k)
      PROVE  k \notin DOMAIN schema.bounds
  <2>1. \A kinds : "required" \notin kinds => Among(kinds, Len(rules) + 1) = {}
    BY <1>1, <1>2, AmongAll
  <2>2. k = LowerKeyword(type.kind) \/ k = UpperKeyword(type.kind)
    BY <1>5 DEF Applies
  <2>3. DOMAIN SchemaFor(type).bounds = {}
    BY <1>5, WellDescribed, SchemaOfFields DEF SchemaFor
  <2>4. Tells(schema, Len(rules) + 1)
    BY <1>1, <1>5 DEF Documented
  <2> QED
    BY <2>1, <2>2, <2>3, <2>4 DEF Tells, Bounded, Lower, Upper
<1>6. \A k \in DOMAIN schema.bounds : ~Applies(k)
  BY <1>5 DEF Applies
<1> QED
  BY <1>3, <1>4, <1>6, WellDescribed DEF SchemaAccepts

---------------------------------------------------------------------------
(* The theorems. *)

\* The inductive invariant: what the schema tells of the rules applied so far,
\* and the rules a value has failed so far.
THEOREM RulesInvariant == Spec => []Inductive
<1>1. Init => Inductive
  BY InitHolds
<1>2. Inductive /\ [Next]_vars => Inductive'
  BY NextKeeps
<1> QED
  BY <1>1, <1>2, PTL DEF Spec

\* The schema of a property and its validation accept the same values, for every
\* kind of type, all rules in any order and any float64 precision, but for the cases
\* that Differs names.  Among these is nearly all of a type with a schema or a JSON
\* form of its own: of a SchemaProvider that is not quoted nothing is claimed for a
\* value that is sent, of a TextMarshaler whose JSON is not a string neither, and of
\* a type that reads itself only that `required` agrees (reflector.go, tags.go, rules.go).
THEOREM RulesAlwaysAgree == Spec => []RulesAgree
<1>1. Inductive => RulesAgree
  <2> SUFFICES ASSUME Inductive, phase = "checked"
               PROVE  /\ ~Differs => (SchemaAccepts <=> failed = {})
                      /\ failed = {} /\ ~Looser /\ value.given # "null" /\ type.kind # "array"
                           => SchemaAccepts
    BY DEF RulesAgree
  <2>1. CASE value.given = "absent"
    BY <2>1, AbsentAgrees DEF Differs
  <2>2. CASE value.given = "null"
    BY <2>2, NullAgrees DEF Differs
  <2>3. CASE value.given = "value" /\ type.reads = "kind"
    <3>1. ~Differs => ~Looser /\ (type.kind = "array" => value.id = ArrayLen)
      BY <2>3 DEF Differs, ZeroForNothing
    <3> QED
      BY <2>3, <3>1, PassedIsAccepted, AcceptedHasPassed
  <2>4. CASE value.given = "value" /\ type.reads # "kind"
    BY <2>4, ConvertedAgrees DEF Differs, Looser
  <2> QED
    BY <2>1, <2>2, <2>3, <2>4, CheckedFacts
<1> QED
  BY <1>1, RulesInvariant, PTL
=============================================================================
