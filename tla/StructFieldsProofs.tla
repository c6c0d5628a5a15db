------------------------- MODULE StructFieldsProofs -------------------------
(***************************************************************************)
(* Proofs about StructFields, for every set of struct types and every way  *)
(* they nest and embed each other.                                         *)
(***************************************************************************)
EXTENDS StructFields, SequenceTheorems, FiniteSetTheorems, WellFoundedInduction, TLAPS

N == Cardinality(Types)

LEMMA TypesCount == N \in Nat /\ N > 0
<1>1. N \in Nat
  BY FieldsAssumption, FS_CardinalityType DEF N
<1>2. N # 0
  BY FieldsAssumption, FS_EmptySet DEF N
<1> QED
  BY <1>1, <1>2

\* A set of numbers has a least one.
LEMMA Least ==
  ASSUME NEW S \in SUBSET Nat, S # {}
  PROVE  \E n \in S : \A m \in S : n <= m
<1> DEFINE Less == {ss \in Nat \X Nat : ss[1] < ss[2]}
<1>1. IsWellFoundedOn(Less, Nat)
  BY NatLessThanWellFounded, Zenon DEF OpToRel
<1>2. PICK n \in S : \A m \in S : ~(<<m, n>> \in Less)
  <2> HIDE DEF Less
  <2> QED
    BY <1>1, WFMin, Zenon
<1>3. ASSUME NEW m \in S
      PROVE  n <= m
  <2>1. m \in Nat /\ n \in Nat /\ <<m, n>> \notin Less
    BY <1>2
  <2> QED
    BY <2>1
<1> QED
  BY <1>3

---------------------------------------------------------------------------
(* The paths of a walk. *)

\* One step of Walks: the paths so far, a step longer.
Longer(t, seen, entered, once, shorter) ==
  {<<x>> : x \in {x \in seen : x[1] = t}}
    \cup UNION {{Append(w, x) : x \in {x \in seen :
                   /\ x[1] = Field(Last(w)).type
                   /\ x[1] \in once => \A k \in DOMAIN w : w[k][1] # x[1]}} :
                w \in {w \in shorter : Last(w) \in entered}}

Grows(t, seen, entered, once, h) ==
  h = [n \in 0 .. N |-> IF n = 0 THEN {} ELSE Longer(t, seen, entered, once, h[n - 1])]

LEMMA WalksExist ==
  ASSUME NEW t, NEW seen, NEW entered, NEW once
  PROVE  \E h : /\ Grows(t, seen, entered, once, h)
                /\ Walks(t, seen, entered, once) = h[N]
<1> DEFINE Step(S) == Longer(t, seen, entered, once, S)
           Rec(m, h) == h = [n \in 0 .. m |-> IF n = 0 THEN {} ELSE Step(h[n - 1])]
           Bad == {m \in Nat : ~ \E h : Rec(m, h)}
<1>1. ASSUME Bad # {}
      PROVE  FALSE
  <2>1. PICK m \in Bad : \A k \in Bad : m <= k
    BY <1>1, Least
  <2>2. CASE m = 0
    <3>1. Rec(0, [n \in 0 .. 0 |-> {}])
      OBVIOUS
    <3> QED
      BY <2>1, <2>2, <3>1
  <2>3. CASE m # 0
    <3>1. m - 1 \in Nat /\ m - 1 \notin Bad
      <4>1. m \in Nat /\ m - 1 \in Nat /\ ~(m <= m - 1)
        BY <2>1, <2>3
      <4> HIDE DEF Bad
      <4> QED
        BY <2>1, <4>1
    <3>2. PICK h : Rec(m - 1, h)
      BY <3>1
    <3> DEFINE g == [n \in 0 .. m |-> IF n = m THEN Step(h[m - 1]) ELSE h[n]]
    <3> HIDE DEF Step
    <3>3. ASSUME NEW n \in 0 .. m
          PROVE  g[n] = IF n = 0 THEN {} ELSE Step(g[n - 1])
      <4>1. CASE n = 0
        BY <2>3, <3>1, <3>2, <4>1
      <4>2. CASE n # 0 /\ n # m
        <5>1. n \in 0 .. m - 1 /\ n - 1 \in 0 .. m - 1 /\ n - 1 # m /\ n - 1 \in 0 .. m
          BY <2>1, <3>1, <4>2
        <5>2. h[n] = Step(h[n - 1])
          BY <3>2, <4>2, <5>1
        <5> QED
          BY <4>2, <5>1, <5>2
      <4>3. CASE n = m
        BY <2>3, <3>1, <4>3
      <4> QED
        BY <4>1, <4>2, <4>3
    <3>4. Rec(m, g)
      BY <3>3
    <3> QED
      BY <2>1, <3>4
  <2> QED
    BY <2>2, <2>3
<1>2. \E h : Rec(N, h)
  BY <1>1, TypesCount
<1> DEFINE chosen == CHOOSE h : Rec(N, h)
<1>3. Rec(N, chosen)
  BY <1>2
<1>4. Walks(t, seen, entered, once) = chosen[N]
  BY DEF Walks, Longer, N
<1> QED
  BY <1>3, <1>4 DEF Grows

\* What is a path from t, without its length.
Follows(w, k, entered, once) ==
  /\ w[k] \in entered /\ w[k + 1][1] = Field(w[k]).type
  /\ w[k + 1][1] \in once => \A i \in 1 .. k : w[i][1] # w[k + 1][1]

PathFrom(t, seen, entered, once, w) ==
  /\ w \in Seq(seen) /\ Len(w) >= 1 /\ w[1][1] = t
  /\ \A k \in 1 .. Len(w) - 1 : Follows(w, k, entered, once)

\* A stretch of a path is a path.
LEMMA PathStretch ==
  ASSUME NEW t, NEW seen, NEW entered, NEW once, NEW w, PathFrom(t, seen, entered, once, w),
         NEW j \in 1 .. Len(w), NEW k \in j .. Len(w)
  PROVE  /\ PathFrom(w[j][1], seen, entered, once, SubSeq(w, j, k))
         /\ Len(SubSeq(w, j, k)) = k - j + 1
         /\ \A i \in 1 .. k - j + 1 : SubSeq(w, j, k)[i] = w[j + i - 1]
<1> DEFINE v == SubSeq(w, j, k)
<1>1. w \in Seq(seen) /\ Len(w) \in Nat /\ DOMAIN w = 1 .. Len(w)
  BY LenProperties DEF PathFrom
<1>2. j \in Nat /\ k \in Nat /\ 1 <= j /\ j <= k /\ k <= Len(w)
  BY <1>1
<1>3. \A i \in j .. k : w[i] \in seen
  BY <1>1, <1>2, ElementOfSeq
<1>4. /\ v \in Seq(seen) /\ Len(v) = k - j + 1
      /\ \A i \in 1 .. k - j + 1 : v[i] = w[j + i - 1]
  BY <1>2, <1>3, SubSeqProperties
<1> HIDE DEF v
<1>5. ASSUME NEW n \in 1 .. Len(v) - 1
      PROVE  Follows(v, n, entered, once)
  <2>1. v[n] = w[j + n - 1] /\ v[n + 1] = w[j + n] /\ j + n - 1 \in 1 .. Len(w) - 1
    BY <1>2, <1>4
  <2>2. Follows(w, j + n - 1, entered, once)
    BY <2>1 DEF PathFrom
  <2>3. (j + n - 1) + 1 = j + n
    BY <1>2
  <2>4. \A i \in 1 .. n : v[i] = w[j + i - 1] /\ j + i - 1 \in 1 .. j + n - 1
    BY <1>2, <1>4
  <2> QED
    BY <2>1, <2>2, <2>3, <2>4 DEF Follows
<1>6. v[1] = w[j]
  BY <1>2, <1>4
<1> QED
  BY <1>2, <1>4, <1>5, <1>6 DEF PathFrom, v

\* A field more at the end of a path.
LEMMA PathLonger ==
  ASSUME NEW t, NEW seen, NEW entered, NEW once, NEW w, PathFrom(t, seen, entered, once, w),
         NEW x \in seen, Last(w) \in entered, x[1] = Field(Last(w)).type,
         x[1] \in once => \A k \in 1 .. Len(w) : w[k][1] # x[1]
  PROVE  PathFrom(t, seen, entered, once, Append(w, x)) /\ Len(Append(w, x)) = Len(w) + 1
<1> DEFINE v == Append(w, x)
<1>1. w \in Seq(seen) /\ Len(w) \in Nat /\ Len(w) >= 1
  BY LenProperties DEF PathFrom
<1>2. /\ v \in Seq(seen) /\ Len(v) = Len(w) + 1
      /\ \A i \in 1 .. Len(w) : v[i] = w[i]
      /\ v[Len(w) + 1] = x
  BY <1>1, AppendProperties
<1> HIDE DEF v
<1>3. ASSUME NEW k \in 1 .. Len(v) - 1
      PROVE  Follows(v, k, entered, once)
  <2>1. \A i \in 1 .. k : v[i] = w[i]
    BY <1>1, <1>2
  <2>2. CASE k = Len(w)
    <3>1. v[k] = Last(w) /\ v[k + 1] = x
      BY <1>1, <1>2, <2>2 DEF Last
    <3> QED
      BY <2>1, <2>2, <3>1 DEF Follows
  <2>3. CASE k # Len(w)
    <3>1. k \in 1 .. Len(w) - 1 /\ v[k + 1] = w[k + 1] /\ v[k] = w[k]
      BY <1>1, <1>2, <2>3
    <3>2. Follows(w, k, entered, once)
      BY <3>1 DEF PathFrom
    <3> QED
      BY <2>1, <3>1, <3>2 DEF Follows
  <2> QED
    BY <2>2, <2>3
<1>4. v[1][1] = t /\ Len(v) >= 1
  BY <1>1, <1>2 DEF PathFrom
<1> QED
  BY <1>2, <1>3, <1>4 DEF PathFrom, v

\* Walks holds the paths that are no longer than there are types.
LEMMA WalksMeans ==
  ASSUME NEW t, NEW seen, NEW entered, NEW once
  PROVE  \A w : w \in Walks(t, seen, entered, once) <=>
                  PathFrom(t, seen, entered, once, w) /\ Len(w) <= N
<1> DEFINE Path(w) == PathFrom(t, seen, entered, once, w)
<1>1. PICK h : Grows(t, seen, entered, once, h) /\ Walks(t, seen, entered, once) = h[N]
  BY WalksExist
<1> DEFINE Right(n) == \A w : w \in h[n] <=> Path(w) /\ Len(w) <= n
           Bad == {n \in 0 .. N : ~Right(n)}
<1>2. h[0] = {} /\ \A n \in 1 .. N : h[n] = Longer(t, seen, entered, once, h[n - 1])
  <2>1. 0 \in 0 .. N
    BY TypesCount
  <2>2. h[0] = {}
    BY <1>1, <2>1 DEF Grows
  <2>3. ASSUME NEW n \in 1 .. N
        PROVE  h[n] = Longer(t, seen, entered, once, h[n - 1])
    <3>1. n \in 0 .. N /\ n # 0
      BY TypesCount
    <3> QED
      BY <1>1, <3>1 DEF Grows
  <2> QED
    BY <2>2, <2>3
<1>3. ASSUME NEW w, Path(w)
      PROVE  /\ Len(w) \in Nat /\ Len(w) >= 1 /\ DOMAIN w = 1 .. Len(w)
             /\ \A i \in 1 .. Len(w) : w[i] \in seen
  BY <1>3, LenProperties, ElementOfSeq DEF PathFrom
<1>4. ASSUME NEW n \in 1 .. N, Right(n - 1), NEW w \in h[n]
      PROVE  Path(w) /\ Len(w) <= n
  <2>1. w \in Longer(t, seen, entered, once, h[n - 1])
    BY <1>2, <1>4
  <2>2. CASE \E x \in seen : x[1] = t /\ w = <<x>>
    <3>1. PICK x \in seen : x[1] = t /\ w = <<x>>
      BY <2>2
    <3>2. w \in Seq(seen) /\ Len(w) = 1 /\ w[1] = x
      BY <3>1
    <3> QED
      BY <3>1, <3>2 DEF PathFrom
  <2>3. ASSUME NEW v \in h[n - 1], Last(v) \in entered, NEW x \in seen, w = Append(v, x),
               x[1] = Field(Last(v)).type,
               x[1] \in once => \A k \in DOMAIN v : v[k][1] # x[1]
        PROVE  Path(w) /\ Len(w) <= n
    <3>1. Path(v) /\ Len(v) <= n - 1
      BY <1>4, <2>3
    <3>2. DOMAIN v = 1 .. Len(v) /\ Len(v) \in Nat
      BY <1>3, <3>1
    <3>3. Path(w) /\ Len(w) = Len(v) + 1
      BY <2>3, <3>1, <3>2, PathLonger
    <3> QED
      BY <3>1, <3>2, <3>3
  <2> QED
    BY <2>1, <2>2, <2>3 DEF Longer
<1>5. ASSUME NEW n \in 1 .. N, Right(n - 1), NEW w, Path(w), Len(w) <= n
      PROVE  w \in h[n]
  <2>1. /\ Len(w) \in Nat /\ Len(w) >= 1 /\ w \in Seq(seen)
        /\ \A i \in 1 .. Len(w) : w[i] \in seen
    BY <1>3, <1>5 DEF PathFrom
  <2>2. CASE Len(w) = 1
    <3>1. w = <<w[1]>> /\ w[1] \in seen /\ w[1][1] = t
      BY <1>5, <2>1, <2>2 DEF PathFrom
    <3>2. w \in Longer(t, seen, entered, once, h[n - 1])
      BY <3>1 DEF Longer
    <3> QED
      BY <1>2, <3>2
  <2>3. CASE Len(w) > 1
    <3> DEFINE v == SubSeq(w, 1, Len(w) - 1)
               x == w[Len(w)]
    <3>1. /\ PathFrom(w[1][1], seen, entered, once, v) /\ Len(v) = Len(w) - 1
          /\ \A i \in 1 .. Len(w) - 1 : v[i] = w[i]
      <4>1. 1 \in 1 .. Len(w) /\ Len(w) - 1 \in 1 .. Len(w) /\ (Len(w) - 1) - 1 + 1 = Len(w) - 1
        BY <2>1, <2>3
      <4> HIDE DEF v
      <4>2. /\ PathFrom(w[1][1], seen, entered, once, v) /\ Len(v) = (Len(w) - 1) - 1 + 1
            /\ \A i \in 1 .. (Len(w) - 1) - 1 + 1 : v[i] = w[1 + i - 1]
        BY <1>5, <4>1, PathStretch DEF v
      <4> QED
        BY <2>1, <4>1, <4>2
    <3>2. Path(v) /\ v \in Seq(seen) /\ x \in seen
      BY <1>5, <2>1, <3>1 DEF PathFrom
    <3> HIDE DEF v, x
    <3>3. v \in h[n - 1]
      BY <1>5, <2>1, <3>1, <3>2
    <3>4. Follows(w, Len(w) - 1, entered, once)
      BY <1>5, <2>1, <2>3 DEF PathFrom
    <3>5. Last(v) = w[Len(w) - 1] /\ w[(Len(w) - 1) + 1] = x
      BY <2>1, <2>3, <3>1 DEF Last, x
    <3>6. DOMAIN v = 1 .. Len(w) - 1
      BY <3>1, <3>2, LenProperties
    <3>7. /\ Last(v) \in entered /\ x[1] = Field(Last(v)).type
          /\ x[1] \in once => \A k \in DOMAIN v : v[k][1] # x[1]
      BY <3>1, <3>4, <3>5, <3>6 DEF Follows
    <3>8. w = Append(v, x)
      <4>1. /\ Append(v, x) \in Seq(seen) /\ Len(Append(v, x)) = Len(w)
            /\ \A i \in 1 .. Len(w) : Append(v, x)[i] = w[i]
        BY <2>1, <3>1, <3>2, AppendProperties DEF x
      <4> QED
        BY <2>1, <4>1, SeqEqual
    <3>9. w \in Longer(t, seen, entered, once, h[n - 1])
      BY <3>2, <3>3, <3>7, <3>8 DEF Longer
    <3> QED
      BY <1>2, <3>9
  <2>4. Len(w) = 1 \/ Len(w) > 1
    <3>1. Len(w) \in Nat /\ Len(w) >= 1
      BY <2>1
    <3>2. \A m \in Nat : m >= 1 => m = 1 \/ m > 1
      OBVIOUS
    <3> QED
      BY <3>1, <3>2, Zenon
  <2> QED
    BY <2>2, <2>3, <2>4
<1>6. ASSUME Bad # {}
      PROVE  FALSE
  <2>0. Bad \subseteq Nat
    BY TypesCount
  <2>1. PICK n \in Bad : \A m \in Bad : n <= m
    <3> HIDE DEF Bad
    <3> QED
      BY <1>6, <2>0, Least
  <2>2. CASE n = 0
    <3>1. Right(0)
      BY <1>2, <1>3
    <3> QED
      BY <2>1, <2>2, <3>1
  <2>3. CASE n # 0
    <3>1. n \in 1 .. N /\ n - 1 \in 0 .. N /\ ~(n <= n - 1)
      BY <2>1, <2>3, TypesCount
    <3>2. Right(n - 1)
      BY <2>1, <3>1
    <3>3. Right(n)
      BY <1>4, <1>5, <3>1, <3>2
    <3> QED
      BY <2>1, <3>3
  <2> QED
    BY <2>2, <2>3
<1>7. Right(N)
  BY <1>6, TypesCount
<1> QED
  BY <1>1, <1>7

\* A path over some fields is one over others, if it keeps to them.
LEMMA PathKeeps ==
  ASSUME NEW t, NEW seen, NEW entered, NEW once, NEW w, PathFrom(t, seen, entered, once, w),
         NEW seen2, NEW entered2, NEW once2, once2 \subseteq once,
         \A k \in 1 .. Len(w) : w[k] \in seen2,
         \A k \in 1 .. Len(w) - 1 : w[k] \in entered2
  PROVE  PathFrom(t, seen2, entered2, once2, w)
<1>1. w \in Seq(seen) /\ Len(w) \in Nat /\ Len(w) >= 1 /\ w[1][1] = t
  BY LenProperties DEF PathFrom
<1>2. w \in Seq(seen2)
  <2>1. w = [k \in 1 .. Len(w) |-> w[k]]
    BY <1>1, LenProperties
  <2> QED
    BY <1>1, <2>1, IsASeq
<1>3. ASSUME NEW k \in 1 .. Len(w) - 1
      PROVE  Follows(w, k, entered2, once2)
  <2>1. Follows(w, k, entered, once)
    BY DEF PathFrom
  <2> QED
    BY <2>1 DEF Follows
<1> QED
  BY <1>1, <1>2, <1>3 DEF PathFrom

\* The fields of a path.
LEMMA PathFields ==
  ASSUME NEW t, NEW seen, NEW entered, NEW once, NEW w, PathFrom(t, seen, entered, once, w)
  PROVE  /\ Len(w) \in Nat /\ Len(w) >= 1 /\ Len(w) \in 1 .. Len(w) /\ 1 \in 1 .. Len(w)
         /\ DOMAIN w = 1 .. Len(w)
         /\ \A k \in 1 .. Len(w) : w[k] \in seen
         /\ \A k \in 1 .. Len(w) - 1 : /\ k \in 1 .. Len(w) /\ k + 1 \in 1 .. Len(w)
                                       /\ w[k] \in entered /\ w[k + 1][1] = Field(w[k]).type
<1>1. w \in Seq(seen) /\ Len(w) \in Nat /\ Len(w) >= 1 /\ DOMAIN w = 1 .. Len(w)
  BY LenProperties DEF PathFrom
<1>2. \A k \in 1 .. Len(w) : w[k] \in seen
  BY <1>1, ElementOfSeq
<1>3. \A k \in 1 .. Len(w) - 1 : k \in 1 .. Len(w) /\ k + 1 \in 1 .. Len(w)
  BY <1>1
<1>4. \A k \in 1 .. Len(w) - 1 : w[k] \in entered /\ w[k + 1][1] = Field(w[k]).type
  BY DEF PathFrom, Follows
<1>5. Len(w) \in 1 .. Len(w) /\ 1 \in 1 .. Len(w)
  BY <1>1
<1> QED
  BY <1>1, <1>2, <1>3, <1>4, <1>5

---------------------------------------------------------------------------
(* What the schema and the validation plan constrain. *)

\* The types along a short path are reached, as long as it does not repeat one.
LEMMA ReachAlong ==
  ASSUME NEW w, PathFrom(Root, Places, Structs, {}, w), Len(w) <= N,
         NEW k \in 1 .. Len(w),
         \A j \in 2 .. k : \A i \in 1 .. j - 1 : w[i][1] # w[j][1]
  PROVE  w[k][1] \in Reach(Root)
<1> DEFINE v == SubSeq(w, 1, k)
<1>1. Len(w) \in Nat /\ 1 \in 1 .. Len(w) /\ k \in 1 .. Len(w) /\ k - 1 + 1 = k
  BY PathFields
<1>2. /\ PathFrom(w[1][1], Places, Structs, {}, v) /\ Len(v) = k
      /\ \A i \in 1 .. k : v[i] = w[i]
  <2>1. /\ PathFrom(w[1][1], Places, Structs, {}, v) /\ Len(v) = k - 1 + 1
        /\ \A i \in 1 .. k - 1 + 1 : v[i] = w[1 + i - 1]
    BY <1>1, PathStretch
  <2> HIDE DEF v
  <2> QED
    BY <1>1, <2>1
<1> HIDE DEF v
<1>3. w[1][1] = Root
  BY DEF PathFrom
<1>4. ASSUME NEW n \in 1 .. Len(v) - 1
      PROVE  Follows(v, n, Structs, Types)
  <2>1. n + 1 \in 2 .. k /\ n + 1 \in 1 .. k /\ (n + 1) - 1 = n
    BY <1>1, <1>2
  <2>2. \A i \in 1 .. n : i \in 1 .. k
    BY <1>1, <1>2
  <2>3. \A i \in 1 .. n : v[i][1] # v[n + 1][1]
    BY <1>2, <2>1, <2>2
  <2>4. Follows(v, n, Structs, {})
    BY <1>2 DEF PathFrom
  <2> QED
    BY <2>3, <2>4 DEF Follows
<1>5. PathFrom(Root, Places, Structs, Types, v)
  BY <1>2, <1>3, <1>4 DEF PathFrom
<1>6. Len(v) <= N
  BY <1>1, <1>2, TypesCount
<1>7. v \in Walks(Root, Places, Structs, Types)
  BY <1>5, <1>6, WalksMeans
<1>8. Last(v) = w[k]
  BY <1>1, <1>2 DEF Last
<1> QED
  BY <1>7, <1>8 DEF Reach

\* Where no type holds itself, no path comes to a type twice.
LEMMA AcyclicPaths ==
  ASSUME Acyclic(Reach(Root)),
         NEW w, PathFrom(Root, Places, Structs, {}, w), Len(w) <= N
  PROVE  /\ PathFrom(Root, Places, Structs, Types, w)
         /\ \A k \in 1 .. Len(w) : w[k][1] \in Reach(Root)
<1> DEFINE Again(i, j) == w[i][1] = w[j][1]
           Bad == {j \in 2 .. Len(w) : \E i \in 1 .. j - 1 : Again(i, j)}
<1>0. /\ Len(w) \in Nat /\ Len(w) >= 1
      /\ \A k \in 1 .. Len(w) - 1 : w[k] \in Structs /\ w[k + 1][1] = Field(w[k]).type
  BY PathFields
<1>1. ASSUME Bad # {}
      PROVE  FALSE
  <2>1. Bad \subseteq Nat
    BY <1>0
  <2>2. PICK j \in Bad : \A m \in Bad : j <= m
    <3> HIDE DEF Bad
    <3> QED
      BY <1>1, <2>1, Least
  <2>3. PICK i \in 1 .. j - 1 : Again(i, j)
    BY <2>2
  <2>4. j \in 2 .. Len(w) /\ j \in Nat /\ i \in Nat /\ i <= j - 1 /\ 1 <= i
    BY <1>0, <2>2, <2>3
  <2>5. ASSUME NEW k \in 1 .. j - 1
        PROVE  w[k][1] \in Reach(Root) /\ k \in 1 .. Len(w)
    <3>1. k \in 1 .. Len(w)
      BY <1>0, <2>4
    <3>2. ASSUME NEW n \in 2 .. k, NEW m \in 1 .. n - 1
          PROVE  w[m][1] # w[n][1]
      <4>1. n \in 2 .. Len(w) /\ ~(j <= n)
        BY <1>0, <2>4
      <4>2. n \notin Bad
        <5> HIDE DEF Bad
        <5> QED
          BY <2>2, <4>1
      <4> QED
        BY <4>1, <4>2
    <3> QED
      BY <3>1, <3>2, ReachAlong
  <2> DEFINE S == {w[k][1] : k \in i .. j - 1}
  <2>6. \A k \in i .. j - 1 : k \in 1 .. j - 1
    BY <2>4
  <2>7. S \in SUBSET Reach(Root)
    BY <2>5, <2>6
  <2>8. i \in i .. j - 1 /\ j - 1 \in i .. j - 1 /\ j - 1 \in 1 .. Len(w) - 1 /\ (j - 1) + 1 = j
    BY <1>0, <2>4
  <2>9. S # {}
    BY <2>8
  <2>10. PICK u \in S : \A x \in Structs : x[1] \in S => Field(x).type # u
    <3> HIDE DEF S
    <3> QED
      BY <2>7, <2>9 DEF Acyclic
  <2>11. PICK k \in i .. j - 1 : u = w[k][1]
    BY <2>10
  <2>12. CASE k = i
    <3>1. w[j - 1] \in Structs /\ Field(w[j - 1]).type = w[j][1] /\ w[j - 1][1] \in S
      BY <1>0, <2>8
    <3> QED
      BY <2>3, <2>10, <2>11, <2>12, <3>1
  <2>13. CASE k # i
    <3>1. k - 1 \in i .. j - 1 /\ k - 1 \in 1 .. Len(w) - 1 /\ (k - 1) + 1 = k
      BY <1>0, <2>4, <2>13
    <3>2. w[k - 1] \in Structs /\ Field(w[k - 1]).type = w[k][1] /\ w[k - 1][1] \in S
      BY <1>0, <3>1
    <3> QED
      BY <2>10, <2>11, <3>2
  <2> QED
    BY <2>12, <2>13
<1>2. \A j \in 2 .. Len(w) : \A i \in 1 .. j - 1 : w[i][1] # w[j][1]
  BY <1>1
<1> HIDE DEF Bad, Again
<1>3. ASSUME NEW k \in 1 .. Len(w)
      PROVE  w[k][1] \in Reach(Root)
  <2>1. \A j \in 2 .. k : j \in 2 .. Len(w)
    BY <1>0
  <2> QED
    BY <1>2, <2>1, ReachAlong
<1>4. ASSUME NEW n \in 1 .. Len(w) - 1
      PROVE  Follows(w, n, Structs, Types)
  <2>1. n + 1 \in 2 .. Len(w) /\ (n + 1) - 1 = n
    BY <1>0
  <2>2. \A i \in 1 .. n : w[i][1] # w[n + 1][1]
    BY <1>2, <2>1
  <2>3. Follows(w, n, Structs, {})
    BY DEF PathFrom
  <2> QED
    BY <2>2, <2>3 DEF Follows
<1>5. PathFrom(Root, Places, Structs, Types, w)
  BY <1>4 DEF PathFrom
<1> QED
  BY <1>3, <1>5

\* Documented, with its local definitions.
Deeper == {x \in Seen : /\ Field(x).type # Scalar
                        /\ Promotes(Field(x)) \/ Field(x).type \notin SchemaLeaves}
Ends(w, k) == ~Promotes(Field(w[k]))
Begins(w, j) == j = 1 \/ Ends(w, j - 1)
Part(w, j, k) == j <= k /\ Begins(w, j) /\ Ends(w, k) /\ (\A i \in j .. k - 1 : ~Ends(w, i))

LEMMA DocumentedMeans ==
  Documented(Root) =
    {w \in Walks(Root, Seen, Deeper, {}) :
       /\ Root \notin SchemaLeaves
       /\ Field(Last(w)).rule /\ Ends(w, Len(w))
       /\ \A j, k \in DOMAIN w : Part(w, j, k) => SubSeq(w, j, k) \in ResolveJSONFields(w[j][1])}
  BY DEF Documented, Deeper, Ends, Begins, Part

\* On ordinary types the two walks look at the same fields.
LEMMA OrdinaryField ==
  ASSUME Ordinary, NEW x \in Places, x[1] \in Reach(Root)
  PROVE  /\ x \in Bound <=> x \in Seen
         /\ x \in Nested <=> x \in Deeper
         /\ Promotes(Field(x)) => ~Field(x).rule
<1>1. LET f == Field(x)
      IN /\ ~f.slice /\ f.json # "dash" /\ (Visible(f) => f.exported)
         /\ IF Promotes(f) THEN ~f.rule /\ f.type \notin PlanLeaves ELSE Alike(f.type)
  BY DEF Ordinary
<1>2. x \in Bound <=> x \in Seen
  BY <1>1 DEF Bound, Seen, Visible
<1>3. x \in Nested <=> x \in Deeper
  BY <1>1, <1>2 DEF Nested, Deeper, Alike, Bound
<1> QED
  BY <1>1, <1>2, <1>3

LEMMA PlaceSets == /\ Seen \subseteq Places /\ Bound \subseteq Places
                   /\ Deeper \subseteq Structs /\ Nested \subseteq Structs
                   /\ Deeper \subseteq Seen /\ Nested \subseteq Bound
  BY DEF Seen, Bound, Deeper, Nested, Structs

\* A part of a path of an ordinary type is a field its schema selects.
LEMMA PartSelected ==
  ASSUME Ordinary,
         NEW w, PathFrom(Root, Places, Structs, Types, w), Len(w) <= N,
         \A i \in 1 .. Len(w) : w[i] \in Seen /\ w[i][1] \in Reach(Root),
         NEW j \in 1 .. Len(w), NEW k \in 1 .. Len(w), Part(w, j, k)
  PROVE  SubSeq(w, j, k) \in ResolveJSONFields(w[j][1])
<1> DEFINE v == SubSeq(w, j, k)
<1>1. Len(w) \in Nat /\ j \in Nat /\ k \in Nat /\ 1 <= j /\ j <= k /\ k <= Len(w)
  BY PathFields DEF Part
<1>2. k \in j .. Len(w)
  BY <1>1
<1>3. /\ PathFrom(w[j][1], Places, Structs, Types, v) /\ Len(v) = k - j + 1
      /\ \A i \in 1 .. k - j + 1 : v[i] = w[j + i - 1]
  BY <1>2, PathStretch
<1> HIDE DEF v
<1>4. ASSUME NEW i \in 1 .. Len(v)
      PROVE  v[i] \in Seen
  <2>1. v[i] = w[j + i - 1] /\ j + i - 1 \in 1 .. Len(w)
    BY <1>1, <1>3
  <2> QED
    BY <2>1
<1>5. ASSUME NEW i \in 1 .. Len(v) - 1
      PROVE  v[i] \in Entered
  <2>1. v[i] = w[j + i - 1] /\ j + i - 1 \in 1 .. Len(w) /\ j + i - 1 \in j .. k - 1
    BY <1>1, <1>3
  <2>2. ~Ends(w, j + i - 1)
    BY <2>1 DEF Part
  <2> QED
    BY <2>1, <2>2 DEF Ends, Entered
<1>6. PathFrom(w[j][1], Seen, Entered, Types, v)
  BY <1>3, <1>4, <1>5, PathKeeps
<1>7. Len(v) <= N /\ Last(v) = w[k]
  <2>1. Len(v) \in 1 .. k - j + 1 /\ j + (k - j + 1) - 1 = k
    BY <1>1, <1>3
  <2> QED
    BY <1>1, <1>3, <2>1, TypesCount DEF Last
<1>8. v \in CollectJSONFields(w[j][1])
  <2>1. v \in Walks(w[j][1], Seen, Entered, Types)
    BY <1>6, <1>7, WalksMeans
  <2> QED
    BY <1>7, <2>1 DEF CollectJSONFields, Part, Ends
<1>9. ~Hides(w[j][1])
  BY DEF Ordinary
<1> QED
  BY <1>8, <1>9 DEF Hides, v

LEMMA Agreement ==
  ASSUME Ordinary, Root \notin SchemaLeaves
  PROVE  CompileStruct(Root) = Documented(Root)
<1>1. ASSUME NEW w \in CompileStruct(Root)
      PROVE  w \in Documented(Root)
  <2>1. PathFrom(Root, Bound, Nested, Types, w) /\ Len(w) <= N /\ Field(Last(w)).rule
    BY WalksMeans DEF CompileStruct
  <2>2. /\ \A k \in 1 .. Len(w) : w[k] \in Bound /\ w[k] \in Places
        /\ \A k \in 1 .. Len(w) - 1 : w[k] \in Nested /\ w[k] \in Structs /\ k \in 1 .. Len(w)
        /\ DOMAIN w = 1 .. Len(w) /\ Len(w) \in 1 .. Len(w)
    BY <2>1, PathFields, PlaceSets
  <2>3. PathFrom(Root, Places, Structs, {}, w) /\ PathFrom(Root, Places, Structs, Types, w)
    BY <2>1, <2>2, PathKeeps
  <2>4. \A k \in 1 .. Len(w) : w[k][1] \in Reach(Root)
    BY <2>1, <2>3, AcyclicPaths DEF Ordinary
  <2>5. /\ \A k \in 1 .. Len(w) : w[k] \in Seen
        /\ \A k \in 1 .. Len(w) - 1 : w[k] \in Deeper
    BY <2>2, <2>4, OrdinaryField
  <2>6. PathFrom(Root, Seen, Deeper, {}, w)
    BY <2>3, <2>5, PathKeeps
  <2>7. w \in Walks(Root, Seen, Deeper, {})
    BY <2>1, <2>6, WalksMeans
  <2>8. Ends(w, Len(w))
    BY <2>1, <2>2, <2>4, OrdinaryField DEF Ends, Last
  <2>9. \A j, k \in DOMAIN w : Part(w, j, k) => SubSeq(w, j, k) \in ResolveJSONFields(w[j][1])
    BY <2>1, <2>2, <2>3, <2>4, <2>5, PartSelected
  <2> QED
    BY <2>1, <2>7, <2>8, <2>9, DocumentedMeans
<1>2. ASSUME NEW w \in Documented(Root)
      PROVE  w \in CompileStruct(Root)
  <2>1. PathFrom(Root, Seen, Deeper, {}, w) /\ Len(w) <= N /\ Field(Last(w)).rule
    BY WalksMeans, DocumentedMeans
  <2>2. /\ \A k \in 1 .. Len(w) : w[k] \in Seen /\ w[k] \in Places
        /\ \A k \in 1 .. Len(w) - 1 : w[k] \in Deeper /\ w[k] \in Structs /\ k \in 1 .. Len(w)
    BY <2>1, PathFields, PlaceSets
  <2>3. PathFrom(Root, Places, Structs, {}, w)
    BY <2>1, <2>2, PathKeeps
  <2>4. /\ PathFrom(Root, Places, Structs, Types, w)
        /\ \A k \in 1 .. Len(w) : w[k][1] \in Reach(Root)
    BY <2>1, <2>3, AcyclicPaths DEF Ordinary
  <2>5. /\ \A k \in 1 .. Len(w) : w[k] \in Bound
        /\ \A k \in 1 .. Len(w) - 1 : w[k] \in Nested
    BY <2>2, <2>4, OrdinaryField
  <2>6. PathFrom(Root, Bound, Nested, Types, w)
    BY <2>4, <2>5, PathKeeps
  <2> QED
    BY <2>1, <2>6, WalksMeans DEF CompileStruct
<1> QED
  BY <1>1, <1>2

---------------------------------------------------------------------------
(* The levels of encoding/json. *)

Shaped == shapes \in [Types -> Seq(FieldType)]

LEMMA PlaceField ==
  ASSUME Shaped, NEW x \in Places
  PROVE  /\ x[1] \in Types /\ Field(x) \in FieldType
         /\ JSONName(Field(x)) \in Names \cup {Dash}
         /\ x \in Entered => Field(x).type \in Types
<1>1. PICK t \in Types : x \in {t} \X DOMAIN shapes[t]
  BY DEF Places
<1>2. x[1] = t /\ x[2] \in DOMAIN shapes[t] /\ shapes[t] \in Seq(FieldType)
  BY <1>1 DEF Shaped
<1>3. DOMAIN shapes[t] = 1 .. Len(shapes[t])
  BY <1>2, LenProperties
<1>4. Field(x) \in FieldType
  BY <1>2, <1>3, ElementOfSeq DEF Field
<1>5. JSONName(Field(x)) \in Names \cup {Dash}
  BY <1>4 DEF FieldType, JSONName
<1>6. x \in Entered => Field(x).type \in Types
  BY <1>4 DEF FieldType, Entered, Promotes
<1> QED
  BY <1>2, <1>4, <1>5, <1>6

\* The types met one level further.
Wider(ts) == ts \cup {Field(x).type : x \in {x \in Entered : x[1] \in ts}}

LEMMA MetExists ==
  \E h : /\ h = [n \in 1 .. N |-> IF n = 1 THEN <<{Root}>>
                                  ELSE Append(h[n - 1], Wider(Last(h[n - 1])))]
         /\ Met(Root) = h[N]
<1> DEFINE Step(s) == Append(s, Wider(Last(s)))
           Rec(m, h) == h = [n \in 1 .. m |-> IF n = 1 THEN <<{Root}>> ELSE Step(h[n - 1])]
           Bad == {m \in Nat : ~ \E h : Rec(m, h)}
<1>1. ASSUME Bad # {}
      PROVE  FALSE
  <2>1. PICK m \in Bad : \A k \in Bad : m <= k
    BY <1>1, Least
  <2>2. CASE m = 0
    <3>1. 1 .. 0 = {}
      OBVIOUS
    <3>2. Rec(0, [n \in {} |-> {}])
      BY <3>1
    <3> QED
      BY <2>1, <2>2, <3>2
  <2>3. CASE m # 0
    <3>1. m - 1 \in Nat /\ m - 1 \notin Bad
      <4>1. m \in Nat /\ m - 1 \in Nat /\ ~(m <= m - 1)
        BY <2>1, <2>3
      <4> HIDE DEF Bad
      <4> QED
        BY <2>1, <4>1
    <3>2. PICK h : Rec(m - 1, h)
      BY <3>1
    <3> DEFINE g == [n \in 1 .. m |->
                       IF n # m THEN h[n] ELSE IF m = 1 THEN <<{Root}>> ELSE Step(h[m - 1])]
    <3> HIDE DEF Step
    <3>3. ASSUME NEW n \in 1 .. m
          PROVE  g[n] = IF n = 1 THEN <<{Root}>> ELSE Step(g[n - 1])
      <4>1. CASE n # m
        <5>1. n \in 1 .. m - 1
          BY <2>1, <3>1, <4>1
        <5>2. CASE n = 1
          BY <3>2, <4>1, <5>1, <5>2
        <5>3. CASE n # 1
          <6>1. n - 1 \in 1 .. m /\ n - 1 # m
            BY <5>1, <5>3
          <6>2. h[n] = Step(h[n - 1])
            BY <3>2, <5>1, <5>3
          <6> QED
            BY <4>1, <5>3, <6>1, <6>2
        <5> QED
          BY <5>2, <5>3
      <4>2. CASE n = m /\ n # 1
        <5>1. n - 1 \in 1 .. m /\ n - 1 # m
          BY <2>1, <3>1, <4>2
        <5> QED
          BY <4>2, <5>1
      <4>3. CASE n = m /\ n = 1
        BY <4>3
      <4> QED
        BY <4>1, <4>2, <4>3
    <3>4. Rec(m, g)
      BY <3>3
    <3> QED
      BY <2>1, <3>4
  <2> QED
    BY <2>2, <2>3
<1>2. \E h : Rec(N, h)
  BY <1>1, TypesCount
<1> DEFINE chosen == CHOOSE h : Rec(N, h)
<1>3. Rec(N, chosen)
  BY <1>2
<1>4. Met(Root) = chosen[N]
  BY DEF Met, Wider, N
<1> QED
  BY <1>3, <1>4

LEMMA MetMeans ==
  ASSUME Shaped
  PROVE  /\ DOMAIN Met(Root) = 1 .. N /\ Met(Root)[1] = {Root}
         /\ \A n \in 1 .. N : Met(Root)[n] \in SUBSET Types
         /\ \A n \in 1 .. N - 1 : Met(Root)[n + 1] = Wider(Met(Root)[n])
<1>1. PICK h : /\ h = [n \in 1 .. N |-> IF n = 1 THEN <<{Root}>>
                                        ELSE Append(h[n - 1], Wider(Last(h[n - 1])))]
               /\ Met(Root) = h[N]
  BY MetExists
<1> DEFINE Good(s, n) == /\ s \in Seq(SUBSET Types) /\ Len(s) = n /\ s[1] = {Root}
                         /\ \A k \in 1 .. n - 1 : s[k + 1] = Wider(s[k])
           Bad == {n \in 1 .. N : ~Good(h[n], n)}
<1>2. ASSUME NEW ts \in SUBSET Types
      PROVE  Wider(ts) \in SUBSET Types
  <2>1. \A x \in Entered : x \in Places
    BY DEF Entered, Seen
  <2> QED
    BY <2>1, PlaceField DEF Wider
<1>3. Good(h[1], 1)
  <2>1. 1 \in 1 .. N
    BY TypesCount
  <2>2. h[1] = <<{Root}>>
    BY <1>1, <2>1
  <2>3. Root \in Types
    BY FieldsAssumption
  <2> QED
    BY <2>2, <2>3
<1>4. ASSUME NEW n \in 2 .. N, Good(h[n - 1], n - 1)
      PROVE  Good(h[n], n)
  <2> DEFINE s == h[n - 1]
  <2>1. n \in 1 .. N /\ n # 1 /\ n - 1 \in Nat /\ n - 1 >= 1 /\ (n - 1) + 1 = n
    BY TypesCount
  <2>2. h[n] = Append(s, Wider(Last(s)))
    BY <1>1, <2>1
  <2> HIDE DEF s
  <2>3. /\ s \in Seq(SUBSET Types) /\ Len(s) = n - 1 /\ s[1] = {Root}
        /\ \A k \in 1 .. (n - 1) - 1 : s[k + 1] = Wider(s[k])
    BY <1>4 DEF s
  <2>4. Last(s) = s[n - 1] /\ s[n - 1] \in SUBSET Types
    BY <2>1, <2>3, ElementOfSeq DEF Last
  <2>5. Wider(Last(s)) \in SUBSET Types
    BY <1>2, <2>4
  <2>6. /\ h[n] \in Seq(SUBSET Types) /\ Len(h[n]) = n
        /\ \A k \in 1 .. n - 1 : h[n][k] = s[k]
        /\ h[n][n] = Wider(s[n - 1])
    BY <2>1, <2>2, <2>3, <2>4, <2>5, AppendProperties
  <2>7. ASSUME NEW k \in 1 .. n - 1
        PROVE  h[n][k + 1] = Wider(h[n][k])
    <3>1. CASE k = n - 1
      BY <2>1, <2>6, <3>1
    <3>2. CASE k # n - 1
      <4>1. k + 1 \in 1 .. n - 1 /\ k \in 1 .. (n - 1) - 1
        BY <2>1, <3>2
      <4> QED
        BY <2>3, <2>6, <4>1
    <3> QED
      BY <3>1, <3>2
  <2>8. h[n][1] = {Root}
    BY <2>1, <2>3, <2>6
  <2> QED
    BY <2>6, <2>7, <2>8
<1>5. ASSUME Bad # {}
      PROVE  FALSE
  <2>0. Bad \subseteq Nat
    BY TypesCount
  <2>1. PICK n \in Bad : \A m \in Bad : n <= m
    <3> HIDE DEF Bad
    <3> QED
      BY <1>5, <2>0, Least
  <2>2. n \in 1 .. N /\ ~Good(h[n], n) /\ n # 1
    <3> HIDE DEF Good
    <3> QED
      BY <1>3, <2>1
  <2>3. n \in 2 .. N /\ n - 1 \in 1 .. N /\ ~(n <= n - 1)
    BY <2>2, TypesCount
  <2>4. n - 1 \notin Bad
    <3> HIDE DEF Bad
    <3> QED
      BY <2>1, <2>3
  <2>5. Good(h[n - 1], n - 1)
    <3> HIDE DEF Good
    <3> QED
      BY <2>3, <2>4
  <2> HIDE DEF Good, Bad
  <2> QED
    BY <1>4, <2>2, <2>3, <2>5
<1>6. Good(h[N], N)
  <2>1. N \in 1 .. N
    BY TypesCount
  <2> HIDE DEF Good
  <2> QED
    BY <1>5, <2>1
<1>7. h[N] \in Seq(SUBSET Types) /\ Len(h[N]) = N
  BY <1>6
<1>8. /\ DOMAIN h[N] = 1 .. N
      /\ \A n \in 1 .. N : h[N][n] \in SUBSET Types
  BY <1>7, LenProperties, ElementOfSeq
<1> QED
  BY <1>1, <1>6, <1>8

\* EncodingJSON, with its local definitions.
Level(n) == IF n = 1 THEN {Root} ELSE Met(Root)[n] \ Met(Root)[n - 1]
Embeds(n, u) == {x \in Entered : x[1] \in Level(n) /\ Field(x).type = u}
Copied(n, u) == n > 1 /\ \E x, y \in Embeds(n - 1, u) : x # y
AllFields == UNION {{[at |-> x, level |-> n, copied |-> Copied(n, x[1])] :
                       x \in {x \in Seen \ Entered : x[1] \in Level(n)}} : n \in DOMAIN Met(Root)}
Dominates(f, g) ==
  f.level < g.level \/ (f.level = g.level /\ Tagged(Field(f.at)) /\ ~Tagged(Field(g.at)))
Wins(f) == ~f.copied /\ \A g \in AllFields \ {f} :
                          JSONName(Field(g.at)) = JSONName(Field(f.at)) => Dominates(f, g)

LEMMA EncodingMeans == EncodingJSON(Root) = {f.at : f \in {f \in AllFields : Wins(f)}}
  BY DEF EncodingJSON, Level, Embeds, Copied, AllFields, Dominates, Wins

\* What is met stays met.
LEMMA MetGrows ==
  ASSUME Shaped, NEW j \in 1 .. N, NEW i \in 1 .. j
  PROVE  i \in 1 .. N /\ Met(Root)[i] \subseteq Met(Root)[j]
<1> DEFINE Bad == {n \in i .. N : ~(Met(Root)[i] \subseteq Met(Root)[n])}
<1>0. i \in 1 .. N /\ i \in Nat /\ j \in i .. N
  BY TypesCount
<1>1. ASSUME Bad # {}
      PROVE  FALSE
  <2>0. Bad \subseteq Nat
    BY <1>0, TypesCount
  <2>1. PICK n \in Bad : \A m \in Bad : n <= m
    <3> HIDE DEF Bad
    <3> QED
      BY <1>1, <2>0, Least
  <2>2. n # i
    BY <2>1
  <2>3. n - 1 \in i .. N /\ n - 1 \in 1 .. N - 1 /\ (n - 1) + 1 = n /\ ~(n <= n - 1)
    BY <1>0, <2>1, <2>2, TypesCount
  <2>4. n - 1 \notin Bad
    <3> HIDE DEF Bad
    <3> QED
      BY <2>1, <2>3
  <2>5. Met(Root)[i] \subseteq Met(Root)[n - 1]
    BY <2>3, <2>4
  <2>6. Met(Root)[n] = Wider(Met(Root)[n - 1])
    BY <2>3, MetMeans
  <2>7. Met(Root)[n - 1] \subseteq Met(Root)[n]
    BY <2>6 DEF Wider
  <2> QED
    BY <2>1, <2>5, <2>7
<1> QED
  BY <1>0, <1>1

LEMMA LevelMet ==
  ASSUME Shaped, NEW n \in 1 .. N
  PROVE  Level(n) \subseteq Met(Root)[n]
  BY MetMeans DEF Level

\* A type that is met by some level is on one level, no later.
LEMMA LevelExists ==
  ASSUME Shaped, NEW n \in 1 .. N, NEW u \in Met(Root)[n]
  PROVE  \E e \in 1 .. n : e \in 1 .. N /\ u \in Level(e)
<1> DEFINE In == {m \in 1 .. n : u \in Met(Root)[m]}
<1>1. n \in In /\ In \subseteq Nat
  BY TypesCount
<1>2. PICK e \in In : \A m \in In : e <= m
  <2> HIDE DEF In
  <2> QED
    BY <1>1, Least
<1>3. e \in 1 .. n /\ e \in 1 .. N /\ u \in Met(Root)[e]
  BY <1>2, TypesCount
<1>4. CASE e = 1
  BY <1>3, <1>4, MetMeans DEF Level
<1>5. CASE e # 1
  <2>1. e - 1 \in 1 .. n /\ ~(e <= e - 1)
    BY <1>3, <1>5, TypesCount
  <2>2. e - 1 \notin In
    <3> HIDE DEF In
    <3> QED
      BY <1>2, <2>1
  <2>3. u \notin Met(Root)[e - 1]
    BY <2>1, <2>2
  <2> QED
    BY <1>3, <1>5, <2>3 DEF Level
<1> QED
  BY <1>4, <1>5

\* No type is on a level and met before.
LEMMA LevelFirst ==
  ASSUME Shaped, NEW e \in 1 .. N, NEW u \in Level(e), NEW n \in 1 .. N, u \in Met(Root)[n]
  PROVE  e <= n
<1>1. CASE e = 1
  BY <1>1, TypesCount
<1>2. ASSUME e # 1, ~(e <= n)
      PROVE  FALSE
  <2>1. n \in 1 .. e - 1 /\ e - 1 \in 1 .. N
    BY <1>2, TypesCount
  <2>2. u \in Met(Root)[e - 1]
    BY <2>1, MetGrows
  <2> QED
    BY <1>2, <2>2 DEF Level
<1> QED
  BY <1>1, <1>2

LEMMA LevelUnique ==
  ASSUME Shaped, NEW e \in 1 .. N, NEW n \in 1 .. N, NEW u, u \in Level(e), u \in Level(n)
  PROVE  e = n
<1>1. u \in Met(Root)[e] /\ u \in Met(Root)[n]
  BY LevelMet
<1>2. e <= n /\ n <= e
  BY <1>1, LevelFirst
<1> QED
  BY <1>2, TypesCount

\* The embedding that leads to a type of a level is on the level above.
LEMMA LevelAbove ==
  ASSUME Shaped, NEW e \in 2 .. N, NEW x \in Entered, Field(x).type \in Level(e),
         x[1] \in Met(Root)[e - 1]
  PROVE  x[1] \in Level(e - 1)
<1>1. e \in 1 .. N /\ e # 1 /\ e - 1 \in 1 .. N
  BY TypesCount
<1>2. PICK d \in 1 .. e - 1 : d \in 1 .. N /\ x[1] \in Level(d)
  BY <1>1, LevelExists
<1>3. CASE d = e - 1
  BY <1>2, <1>3
<1>4. CASE d # e - 1
  <2>1. d \in 1 .. N - 1 /\ d + 1 \in 1 .. N /\ ~(e <= d + 1)
    BY <1>2, <1>4, TypesCount
  <2>2. x[1] \in Met(Root)[d]
    BY <1>2, LevelMet
  <2>3. Field(x).type \in Met(Root)[d + 1]
    BY <2>1, <2>2, MetMeans DEF Wider
  <2> QED
    BY <1>1, <2>1, <2>3, LevelFirst
<1> QED
  BY <1>3, <1>4

LEMMA LevelBelow ==
  ASSUME Shaped, NEW e \in 2 .. N, NEW u \in Level(e)
  PROVE  \E x \in Entered : x[1] \in Level(e - 1) /\ Field(x).type = u
<1>1. e \in 1 .. N /\ e # 1 /\ e - 1 \in 1 .. N - 1 /\ (e - 1) + 1 = e
  BY TypesCount
<1>2. u \in Met(Root)[e] /\ u \notin Met(Root)[e - 1]
  BY <1>1 DEF Level
<1>3. Met(Root)[e] = Wider(Met(Root)[e - 1])
  BY <1>1, MetMeans
<1>4. PICK x \in Entered : x[1] \in Met(Root)[e - 1] /\ Field(x).type = u
  BY <1>2, <1>3 DEF Wider
<1> QED
  BY <1>4, LevelAbove

\* A path is no quicker than the levels.
LEMMA PathMet ==
  ASSUME Shaped, NEW w, PathFrom(Root, Seen, Entered, Types, w), Len(w) <= N,
         NEW k \in 1 .. Len(w)
  PROVE  k \in 1 .. N /\ w[k][1] \in Met(Root)[k]
<1> DEFINE Bad == {n \in 1 .. Len(w) : w[n][1] \notin Met(Root)[n]}
<1>0. /\ Len(w) \in Nat /\ Len(w) >= 1 /\ k \in 1 .. N
      /\ \A n \in 1 .. Len(w) - 1 : w[n] \in Entered /\ w[n + 1][1] = Field(w[n]).type
  BY PathFields, TypesCount
<1>1. ASSUME Bad # {}
      PROVE  FALSE
  <2>0. Bad \subseteq Nat
    BY <1>0
  <2>1. PICK n \in Bad : \A m \in Bad : n <= m
    <3> HIDE DEF Bad
    <3> QED
      BY <1>1, <2>0, Least
  <2>2. n # 1
    <3>1. w[1][1] = Root /\ Met(Root)[1] = {Root}
      BY MetMeans DEF PathFrom
    <3> QED
      BY <2>1, <3>1
  <2>3. /\ n - 1 \in 1 .. Len(w) /\ n - 1 \in 1 .. Len(w) - 1 /\ n - 1 \in 1 .. N - 1
        /\ (n - 1) + 1 = n /\ ~(n <= n - 1)
    BY <1>0, <2>1, <2>2, TypesCount
  <2>4. n - 1 \notin Bad
    <3> HIDE DEF Bad
    <3> QED
      BY <2>1, <2>3
  <2>5. w[n - 1][1] \in Met(Root)[n - 1]
    BY <2>3, <2>4
  <2>6. Met(Root)[n] = Wider(Met(Root)[n - 1])
    BY <2>3, MetMeans
  <2>7. w[n - 1] \in Entered /\ w[n][1] = Field(w[n - 1]).type
    BY <1>0, <2>3
  <2>8. w[n][1] \in Met(Root)[n]
    BY <2>5, <2>6, <2>7 DEF Wider
  <2> QED
    BY <2>1, <2>8
<1> QED
  BY <1>0, <1>1

\* A path that follows the levels.
Direct(w, e, x) ==
  /\ PathFrom(Root, Seen, Entered, Types, w) /\ Len(w) = e /\ Last(w) = x
  /\ \A k \in 1 .. e : w[k][1] \in Level(k)

\* From a direct path to one a field longer.
LEMMA DirectLonger ==
  ASSUME Shaped, NEW e \in 2 .. N, NEW y \in Entered, NEW v, Direct(v, e - 1, y),
         NEW x \in Seen, x[1] = Field(y).type, x[1] \in Level(e)
  PROVE  Direct(Append(v, x), e, x) /\ Append(v, x)[e - 1] = y
<1> DEFINE w == Append(v, x)
<1>1. e \in 1 .. N /\ e # 1 /\ e - 1 \in 1 .. N /\ (e - 1) + 1 = e /\ e - 1 \in 1 .. e - 1
  BY TypesCount
<1>2. /\ PathFrom(Root, Seen, Entered, Types, v) /\ Len(v) = e - 1 /\ Last(v) = y
      /\ \A k \in 1 .. e - 1 : v[k][1] \in Level(k)
  BY DEF Direct
<1>3. ASSUME NEW k \in 1 .. Len(v)
      PROVE  v[k][1] # x[1]
  <2>0. k \in 1 .. e - 1
    BY <1>2
  <2>1. k \in 1 .. N /\ v[k][1] \in Level(k) /\ ~(e <= k)
    BY <1>2, <2>0, TypesCount
  <2>2. v[k][1] \in Met(Root)[k]
    BY <2>1, LevelMet
  <2> QED
    BY <1>1, <2>1, <2>2, LevelFirst
<1>4. PathFrom(Root, Seen, Entered, Types, w) /\ Len(w) = e
  BY <1>1, <1>2, <1>3, PathLonger
<1>5. /\ \A k \in 1 .. e - 1 : w[k] = v[k]
      /\ w[e] = x
  <2>1. v \in Seq(Seen) /\ Len(v) + 1 = e
    BY <1>1, <1>2 DEF PathFrom
  <2> QED
    BY <1>2, <2>1, AppendProperties
<1> HIDE DEF w
<1>6. w[e - 1] = y /\ Last(w) = x
  BY <1>1, <1>2, <1>4, <1>5 DEF Last
<1>7. ASSUME NEW k \in 1 .. e
      PROVE  w[k][1] \in Level(k)
  <2>1. k = e \/ k \in 1 .. e - 1
    BY <1>1
  <2> QED
    BY <1>2, <1>5, <2>1
<1> QED
  BY <1>4, <1>6, <1>7 DEF Direct, w

\* A direct path leads to every field of a level.
LEMMA DirectExists ==
  ASSUME Shaped
  PROVE  \A e \in 1 .. N : \A x \in Seen : x[1] \in Level(e) => \E w : Direct(w, e, x)
<1> DEFINE Right(e) == \A x \in Seen : x[1] \in Level(e) => \E w : Direct(w, e, x)
           Bad == {e \in 1 .. N : ~Right(e)}
<1>1. Right(1)
  <2> SUFFICES ASSUME NEW x \in Seen, x[1] \in Level(1)
               PROVE  Direct(<<x>>, 1, x)
    OBVIOUS
  <2>1. x[1] = Root
    BY DEF Level
  <2>2. <<x>> \in Seq(Seen) /\ Len(<<x>>) = 1 /\ <<x>>[1] = x
    OBVIOUS
  <2>3. PathFrom(Root, Seen, Entered, Types, <<x>>) /\ Last(<<x>>) = x
    BY <2>1, <2>2 DEF PathFrom, Last
  <2>4. ASSUME NEW k \in 1 .. 1
        PROVE  <<x>>[k][1] \in Level(k)
    <3>1. k = 1
      OBVIOUS
    <3> QED
      BY <2>2, <3>1
  <2> QED
    BY <2>2, <2>3, <2>4 DEF Direct
<1>2. ASSUME NEW e \in 2 .. N, Right(e - 1)
      PROVE  Right(e)
  <2> SUFFICES ASSUME NEW x \in Seen, x[1] \in Level(e)
               PROVE  \E w : Direct(w, e, x)
    OBVIOUS
  <2>1. PICK y \in Entered : y[1] \in Level(e - 1) /\ Field(y).type = x[1]
    BY LevelBelow
  <2>2. y \in Seen
    BY <2>1 DEF Entered
  <2>3. PICK v : Direct(v, e - 1, y)
    BY <1>2, <2>1, <2>2
  <2>4. Direct(Append(v, x), e, x)
    BY <2>1, <2>3, DirectLonger
  <2> QED
    BY <2>4
<1>3. ASSUME Bad # {}
      PROVE  FALSE
  <2>0. Bad \subseteq Nat
    BY TypesCount
  <2>1. PICK n \in Bad : \A m \in Bad : n <= m
    <3> HIDE DEF Bad
    <3> QED
      BY <1>3, <2>0, Least
  <2>2. n \in 1 .. N /\ ~Right(n) /\ n # 1
    <3> HIDE DEF Right
    <3> QED
      BY <1>1, <2>1
  <2>3. n \in 2 .. N /\ n - 1 \in 1 .. N /\ ~(n <= n - 1)
    BY <2>2, TypesCount
  <2>4. n - 1 \notin Bad
    <3> HIDE DEF Bad
    <3> QED
      BY <2>1, <2>3
  <2>5. Right(n - 1)
    <3> HIDE DEF Right
    <3> QED
      BY <2>3, <2>4
  <2> HIDE DEF Right, Bad
  <2> QED
    BY <1>2, <2>2, <2>3, <2>5
<1> QED
  BY <1>3

\* And one through each embedding of its type on the level above.
LEMMA DirectThrough ==
  ASSUME Shaped, NEW e \in 2 .. N, NEW x \in Seen, x[1] \in Level(e),
         NEW y \in Embeds(e - 1, x[1])
  PROVE  \E w : Direct(w, e, x) /\ w[e - 1] = y
<1>1. y \in Entered /\ y \in Seen /\ y[1] \in Level(e - 1) /\ x[1] = Field(y).type
  BY DEF Embeds, Entered
<1>2. e - 1 \in 1 .. N
  BY TypesCount
<1>3. PICK v : Direct(v, e - 1, y)
  BY <1>1, <1>2, DirectExists
<1>4. \A u \in Entered : Direct(v, e - 1, u) /\ x[1] = Field(u).type =>
        Direct(Append(v, x), e, x) /\ Append(v, x)[e - 1] = u
  BY DirectLonger, Zenon
<1> QED
  BY <1>1, <1>3, <1>4

\* A shortest path comes through the level above.
LEMMA ThroughAbove ==
  ASSUME Shaped, NEW e \in 2 .. N, NEW w, PathFrom(Root, Seen, Entered, Types, w),
         Len(w) = e, Last(w)[1] \in Level(e)
  PROVE  w[e - 1] \in Embeds(e - 1, Last(w)[1])
<1>1. /\ e - 1 \in 1 .. Len(w) - 1 /\ e - 1 \in 1 .. Len(w) /\ (e - 1) + 1 = e /\ Len(w) <= N
  BY TypesCount
<1>2. w[e - 1] \in Entered /\ w[e][1] = Field(w[e - 1]).type /\ Last(w) = w[e]
  BY <1>1, PathFields DEF Last
<1>3. w[e - 1][1] \in Met(Root)[e - 1]
  BY <1>1, PathMet
<1>4. w[e - 1][1] \in Level(e - 1)
  BY <1>2, <1>3, LevelAbove
<1> QED
  BY <1>2, <1>4 DEF Embeds

---------------------------------------------------------------------------
(* The selection. *)

Candidates == CollectJSONFields(Root)
Group(n) == {c \in Candidates : NameOf(c) = n}

LEMMA CandidateMeans ==
  \A c : c \in Candidates <=> /\ PathFrom(Root, Seen, Entered, Types, c) /\ Len(c) <= N
                              /\ Last(c) \in Seen \ Entered
<1> SUFFICES ASSUME NEW c
             PROVE  c \in Candidates <=> /\ PathFrom(Root, Seen, Entered, Types, c) /\ Len(c) <= N
                                         /\ Last(c) \in Seen \ Entered
  OBVIOUS
<1>1. c \in Candidates <=> /\ PathFrom(Root, Seen, Entered, Types, c) /\ Len(c) <= N
                           /\ ~Promotes(Field(Last(c)))
  BY WalksMeans DEF Candidates, CollectJSONFields
<1>2. ASSUME PathFrom(Root, Seen, Entered, Types, c)
      PROVE  Last(c) \in Seen
  BY <1>2, PathFields DEF Last
<1> QED
  BY <1>1, <1>2 DEF Entered

LEMMA FieldMeans ==
  ASSUME Shaped
  PROVE  \A f : f \in AllFields <=>
           \E n \in 1 .. N : \E x \in Seen \ Entered :
             x[1] \in Level(n) /\ f = [at |-> x, level |-> n, copied |-> Copied(n, x[1])]
  BY MetMeans DEF AllFields

\* A field of a level has a candidate at that depth.
LEMMA FieldCandidate ==
  ASSUME Shaped, NEW e \in 1 .. N, NEW x \in Seen \ Entered, NEW w, Direct(w, e, x)
  PROVE  w \in Candidates /\ NameOf(w) = JSONName(Field(x)) /\ Len(w) = e /\ Last(w) = x
<1>1. Len(w) <= N
  BY TypesCount DEF Direct
<1> QED
  BY <1>1, CandidateMeans DEF Direct, NameOf

\* A candidate ends at a field of some level, at that depth or deeper.
LEMMA CandidateField ==
  ASSUME Shaped, NEW d \in Candidates
  PROVE  \E m \in 1 .. N : /\ Last(d)[1] \in Level(m) /\ m <= Len(d)
                           /\ Last(d) \in Seen \ Entered
                           /\ [at |-> Last(d), level |-> m, copied |-> Copied(m, Last(d)[1])]
                                \in AllFields
<1>1. /\ PathFrom(Root, Seen, Entered, Types, d) /\ Len(d) <= N
      /\ Last(d) \in Seen \ Entered
  BY CandidateMeans
<1>2. Len(d) \in 1 .. Len(d)
  BY <1>1, PathFields
<1>3. Len(d) \in 1 .. N /\ Last(d)[1] \in Met(Root)[Len(d)]
  BY <1>1, <1>2, PathMet DEF Last
<1>4. PICK m \in 1 .. Len(d) : m \in 1 .. N /\ Last(d)[1] \in Level(m)
  BY <1>3, LevelExists
<1>5. m <= Len(d)
  BY <1>3, <1>4, TypesCount
<1> QED
  BY <1>1, <1>4, <1>5, FieldMeans

LEMMA DominantMeans ==
  ASSUME NEW group, NEW c
  PROVE  c \in Dominant(group) <=>
           LET shallow == {e \in group : \A d \in group : Len(e) <= Len(d)}
           IN /\ c \in shallow
              /\ \A d \in shallow : d # c => TaggedAs(c) /\ ~TaggedAs(d)
<1> DEFINE shallow == {e \in group : \A d \in group : Len(e) <= Len(d)}
           tagged == {e \in shallow : TaggedAs(e)}
           best == IF tagged # {} THEN tagged ELSE shallow
<1>1. c \in Dominant(group) <=> c \in best /\ best = {c}
  BY DEF Dominant
<1>2. ASSUME c \in best, best = {c}, NEW d \in shallow, d # c
      PROVE  TaggedAs(c) /\ ~TaggedAs(d)
  <2> HIDE DEF shallow
  <2>1. tagged # {}
    BY <1>2
  <2> QED
    BY <1>2, <2>1
<1>3. ASSUME c \in shallow, \A d \in shallow : d # c => TaggedAs(c) /\ ~TaggedAs(d)
      PROVE  c \in best /\ best = {c}
  <2> HIDE DEF shallow
  <2>1. CASE TaggedAs(c)
    BY <1>3, <2>1
  <2>2. CASE ~TaggedAs(c)
    BY <1>3, <2>2
  <2> QED
    BY <2>1, <2>2
<1>4. c \in best => c \in shallow
  <2> HIDE DEF shallow
  <2> QED
    OBVIOUS
<1> HIDE DEF best
<1> QED
  BY <1>1, <1>2, <1>3, <1>4

\* A selected candidate ends at a field that encoding/json takes.
LEMMA SelectedTaken ==
  ASSUME Shaped, NEW n, NEW c \in Dominant(Group(n))
  PROVE  Last(c) \in EncodingJSON(Root)
<1> DEFINE shallow == {e \in Group(n) : \A d \in Group(n) : Len(e) <= Len(d)}
           x == Last(c)
<1>1. /\ c \in shallow
      /\ \A d \in shallow : d # c => TaggedAs(c) /\ ~TaggedAs(d)
  BY DominantMeans
<1>2. c \in Candidates /\ NameOf(c) = n /\ \A d \in Group(n) : Len(c) <= Len(d)
  BY <1>1 DEF Group
<1>3. PICK e \in 1 .. N : /\ x[1] \in Level(e) /\ e <= Len(c) /\ x \in Seen \ Entered
                          /\ [at |-> x, level |-> e, copied |-> Copied(e, x[1])] \in AllFields
  BY <1>2, CandidateField
<1>4. JSONName(Field(x)) = n
  BY <1>2 DEF NameOf
<1> HIDE DEF x
<1>5. ASSUME NEW w, Direct(w, e, x)
      PROVE  w \in Group(n) /\ Len(w) = e /\ Last(w) = x
  BY <1>3, <1>4, <1>5, FieldCandidate DEF Group
<1>6. Len(c) = e
  <2>1. PICK w : Direct(w, e, x)
    BY <1>3, DirectExists
  <2>2. Len(c) \in Nat
    BY <1>2, CandidateMeans, PathFields
  <2>3. Len(c) <= e
    BY <1>2, <1>5, <2>1
  <2> QED
    BY <1>3, <2>2, <2>3, TypesCount
<1> DEFINE f == [at |-> x, level |-> e, copied |-> Copied(e, x[1])]
<1>7. ASSUME NEW w \in Group(n), Len(w) = e
      PROVE  w \in shallow
  BY <1>2, <1>6, <1>7
<1> HIDE DEF shallow
<1>8. ~Copied(e, x[1])
  <2> SUFFICES ASSUME Copied(e, x[1])
               PROVE  FALSE
    OBVIOUS
  <2>1. PICK y, z \in Embeds(e - 1, x[1]) : y # z
    BY DEF Copied
  <2>2. e \in 2 .. N
    BY TypesCount DEF Copied
  <2>3. PICK v : Direct(v, e, x) /\ v[e - 1] = y
    BY <1>3, <2>2, DirectThrough
  <2>4. PICK w : Direct(w, e, x) /\ w[e - 1] = z
    BY <1>3, <2>2, DirectThrough
  <2>5. v \in shallow /\ w \in shallow /\ v # w
    BY <1>5, <1>7, <2>1, <2>3, <2>4
  <2>6. TaggedAs(v) = TaggedAs(c) /\ TaggedAs(w) = TaggedAs(c)
    BY <1>5, <2>3, <2>4 DEF TaggedAs, x
  <2> QED
    BY <1>1, <2>5, <2>6
<1>9. ASSUME NEW g \in AllFields, g # f, JSONName(Field(g.at)) = n
      PROVE  Dominates(f, g)
  <2>1. PICK m \in 1 .. N : \E y \in Seen \ Entered :
          y[1] \in Level(m) /\ g = [at |-> y, level |-> m, copied |-> Copied(m, y[1])]
    BY FieldMeans
  <2>2. PICK y \in Seen \ Entered :
          y[1] \in Level(m) /\ g = [at |-> y, level |-> m, copied |-> Copied(m, y[1])]
    BY <2>1
  <2>3. y # x
    <3> SUFFICES ASSUME y = x
                 PROVE  FALSE
      OBVIOUS
    <3>1. m = e
      BY <1>3, <2>2, LevelUnique
    <3> QED
      BY <1>9, <2>2, <3>1
  <2>4. PICK d : Direct(d, m, y)
    BY <2>2, DirectExists
  <2>5. d \in Group(n) /\ Len(d) = m /\ Last(d) = y
    BY <1>9, <2>2, <2>4, FieldCandidate DEF Group
  <2>6. e <= m
    BY <1>2, <1>6, <2>5
  <2>7. CASE e = m
    <3>1. d \in shallow /\ d # c
      BY <1>7, <2>3, <2>5, <2>7 DEF x
    <3>2. Tagged(Field(x)) /\ ~Tagged(Field(y))
      BY <1>1, <2>5, <3>1 DEF TaggedAs, x
    <3> QED
      BY <2>2, <2>7, <3>2 DEF Dominates
  <2>8. CASE e # m
    <3>1. e < m
      BY <2>6, <2>8, TypesCount
    <3> QED
      BY <2>2, <3>1 DEF Dominates
  <2> QED
    BY <2>7, <2>8
<1>10. Wins(f)
  BY <1>4, <1>8, <1>9 DEF Wins
<1>11. f \in AllFields /\ f.at = x
  BY <1>3
<1> HIDE DEF f
<1> QED
  BY <1>10, <1>11, EncodingMeans DEF x

\* A field that encoding/json takes is the end of a selected candidate, or lies
\* below a diamond.
LEMMA TakenSelected ==
  ASSUME Shaped, ~BelowDiamond, NEW f \in AllFields, Wins(f)
  PROVE  \E n \in Names \cup {Dash} : \E c \in Dominant(Group(n)) : Last(c) = f.at
<1>1. PICK e \in 1 .. N : \E x \in Seen \ Entered :
        x[1] \in Level(e) /\ f = [at |-> x, level |-> e, copied |-> Copied(e, x[1])]
  BY FieldMeans
<1>2. PICK x \in Seen \ Entered :
        x[1] \in Level(e) /\ f = [at |-> x, level |-> e, copied |-> Copied(e, x[1])]
  BY <1>1
<1>3. f.at = x /\ f.level = e /\ ~Copied(e, x[1])
  BY <1>2 DEF Wins
<1> DEFINE n == JSONName(Field(x))
           shallow == {b \in Group(n) : \A d \in Group(n) : Len(b) <= Len(d)}
<1>4. n \in Names \cup {Dash}
  BY PlaceField, PlaceSets
<1>5. PICK c : Direct(c, e, x)
  BY <1>2, DirectExists
<1>6. c \in Candidates /\ c \in Group(n) /\ Len(c) = e /\ Last(c) = x
  BY <1>5, FieldCandidate DEF Group
<1> HIDE DEF n
<1>7. ASSUME NEW d \in Group(n)
      PROVE  \E m \in 1 .. N : /\ Last(d)[1] \in Level(m) /\ m <= Len(d) /\ e <= m
                               /\ Last(d) # x =>
                                    e < m \/ (Tagged(Field(x)) /\ ~Tagged(Field(Last(d))))
  <2>1. d \in Candidates /\ JSONName(Field(Last(d))) = n
    BY DEF Group, NameOf
  <2>2. PICK m \in 1 .. N : /\ Last(d)[1] \in Level(m) /\ m <= Len(d)
                            /\ [at |-> Last(d), level |-> m, copied |-> Copied(m, Last(d)[1])]
                                 \in AllFields
    BY <2>1, CandidateField
  <2>3. CASE Last(d) = x
    <3>1. m = e
      BY <1>2, <2>2, <2>3, LevelUnique
    <3> QED
      BY <2>2, <2>3, <3>1
  <2>4. CASE Last(d) # x
    <3> DEFINE g == [at |-> Last(d), level |-> m, copied |-> Copied(m, Last(d)[1])]
    <3>1. g \in AllFields \ {f} /\ g.at = Last(d) /\ g.level = m
      BY <1>3, <2>2, <2>4
    <3>2. Dominates(f, g)
      <4> HIDE DEF g
      <4> QED
        BY <1>3, <2>1, <3>1 DEF Wins, n
    <3>3. e < m \/ (e = m /\ Tagged(Field(x)) /\ ~Tagged(Field(Last(d))))
      <4> HIDE DEF g
      <4> QED
        BY <1>3, <3>1, <3>2 DEF Dominates
    <3>4. e <= m
      BY <3>3, TypesCount
    <3> QED
      BY <2>2, <3>3, <3>4
  <2> QED
    BY <2>3, <2>4
<1>8. ASSUME NEW d \in Candidates
      PROVE  Len(d) \in Nat
  BY CandidateMeans, PathFields
<1>9. c \in shallow
  <2>1. ASSUME NEW d \in Group(n)
        PROVE  Len(c) <= Len(d)
    <3>1. PICK m \in 1 .. N : m <= Len(d) /\ e <= m
      BY <1>7
    <3>2. Len(d) \in Nat
      BY <1>8 DEF Group
    <3> QED
      BY <1>6, <3>1, <3>2, TypesCount
  <2> QED
    BY <1>6, <2>1
<1>10. ASSUME NEW d \in shallow, d # c
       PROVE  TaggedAs(c) /\ ~TaggedAs(d)
  <2>1. d \in Group(n) /\ d \in Candidates /\ Len(d) <= Len(c)
    BY <1>6 DEF Group
  <2>2. PICK m \in 1 .. N : /\ Last(d)[1] \in Level(m) /\ m <= Len(d) /\ e <= m
                            /\ Last(d) # x =>
                                 e < m \/ (Tagged(Field(x)) /\ ~Tagged(Field(Last(d))))
    BY <1>7, <2>1
  <2>3. m = e /\ Len(d) = e
    <3>1. Len(d) \in Nat
      BY <1>8, <2>1
    <3> QED
      BY <1>6, <2>1, <2>2, <3>1, TypesCount
  <2>4. /\ PathFrom(Root, Seen, Entered, Types, c) /\ PathFrom(Root, Seen, Entered, Types, d)
        /\ Len(c) = e /\ Len(d) = e
    BY <1>6, <2>1, <2>3, CandidateMeans
  <2>5. CASE Last(d) = x /\ e = 1
    <3>1. c \in Seq(Seen) /\ d \in Seq(Seen)
      BY <2>4 DEF PathFrom
    <3>2. \A k \in 1 .. 1 : c[k] = d[k]
      <4>1. c[1] = x /\ d[1] = x
        BY <1>6, <2>4, <2>5 DEF Last
      <4>2. \A k \in 1 .. 1 : k = 1
        OBVIOUS
      <4> QED
        BY <4>1, <4>2
    <3>3. c = d
      BY <2>4, <2>5, <3>1, <3>2, SeqEqual
    <3> QED
      BY <1>10, <3>3
  <2>6. CASE Last(d) = x /\ e # 1
    <3>1. e \in 2 .. N /\ e > 1
      BY <2>6, TypesCount
    <3>2. c[e - 1] \in Embeds(e - 1, x[1]) /\ d[e - 1] \in Embeds(e - 1, x[1])
      BY <1>2, <1>6, <2>4, <2>6, <3>1, ThroughAbove
    <3>3. c[e - 1] = d[e - 1]
      BY <1>3, <3>1, <3>2 DEF Copied
    <3>4. BelowDiamond
      BY <1>6, <1>10, <2>1, <2>4, <2>6, <3>1, <3>3 DEF BelowDiamond, Candidates
    <3> QED
      BY <3>4
  <2>7. CASE Last(d) # x
    <3>1. ~(e < m)
      BY <2>3, TypesCount
    <3> QED
      BY <1>6, <2>2, <2>7, <3>1 DEF TaggedAs
  <2> QED
    BY <2>5, <2>6, <2>7
<1>11. c \in Dominant(Group(n))
  BY <1>9, <1>10, DominantMeans
<1> QED
  BY <1>3, <1>4, <1>6, <1>11

LEMMA Selection ==
  ASSUME Shaped, ~BelowDiamond
  PROVE  {Last(c) : c \in ResolveJSONFields(Root)} = EncodingJSON(Root)
<1>1. ResolveJSONFields(Root) = UNION {Dominant(Group(n)) : n \in Names \cup {Dash}}
  BY DEF ResolveJSONFields, Group, Candidates
<1>2. ASSUME NEW c \in ResolveJSONFields(Root)
      PROVE  Last(c) \in EncodingJSON(Root)
  BY <1>1, SelectedTaken
<1>3. ASSUME NEW x \in EncodingJSON(Root)
      PROVE  \E c \in ResolveJSONFields(Root) : Last(c) = x
  <2>1. PICK f \in AllFields : Wins(f) /\ x = f.at
    BY EncodingMeans
  <2> QED
    BY <1>1, <2>1, TakenSelected
<1> QED
  BY <1>2, <1>3

---------------------------------------------------------------------------
(* The steps. *)

\* The types are fixed once their program is compiled, and the outcome is theirs.
Compiled ==
  /\ shapes \in [Types -> Seq(FieldType)]
  /\ stage \in {"declared", "compiled"}
  /\ stage = "compiled" =>
       /\ Root \notin SchemaLeaves => selected = ResolveJSONFields(Root)
       /\ plan = IF Root \in PlanLeaves THEN {} ELSE CompileStruct(Root)

LEMMA WalksKept ==
  ASSUME shapes' = shapes
  PROVE  /\ Seen' = Seen /\ Entered' = Entered /\ Bound' = Bound /\ Nested' = Nested
         /\ \A t, seen, entered, once :
              Walks(t, seen, entered, once)' = Walks(t, seen, entered, once)
<1>1. Places' = Places
  BY DEF Places
<1>2. \A x : Field(x)' = Field(x)
  BY DEF Field
<1>3. Seen' = Seen
  BY <1>1, <1>2 DEF Seen
<1>4. Entered' = Entered
  BY <1>2, <1>3 DEF Entered
<1>5. Bound' = Bound
  BY <1>1, <1>2 DEF Bound
<1>6. Nested' = Nested
  BY <1>2, <1>5 DEF Nested
<1>7. ASSUME NEW t, NEW seen, NEW entered, NEW once
      PROVE  Walks(t, seen, entered, once)' = Walks(t, seen, entered, once)
  BY DEF Walks, Field
<1> QED
  BY <1>3, <1>4, <1>5, <1>6, <1>7

LEMMA OutcomeKept ==
  ASSUME shapes' = shapes
  PROVE  /\ ResolveJSONFields(Root)' = ResolveJSONFields(Root)
         /\ CompileStruct(Root)' = CompileStruct(Root)
<1>1. \A x : Field(x)' = Field(x)
  BY DEF Field
<1>2. CompileStruct(Root)' = CompileStruct(Root)
  BY <1>1, WalksKept DEF CompileStruct
<1>3. CollectJSONFields(Root)' = CollectJSONFields(Root)
  BY <1>1, WalksKept DEF CollectJSONFields
<1>4. \A c : NameOf(c)' = NameOf(c)
  BY <1>1 DEF NameOf
<1>5. \A group : Dominant(group)' = Dominant(group)
  BY <1>1 DEF Dominant, TaggedAs
<1>6. ResolveJSONFields(Root)' = ResolveJSONFields(Root)
  BY <1>3, <1>4, <1>5 DEF ResolveJSONFields
<1> QED
  BY <1>2, <1>6

LEMMA CompiledInit == Init => Compiled
<1> SUFFICES ASSUME Init
             PROVE  Compiled
  OBVIOUS
<1>1. <<>> \in Seq(FieldType)
  OBVIOUS
<1>2. shapes \in [Types -> Seq(FieldType)]
  BY <1>1 DEF Init
<1> QED
  BY <1>2 DEF Init, Compiled

LEMMA CompiledNext == Compiled /\ [Next]_vars => Compiled'
<1> SUFFICES ASSUME Compiled, [Next]_vars
             PROVE  Compiled'
  OBVIOUS
<1>1. CASE Declare
  <2>1. PICK t \in Types : \E f \in Menu[t] : shapes' = [shapes EXCEPT ![t] = Append(@, f)]
    BY <1>1 DEF Declare
  <2>2. PICK f \in Menu[t] : shapes' = [shapes EXCEPT ![t] = Append(@, f)]
    BY <2>1
  <2>3. f \in FieldType
    BY <2>2, FieldsAssumption
  <2>4. shapes[t] \in Seq(FieldType)
    BY DEF Compiled
  <2>5. Append(shapes[t], f) \in Seq(FieldType)
    BY <2>3, <2>4
  <2>6. shapes' \in [Types -> Seq(FieldType)]
    BY <2>2, <2>5 DEF Compiled
  <2> QED
    BY <1>1, <2>6 DEF Declare, Compiled
<1>2. CASE Compile
  <2>1. shapes' = shapes
    BY <1>2 DEF Compile
  <2> QED
    BY <1>2, <2>1, OutcomeKept DEF Compile, Compiled
<1>3. CASE UNCHANGED vars
  <2>1. shapes' = shapes
    BY <1>3 DEF vars
  <2> QED
    BY <1>3, <2>1, OutcomeKept DEF vars, Compiled
<1> QED
  BY <1>1, <1>2, <1>3 DEF Next, Done

LEMMA CompiledAlways == Spec => []Compiled
<1> QED
  BY CompiledInit, CompiledNext, PTL DEF Spec

\* On ordinary types, where the leaves of the one side (reflector.go:47-61) are those of
\* the other (validation/compiler.go:77), the schema and the validation plan constrain
\* the same fields.
THEOREM OrdinaryAgreeHolds == Spec => []OrdinaryAgree
<1>1. Compiled => OrdinaryAgree
  <2> SUFFICES ASSUME Compiled, stage = "compiled", Ordinary
               PROVE  plan = Documented(Root)
    BY DEF OrdinaryAgree
  <2>1. Root \in SchemaLeaves <=> Root \in PlanLeaves
    BY DEF Ordinary, Alike
  <2>2. CASE Root \in SchemaLeaves
    BY <2>1, <2>2, DocumentedMeans DEF Compiled
  <2>3. CASE Root \notin SchemaLeaves
    BY <2>1, <2>3, Agreement DEF Compiled
  <2> QED
    BY <2>2, <2>3
<1> QED
  BY <1>1, CompiledAlways, PTL

\* The schema of a struct documents exactly the fields encoding/json selects from it,
\* but for those below a type that is embedded twice.
THEOREM SelectsHolds == Spec => []SelectsLikeEncodingJSON
<1>1. Compiled => SelectsLikeEncodingJSON
  BY Selection DEF Compiled, SelectsLikeEncodingJSON, Shaped
<1> QED
  BY <1>1, CompiledAlways, PTL
=============================================================================
