----------------------- MODULE GroupInheritanceProofs -----------------------
(***************************************************************************)
(* Proofs about GroupInheritance: the copies that AppLifecycle makes when  *)
(* a group or an operation is created hold what the history of the calls   *)
(* promises, for every tree of groups and every order of the calls.        *)
(***************************************************************************)
EXTENDS GroupInheritance, AppLifecycleProofs, FiniteSetTheorems

---------------------------------------------------------------------------
(* The inductive invariant. *)

\* The calls that give a middleware to a group, or to an operation.
Heard(group) == {n \in DOMAIN log : Hears(group, n)}
Reached(o) == {n \in DOMAIN log : Reaches(n, o)}

\* The log holds calls that took effect: the groups and operations they name
\* exist, each made by one of them.
Recorded ==
  /\ log \in Seq(Calls \cup {[kind |-> "AppGroup"]})
  /\ made \in Seq(Nat) /\ Len(made) = Len(groups)
  /\ mapped \in Seq(Nat) /\ Len(mapped) = Len(operations)
  /\ \A n \in DOMAIN log :
       /\ log[n].kind \in {"Group", "GroupUse", "Map"} => log[n].group \in DOMAIN made
       /\ log[n].kind = "GroupUse" => log[n].middleware \in Middlewares
       /\ log[n].kind = "Mutate" =>
            /\ log[n].operation \in DOMAIN mapped
            /\ log[n].set.values \in Seq(Middlewares \cup {Nil})
  /\ \A k \in DOMAIN made : made[k] \in DOMAIN log
  /\ \A o \in DOMAIN mapped : mapped[o] \in DOMAIN log /\ log[mapped[o]].kind = "Map"

\* A group has, in their order, the middlewares it was given itself and those
\* the groups above it were given before the next one below was made.
GroupsListed ==
  \A k \in DOMAIN groups : Lists(groups[k].middlewares, Heard(k))

Inherited == Inductive /\ Recorded /\ GroupsListed /\ MiddlewareInherited

---------------------------------------------------------------------------
(* Lists of gifts, for any log. *)

GiftsIn(l, calls) == UNION {{n} \X DOMAIN Given(l[n]) : n \in calls}

ListsIn(l, list, calls) ==
  LET gifts == GiftsIn(l, calls)
  IN /\ Len(list) = Cardinality(gifts)
     /\ \A x \in gifts : list[Cardinality(UpTo(x, gifts))] = Given(l[x[1]])[x[2]]

\* No call gives nothing.
LEMMA ListsNone ==
  ASSUME NEW l
  PROVE  ListsIn(l, <<>>, {})
<1>1. GiftsIn(l, {}) = {}
  BY DEF GiftsIn
<1> QED
  BY <1>1, FS_EmptySet DEF ListsIn

\* What calls give does not depend on other calls of the log.
LEMMA ListsKept ==
  ASSUME NEW l, NEW m, NEW list, NEW calls,
         \A n \in calls : l[n] = m[n],
         ListsIn(l, list, calls)
  PROVE  ListsIn(m, list, calls)
<1>1. GiftsIn(l, calls) = GiftsIn(m, calls)
  BY DEF GiftsIn
<1>2. \A x \in GiftsIn(l, calls) : x[1] \in calls
  BY DEF GiftsIn
<1> QED
  BY <1>1, <1>2 DEF ListsIn

\* Finitely many calls give finitely many middlewares.
LEMMA GiftsFinite ==
  ASSUME NEW l, NEW S, NEW calls, IsFiniteSet(calls),
         \A n \in calls : Given(l[n]) \in Seq(S)
  PROVE  IsFiniteSet(GiftsIn(l, calls))
<1> DEFINE Of(n) == {n} \X DOMAIN Given(l[n])
           parts == {Of(n) : n \in calls}
<1>1. ASSUME NEW n \in calls
      PROVE  IsFiniteSet(Of(n))
  <2>1. DOMAIN Given(l[n]) = 1 .. Len(Given(l[n])) /\ Len(Given(l[n])) \in Nat
    BY LenProperties
  <2>2. IsFiniteSet(DOMAIN Given(l[n]))
    BY <2>1, FS_Interval
  <2> QED
    BY <2>2, FS_Singleton, FS_Product
<1>2. IsFiniteSet(parts)
  <2> DEFINE f == [n \in calls |-> Of(n)]
  <2>1. f \in Surjection(calls, parts)
    <3> HIDE DEF Of
    <3> QED
      BY DEF Surjection
  <2> HIDE DEF f, parts
  <2> QED
    BY <2>1, FS_Surjection
<1> QED
  BY <1>1, <1>2, FS_UNION DEF GiftsIn

\* A later call's gifts go to the end of the list.
LEMMA ListsMore ==
  ASSUME NEW l, NEW S, NEW list \in Seq(S), NEW calls, NEW N \in Nat,
         IsFiniteSet(calls), calls \subseteq Nat, \A n \in calls : n < N,
         \A n \in calls \cup {N} : Given(l[n]) \in Seq(S),
         ListsIn(l, list, calls)
  PROVE  ListsIn(l, list \o Given(l[N]), calls \cup {N})
<1> DEFINE given == Given(l[N])
           gifts == GiftsIn(l, calls)
           more == {N} \X DOMAIN given
           all == gifts \cup more
           longer == list \o given
<1>1. /\ given \in Seq(S) /\ Len(given) \in Nat /\ DOMAIN given = 1 .. Len(given)
      /\ Len(list) \in Nat /\ DOMAIN list = 1 .. Len(list)
  BY LenProperties
<1>2. /\ Len(longer) = Len(list) + Len(given)
      /\ \A i \in 1 .. Len(list) : longer[i] = list[i]
      /\ \A i \in 1 .. Len(given) : longer[Len(list) + i] = given[i]
  <2> HIDE DEF given
  <2> QED
    BY <1>1, ConcatProperties
<1>3. all = GiftsIn(l, calls \cup {N})
  BY DEF GiftsIn
<1>4. IsFiniteSet(gifts) /\ Len(list) = Cardinality(gifts)
  BY GiftsFinite DEF ListsIn
<1>5. ASSUME NEW j \in 0 .. Len(given)
      PROVE  /\ IsFiniteSet({N} \X (1 .. j)) /\ Cardinality({N} \X (1 .. j)) = j
             /\ gifts \cap ({N} \X (1 .. j)) = {}
             /\ Cardinality(gifts \cup ({N} \X (1 .. j))) = Len(list) + j
  <2>1. IsFiniteSet(1 .. j) /\ Cardinality(1 .. j) = j
    BY <1>1, FS_Interval
  <2>2. IsFiniteSet({N}) /\ Cardinality({N}) = 1
    BY FS_Singleton
  <2>3. IsFiniteSet({N} \X (1 .. j)) /\ Cardinality({N} \X (1 .. j)) = 1 * j
    BY <2>1, <2>2, FS_Product
  <2>4. gifts \cap ({N} \X (1 .. j)) = {}
    <3>1. \A x \in gifts : x[1] # N
      BY DEF GiftsIn
    <3>2. \A x \in {N} \X (1 .. j) : x[1] = N
      OBVIOUS
    <3> HIDE DEF gifts
    <3> QED
      BY <3>1, <3>2
  <2>5. Cardinality(gifts \cup ({N} \X (1 .. j))) = Len(list) + 1 * j - 0
    <3> DEFINE block == {N} \X (1 .. j)
    <3>1. IsFiniteSet(block) /\ Cardinality(block) = 1 * j /\ gifts \cap block = {}
      BY <2>3, <2>4
    <3> HIDE DEF gifts, block
    <3>2. Cardinality(gifts \cup block) = Len(list) + 1 * j - Cardinality(gifts \cap block)
      BY <1>4, <3>1, FS_Union
    <3>3. Cardinality(gifts \cup block) = Len(list) + 1 * j - 0
      BY <3>1, <3>2, FS_EmptySet
    <3> QED
      BY <3>3 DEF block
  <2> QED
    BY <1>1, <2>3, <2>4, <2>5
<1>6. Cardinality(all) = Len(longer)
  BY <1>1, <1>2, <1>5, Len(given) \in 0 .. Len(given)
<1>7. ASSUME NEW x \in gifts
      PROVE  longer[Cardinality(UpTo(x, all))] = Given(l[x[1]])[x[2]]
  <2>1. x[1] \in calls /\ x[1] \in Nat /\ x[1] < N /\ x[2] \in DOMAIN Given(l[x[1]])
    BY DEF GiftsIn
  <2>2. x[2] \in Nat
    BY <2>1, LenProperties
  <2>3. UpTo(x, all) = UpTo(x, gifts)
    BY <2>1, <2>2 DEF UpTo
  <2>4. Cardinality(UpTo(x, gifts)) \in 1 .. Len(list)
    <3> HIDE DEF gifts
    <3>1. UpTo(x, gifts) \in SUBSET gifts /\ x \in UpTo(x, gifts)
      BY <2>1, <2>2 DEF UpTo
    <3>2. /\ IsFiniteSet(UpTo(x, gifts)) /\ Cardinality(UpTo(x, gifts)) <= Len(list)
      BY <1>4, <3>1, FS_Subset
    <3>3. Cardinality(UpTo(x, gifts)) \in Nat /\ Cardinality(UpTo(x, gifts)) # 0
      BY <3>1, <3>2, FS_CardinalityType, FS_EmptySet
    <3> QED
      BY <1>1, <3>2, <3>3
  <2> HIDE DEF gifts, all, given, longer
  <2>5. longer[Cardinality(UpTo(x, gifts))] = list[Cardinality(UpTo(x, gifts))]
    BY <1>2, <2>4
  <2>6. list[Cardinality(UpTo(x, gifts))] = Given(l[x[1]])[x[2]]
    BY DEF ListsIn, gifts
  <2> QED
    BY <2>3, <2>5, <2>6
<1>8. ASSUME NEW x \in more
      PROVE  longer[Cardinality(UpTo(x, all))] = Given(l[x[1]])[x[2]]
  <2>1. PICK j \in 1 .. Len(given) : x = <<N, j>>
    BY <1>1
  <2>2. UpTo(x, all) = gifts \cup ({N} \X (1 .. j))
    <3>1. \A y \in gifts : y[1] \in Nat /\ y[1] < N
      BY DEF GiftsIn
    <3>2. \A y \in more : y[1] = N /\ y[2] \in Nat /\ y = <<N, y[2]>>
      BY <1>1
    <3>3. {y \in more : y[2] <= j} = {N} \X (1 .. j)
      BY <1>1
    <3> DEFINE Before(y) == y[1] < x[1] \/ (y[1] = x[1] /\ y[2] <= x[2])
               block == {N} \X (1 .. j)
    <3>4. x[1] = N /\ x[2] = j /\ j \in Nat
      BY <1>1, <2>1
    <3>5. \A y \in gifts : Before(y)
      BY <3>1, <3>4
    <3>6. \A y \in more : Before(y) <=> y[2] <= j
      BY <3>2, <3>4
    <3>7. UpTo(x, all) = {y \in all : Before(y)}
      BY DEF UpTo
    <3>8. {y \in more : y[2] <= j} = block
      BY <3>3
    <3> HIDE DEF gifts, more, Before, block
    <3>9. {y \in all : Before(y)} = gifts \cup block
      BY <3>5, <3>6, <3>8
    <3> QED
      BY <3>7, <3>9 DEF block
  <2>3. Cardinality(UpTo(x, all)) = Len(list) + j
    <3>1. j \in 0 .. Len(given)
      BY <1>1, <2>1
    <3> HIDE DEF gifts, all, given
    <3> QED
      BY <1>5, <2>2, <3>1
  <2> HIDE DEF longer, given
  <2> QED
    BY <1>2, <2>1, <2>3 DEF given
<1> HIDE DEF longer, all, gifts, given
<1>9. \A x \in all : longer[Cardinality(UpTo(x, all))] = Given(l[x[1]])[x[2]]
  BY <1>7, <1>8 DEF all, given
<1> QED
  BY <1>3, <1>6, <1>9 DEF ListsIn, longer, given

---------------------------------------------------------------------------
(* What a step does to the history and to the lists. *)

\* No group gets or loses a middleware, and no operation does.
Quiet ==
  /\ UNCHANGED <<history, groups>>
  /\ Len(operations') = Len(operations)
  /\ \A o \in DOMAIN operations : operations'[o].middlewares = operations[o].middlewares

\* A group with this list is made by the call c.
GroupMade(c, list) ==
  /\ log' = Append(log, c) /\ made' = Append(made, Len(log')) /\ mapped' = mapped
  /\ \E h : groups' = Append(groups, h) /\ h.middlewares = list
  /\ UNCHANGED operations

GroupGiven(c) ==
  /\ c.kind = "GroupUse" /\ c.group \in DOMAIN groups /\ c.middleware \in Middlewares
  /\ log' = Append(log, c) /\ made' = made /\ mapped' = mapped
  /\ Len(groups') = Len(groups)
  /\ \A k \in DOMAIN groups :
       groups'[k].middlewares =
         IF k = c.group THEN groups[k].middlewares \o <<c.middleware>> ELSE groups[k].middlewares
  /\ UNCHANGED operations

OperationMapped(c) ==
  /\ c.kind = "Map" /\ c.group \in DOMAIN groups
  /\ log' = Append(log, c) /\ made' = made /\ mapped' = Append(mapped, Len(log'))
  /\ \E d : operations' = Append(operations, d) /\ d.middlewares = groups[c.group].middlewares
  /\ UNCHANGED groups

OperationGiven(c) ==
  /\ c.kind = "Mutate" /\ c.operation \in DOMAIN operations
  /\ c.set.values \in Seq(Middlewares \cup {Nil}) /\ c.set.field = "middlewares"
  /\ log' = Append(log, c) /\ made' = made /\ mapped' = mapped
  /\ Len(operations') = Len(operations)
  /\ \A o \in DOMAIN operations :
       operations'[o].middlewares =
         IF o = c.operation THEN operations[o].middlewares \o UpToNil(c.set.values)
                            ELSE operations[o].middlewares
  /\ UNCHANGED groups

LogStep ==
  \/ Quiet
  \/ GroupMade([kind |-> "AppGroup"], <<>>)
  \/ \E c \in Calls :
       \/ c.kind = "Group" /\ c.group \in DOMAIN groups
          /\ GroupMade(c, groups[c.group].middlewares)
       \/ GroupGiven(c) \/ OperationMapped(c) \/ OperationGiven(c)

\* Without the end of a critical section only App.Group tells something.
LEMMA StepOutside ==
  ASSUME Inductive, Recorded, Record, ~Done, UNCHANGED operations,
         \/ UNCHANGED groups
         \/ \E h : groups' = Append(groups, h) /\ h.middlewares = <<>>
  PROVE  LogStep
<1>1. groups \in Seq(GroupType) /\ operations \in Seq(Definitions)
  BY DEF Inductive, TypeOK
<1>2. mapped' = mapped
  BY <1>1, LenProperties DEF Record, Noted
<1>3. CASE UNCHANGED groups
  <2>1. log' = log /\ made' = made
    BY <1>1, <1>3, LenProperties DEF Record, Noted
  <2> QED
    BY <1>2, <1>3, <2>1 DEF LogStep, Quiet, history
<1>4. ASSUME NEW h, groups' = Append(groups, h), h.middlewares = <<>>
      PROVE  LogStep
  <2>1. Len(groups') > Len(groups)
    BY <1>1, <1>4, LenProperties
  <2>2. log' = Append(log, [kind |-> "AppGroup"]) /\ made' = Append(made, Len(log'))
    BY <2>1 DEF Record, Noted
  <2> QED
    BY <1>2, <1>4, <2>2 DEF LogStep, GroupMade
<1> QED
  BY <1>3, <1>4

\* What each critical section tells.
LEMMA StepInside ==
  ASSUME Inductive, Recorded, Record, NEW g \in Goroutines, CriticalSection(g)
  PROVE  LogStep
<1> DEFINE c == call[g]
<1>1. /\ groups \in Seq(GroupType) /\ operations \in Seq(Definitions)
      /\ result \in [Goroutines -> Results] /\ c \in Calls /\ Nobody \notin Goroutines
  BY ConstantsAssumption DEF Inductive, TypeOK
<1>2. pc[g] = "locked" /\ mu = g /\ mu' = Nobody
  BY CriticalSectionMoves DEF Inductive, MutexOwner
<1>3. HandleExists(c) /\ ~Refused(c)
  BY <1>2 DEF Inductive, CallsReady
<1>4. Done <=> result'[g] \in {"ok", "nilMiddleware"}
  BY <1>1, <1>2 DEF Done
<1>5. ASSUME NEW r, Leave(g, r)
      PROVE  result'[g] = r
  BY <1>1, <1>5 DEF Leave, Finish
<1>6. ASSUME ~Tells(c), UNCHANGED groups, Len(operations') = Len(operations),
             \A o \in DOMAIN operations :
               operations'[o].middlewares = operations[o].middlewares
      PROVE  LogStep
  <2>1. log' = log /\ made' = made /\ mapped' = mapped
    BY <1>1, <1>2, <1>6, LenProperties DEF Record, Noted
  <2> QED
    BY <1>6, <2>1 DEF LogStep, Quiet, history
<1>7. ASSUME UNCHANGED <<groups, operations>>, ~Done \/ ~Tells(c)
      PROVE  LogStep
  <2>1. log' = log /\ made' = made /\ mapped' = mapped
    BY <1>1, <1>2, <1>7, LenProperties DEF Record, Noted
  <2> QED
    BY <1>7, <2>1 DEF LogStep, Quiet, history
<1>8. CASE Use(g) \/ MapOpenAPI(g) \/ MapSwaggerUI(g)
  <2>1. UNCHANGED <<groups, operations>> /\ ~Tells(c)
    BY <1>8 DEF Use, MapOpenAPI, MapSwaggerUI, Inside, Tells
  <2> QED
    BY <1>7, <2>1
<1>9. CASE GroupUse(g)
  <2>1. c.kind = "GroupUse" /\ c.group \in DOMAIN groups /\ c.middleware \in Middlewares
    BY <1>1, <1>3, <1>9, CallShape DEF GroupUse, Inside, HandleExists, Refused
  <2>2. CASE frozen
    <3>1. UNCHANGED <<groups, operations>> /\ Leave(g, "ErrFrozen")
      BY <1>9, <2>2 DEF GroupUse, settings
    <3>2. ~Done
      BY <1>4, <1>5, <3>1
    <3> QED
      BY <1>7, <3>1, <3>2
  <2>3. CASE ~frozen
    <3>1. /\ groups' = [groups EXCEPT ![c.group].middlewares = Append(@, c.middleware)]
          /\ Leave(g, "ok") /\ UNCHANGED operations
      BY <1>9, <2>3 DEF GroupUse, settings
    <3>2. Done /\ Tells(c)
      BY <1>4, <1>5, <2>1, <3>1 DEF Tells
    <3>3. \A k \in DOMAIN groups : groups[k] \in GroupType
      BY <1>1, ElementOfSeq, LenProperties
    <3>4. Append(groups[c.group].middlewares, c.middleware)
            = groups[c.group].middlewares \o <<c.middleware>>
      BY <2>1, <3>3, AppendIsConcat DEF GroupType
    <3>5. Len(groups') = Len(groups) /\ Len(operations') = Len(operations)
      BY <1>1, <3>1, LenProperties
    <3>6. log' = Append(log, c) /\ made' = made /\ mapped' = mapped
      BY <1>1, <1>2, <3>2, <3>5, LenProperties DEF Record, Noted
    <3>7. \A k \in DOMAIN groups :
            groups'[k].middlewares =
              IF k = c.group THEN groups[k].middlewares \o <<c.middleware>>
                             ELSE groups[k].middlewares
      BY <1>1, <3>1, <3>3, <3>4 DEF GroupType
    <3>8. GroupGiven(c)
      BY <2>1, <3>1, <3>5, <3>6, <3>7 DEF GroupGiven
    <3> QED
      BY <1>1, <3>8 DEF LogStep
  <2> QED
    BY <2>2, <2>3
<1>10. CASE ChildGroup(g)
  <2>1. c.kind = "Group" /\ c.group \in DOMAIN groups
    BY <1>3, <1>10 DEF ChildGroup, Inside, HandleExists
  <2>2. PICK h : groups' = Append(groups, h) /\ h.middlewares = groups[c.group].middlewares
    BY <1>10 DEF ChildGroup
  <2>3. Leave(g, "ok") /\ UNCHANGED operations
    BY <1>10 DEF ChildGroup, settings
  <2>4. Done /\ Tells(c)
    BY <1>4, <1>5, <2>1, <2>3 DEF Tells
  <2>5. Len(groups') > Len(groups)
    BY <1>1, <2>2, LenProperties
  <2>6. log' = Append(log, c) /\ made' = Append(made, Len(log')) /\ mapped' = mapped
    BY <1>1, <1>2, <2>3, <2>4, <2>5, LenProperties DEF Record, Noted
  <2>7. GroupMade(c, groups[c.group].middlewares)
    BY <2>2, <2>3, <2>6 DEF GroupMade
  <2> QED
    BY <1>1, <2>1, <2>7 DEF LogStep
<1>11. CASE Map(g)
  <2>1. c.kind = "Map" /\ c.group \in DOMAIN groups
    BY <1>3, <1>11 DEF Map, Inside, HandleExists
  <2>2. CASE frozen
    <3>1. UNCHANGED <<groups, operations>> /\ Leave(g, "ErrFrozen")
      BY <1>11, <2>2 DEF Map
    <3>2. ~Done
      BY <1>4, <1>5, <3>1
    <3> QED
      BY <1>7, <3>1, <3>2
  <2>3. CASE ~frozen
    <3>1. operations' = Append(operations, NewDefinition(c)) /\ Leave(g, "ok")
          /\ UNCHANGED groups
      BY <1>11, <2>3 DEF Map
    <3>2. NewDefinition(c).middlewares = groups[c.group].middlewares
      BY DEF NewDefinition
    <3>3. Done /\ Tells(c)
      BY <1>4, <1>5, <2>1, <3>1 DEF Tells
    <3>4. Len(operations') > Len(operations)
      BY <1>1, <3>1, LenProperties
    <3>5. log' = Append(log, c) /\ made' = made /\ mapped' = Append(mapped, Len(log'))
      BY <1>1, <1>2, <3>1, <3>3, <3>4, LenProperties DEF Record, Noted
    <3>6. OperationMapped(c)
      BY <2>1, <3>1, <3>2, <3>5 DEF OperationMapped
    <3> QED
      BY <1>1, <3>6 DEF LogStep
  <2> QED
    BY <2>2, <2>3
<1>12. CASE MutateOperation(g)
  <2>1. c.kind = "Mutate" /\ c.operation \in DOMAIN operations /\ c.set \in MutateValues
    BY <1>1, <1>3, <1>12, CallShape DEF MutateOperation, Inside, HandleExists
  <2>2. CASE frozen
    <3>1. UNCHANGED <<groups, operations>> /\ Leave(g, "ErrFrozen")
      BY <1>12, <2>2 DEF MutateOperation
    <3>2. ~Done
      BY <1>4, <1>5, <3>1
    <3> QED
      BY <1>7, <3>1, <3>2
  <2>3. CASE ~frozen
    <3>1. /\ operations' = [operations EXCEPT ![c.operation] = Mutated(@, c.set)]
          /\ Leave(g, IF HasNil(c.set) THEN "nilMiddleware" ELSE "ok") /\ UNCHANGED groups
      BY <1>12, <2>3 DEF MutateOperation
    <3>2. Done
      BY <1>4, <1>5, <3>1
    <3>3. \A o \in DOMAIN operations : operations[o] \in Definitions
      BY <1>1, ElementOfSeq, LenProperties
    <3>4. Len(operations') = Len(operations)
      BY <1>1, <3>1, LenProperties
    <3>5. CASE c.set.field = "middlewares"
      <4>1. c.set.values \in Seq(Middlewares \cup {Nil})
        BY <2>1, <3>5 DEF MutateValues
      <4>2. Mutated(operations[c.operation], c.set)
              = [operations[c.operation] EXCEPT !.middlewares = @ \o UpToNil(c.set.values)]
        BY <3>5 DEF Mutated
      <4>3. \A o \in DOMAIN operations :
              operations'[o].middlewares =
                IF o = c.operation THEN operations[o].middlewares \o UpToNil(c.set.values)
                                   ELSE operations[o].middlewares
        BY <1>1, <3>1, <3>3, <4>2 DEF Definitions
      <4>4. log' = Append(log, c) /\ made' = made /\ mapped' = mapped
        BY <1>1, <1>2, <2>1, <3>1, <3>2, <3>4, <3>5, LenProperties DEF Record, Noted, Tells
      <4>5. OperationGiven(c)
        BY <2>1, <3>1, <3>4, <3>5, <4>1, <4>3, <4>4 DEF OperationGiven
      <4> QED
        BY <1>1, <4>5 DEF LogStep
    <3>6. CASE c.set.field # "middlewares"
      <4>1. Mutated(operations[c.operation], c.set).middlewares
              = operations[c.operation].middlewares
        BY <2>1, <3>3, <3>6 DEF Mutated, MutateValues, Definitions
      <4>2. \A o \in DOMAIN operations :
              operations'[o].middlewares = operations[o].middlewares
        BY <1>1, <3>1, <4>1
      <4> QED
        BY <1>6, <2>1, <3>1, <3>4, <3>6, <4>2 DEF Tells
    <3> QED
      BY <3>5, <3>6
  <2> QED
    BY <2>2, <2>3
<1> QED
  BY <1>8, <1>9, <1>10, <1>11, <1>12 DEF CriticalSection

LEMMA LogSteps ==
  ASSUME Inductive, Recorded, [LoggedNext]_<<vars, history>>
  PROVE  LogStep
<1>1. CASE UNCHANGED <<vars, history>>
  BY <1>1 DEF LogStep, Quiet, vars, settings, history
<1>2. CASE LoggedNext
  <2>1. Record /\ Next /\ Nobody \notin Goroutines
    BY <1>2, ConstantsAssumption DEF LoggedNext
  <2>2. CASE UNCHANGED vars
    <3>1. ~Done /\ UNCHANGED <<operations, groups>>
      BY <2>2 DEF Done, vars, settings
    <3> QED
      BY <2>1, <3>1, StepOutside
  <2>3. ASSUME NEW g \in Goroutines, Call(g)
        PROVE  LogStep
    <3>1. ~Done /\ UNCHANGED operations
      BY <2>3, CallMoves DEF Inductive, Done, settings
    <3>2. \/ UNCHANGED groups
          \/ \E h : groups' = Append(groups, h) /\ h.middlewares = <<>>
      BY <2>3 DEF Call, Makes, RefuseCall, AppGroup, StartLocked, StartBuild
    <3> QED
      BY <2>1, <3>1, <3>2, StepOutside
  <2>4. ASSUME NEW g \in Goroutines,
               \/ Lock(g) \/ EnterOnce(g) \/ ReturnFromBuild(g) \/ Compilation(g)
               \/ UserReturns(g) \/ UserPanics(g)
        PROVE  LogStep
    <3>1. UNCHANGED <<operations, groups>> /\ (mu = Nobody \/ mu' = mu)
      BY <2>4, CompilationMoves
         DEF Lock, EnterOnce, ReturnFromBuild, UserReturns, UserPanics, settings
    <3>2. ~Done
      BY <3>1 DEF Done
    <3> QED
      BY <2>1, <3>1, <3>2, StepOutside
  <2>5. ASSUME NEW g \in Goroutines, TakeSnapshot(g)
        PROVE  LogStep
    <3>1. UNCHANGED <<operations, groups>> /\ pc[g] = "snapshot"
      BY <2>5 DEF TakeSnapshot, Building, settings
    <3>2. mu = g
      BY <3>1 DEF Inductive, MutexOwner
    <3>3. ~Done
      BY <3>1, <3>2 DEF Done
    <3> QED
      BY <2>1, <3>1, <3>3, StepOutside
  <2>6. ASSUME NEW g \in Goroutines, CriticalSection(g)
        PROVE  LogStep
    BY <2>1, <2>6, StepInside
  <2> QED
    BY <2>1, <2>2, <2>3, <2>4, <2>5, <2>6, StepKinds
<1> QED
  BY <1>1, <1>2

---------------------------------------------------------------------------
(* What a call more in the log leaves as it was. *)

Entries == Calls \cup {[kind |-> "AppGroup"]}

\* The call c takes effect, and may make a group or an operation.
Adds(c) ==
  /\ c \in Entries
  /\ log' = Append(log, c)
  /\ made' = made \/ made' = Append(made, Len(log'))
  /\ mapped' = mapped \/ mapped' = Append(mapped, Len(log'))

LEMMA LogAfter ==
  ASSUME Recorded, NEW c, Adds(c)
  PROVE  /\ Len(log) + 1 \in Nat /\ Len(log') = Len(log) + 1
         /\ DOMAIN log' = DOMAIN log \cup {Len(log) + 1} /\ Len(log) + 1 \notin DOMAIN log
         /\ log' \in Seq(Entries) /\ log'[Len(log) + 1] = c
         /\ \A n \in DOMAIN log : n \in Nat /\ n < Len(log) + 1 /\ log'[n] = log[n]
<1>1. log \in Seq(Entries) /\ c \in Entries /\ log' = Append(log, c)
  BY DEF Recorded, Adds, Entries
<1> QED
  BY <1>1, AppendProperties, LenProperties

LEMMA MadeAfter ==
  ASSUME Recorded, NEW c, Adds(c)
  PROVE  /\ DOMAIN made \subseteq DOMAIN made' /\ DOMAIN mapped \subseteq DOMAIN mapped'
         /\ made' \in Seq(Nat) /\ mapped' \in Seq(Nat)
         /\ \A k \in DOMAIN made : made'[k] = made[k]
         /\ \A o \in DOMAIN mapped : mapped'[o] = mapped[o]
         /\ made' # made => /\ Len(made') = Len(made) + 1
                            /\ DOMAIN made' = DOMAIN made \cup {Len(made) + 1}
                            /\ Len(made) + 1 \notin DOMAIN made
                            /\ made'[Len(made) + 1] = Len(log) + 1
         /\ mapped' # mapped => /\ Len(mapped') = Len(mapped) + 1
                                /\ DOMAIN mapped' = DOMAIN mapped \cup {Len(mapped) + 1}
                                /\ Len(mapped) + 1 \notin DOMAIN mapped
                                /\ mapped'[Len(mapped) + 1] = Len(log) + 1
<1>1. made \in Seq(Nat) /\ mapped \in Seq(Nat)
  BY DEF Recorded
<1>2. Len(log') = Len(log) + 1 /\ Len(log') \in Nat
  BY LogAfter
<1>3. made' = made \/ made' = Append(made, Len(log'))
  BY DEF Adds
<1>4. mapped' = mapped \/ mapped' = Append(mapped, Len(log'))
  BY DEF Adds
<1>5. ASSUME NEW q \in Seq(Nat), NEW n \in Nat
      PROVE  /\ Append(q, n) \in Seq(Nat) /\ Len(Append(q, n)) = Len(q) + 1
             /\ DOMAIN Append(q, n) = DOMAIN q \cup {Len(q) + 1}
             /\ Len(q) + 1 \notin DOMAIN q
             /\ Append(q, n)[Len(q) + 1] = n
             /\ \A k \in DOMAIN q : Append(q, n)[k] = q[k]
  BY AppendProperties, LenProperties
<1>6. CASE made' = made
  <2>1. CASE mapped' = mapped
    BY <1>1, <1>6, <2>1
  <2>2. CASE mapped' = Append(mapped, Len(log'))
    BY <1>1, <1>2, <1>5, <1>6, <2>2
  <2> QED
    BY <1>4, <2>1, <2>2
<1>7. CASE made' = Append(made, Len(log'))
  <2>1. CASE mapped' = mapped
    BY <1>1, <1>2, <1>5, <1>7, <2>1
  <2>2. CASE mapped' = Append(mapped, Len(log'))
    BY <1>1, <1>2, <1>5, <1>7, <2>2
  <2> QED
    BY <1>4, <2>1, <2>2
<1> QED
  BY <1>3, <1>6, <1>7

LEMMA ParentsKept ==
  ASSUME Recorded, NEW c, Adds(c), NEW k \in DOMAIN made
  PROVE  IsChild(k)' = IsChild(k) /\ Parent(k)' = Parent(k)
<1>1. made[k] \in DOMAIN log /\ made'[k] = made[k]
  BY MadeAfter DEF Recorded
<1> QED
  BY <1>1, LogAfter DEF IsChild, Parent

\* The groups above a group are groups, and so are theirs.
LEMMA ParentMade ==
  ASSUME Recorded, NEW k \in DOMAIN made, IsChild(k)
  PROVE  Parent(k) \in DOMAIN made
BY DEF Recorded, IsChild, Parent

\* These groups come with those above them.
Upward(S) == \A s \in S : IsChild(s) => Parent(s) \in S

LEMMA LineUpward ==
  ASSUME Recorded, NEW group \in DOMAIN made
  PROVE  /\ Upward(DOMAIN made)
         /\ Line(group) =
              {k \in DOMAIN made : \A S \in SUBSET DOMAIN made : group \in S /\ Upward(S) => k \in S}
         /\ group \in Line(group) /\ Line(group) \subseteq DOMAIN made /\ Upward(Line(group))
<1>1. Upward(DOMAIN made)
  BY ParentMade DEF Upward
<1>2. Line(group) = {k \in DOMAIN made : \A S \in SUBSET DOMAIN made : group \in S /\ Upward(S) => k \in S}
  BY DEF Line, Upward
<1>3. ASSUME NEW k \in Line(group), IsChild(k)
      PROVE  Parent(k) \in Line(group)
  <2>1. k \in DOMAIN made /\ Parent(k) \in DOMAIN made
    BY <1>2, <1>3, ParentMade
  <2>2. \A S \in SUBSET DOMAIN made : group \in S /\ Upward(S) => Parent(k) \in S
    BY <1>2, <1>3 DEF Upward
  <2> QED
    BY <1>2, <2>1, <2>2
<1> QED
  BY <1>1, <1>2, <1>3 DEF Upward

\* The line of a group never changes.
LEMMA LineKept ==
  ASSUME Recorded, NEW c, Adds(c), NEW group \in DOMAIN made
  PROVE  Line(group)' = Line(group)
<1>1. DOMAIN made \subseteq DOMAIN made'
  BY MadeAfter
<1>2. ASSUME NEW S \in SUBSET DOMAIN made
      PROVE  Upward(S) <=> Upward(S)'
  BY ParentsKept DEF Upward
<1>3. ASSUME NEW T, Upward(T)'
      PROVE  Upward(T \cap DOMAIN made)
  BY <1>3, ParentsKept, ParentMade DEF Upward
<1>4. ASSUME NEW k \in Line(group)'
      PROVE  k \in Line(group)
  <2>1. k \in DOMAIN made' /\ \A S \in SUBSET DOMAIN made' : group \in S /\ Upward(S)' => k \in S
    BY <1>4 DEF Line, Upward
  <2>2. \A S \in SUBSET DOMAIN made : group \in S /\ Upward(S) => k \in S
    BY <1>1, <1>2, <2>1
  <2>3. k \in DOMAIN made
    BY <2>2, LineUpward
  <2> QED
    BY <2>2, <2>3, LineUpward
<1>5. ASSUME NEW k \in Line(group)
      PROVE  k \in Line(group)'
  <2>1. ASSUME NEW T \in SUBSET DOMAIN made', group \in T, Upward(T)'
        PROVE  k \in T
    <3>1. group \in T \cap DOMAIN made /\ Upward(T \cap DOMAIN made)
      BY <1>3, <2>1
    <3>2. T \cap DOMAIN made \in SUBSET DOMAIN made
      OBVIOUS
    <3>3. k \in T \cap DOMAIN made
      BY <1>5, <3>1, <3>2, LineUpward
    <3> QED
      BY <3>3
  <2>2. k \in DOMAIN made'
    BY <1>1, <1>5, LineUpward
  <2> QED
    BY <2>1, <2>2 DEF Line, Upward
<1> QED
  BY <1>4, <1>5

\* A new group comes below the line of its parent, or stands alone.
LEMMA LineMade ==
  ASSUME Recorded, NEW c, Adds(c), made' # made, NEW new, new = Len(made) + 1
  PROVE  /\ c.kind # "Group" => Line(new)' = {new} /\ ~IsChild(new)'
         /\ c.kind = "Group" /\ c.group \in DOMAIN made =>
              /\ IsChild(new)' /\ Parent(new)' = c.group
              /\ Line(new)' = {new} \cup Line(c.group)
<1>1. /\ DOMAIN made' = DOMAIN made \cup {new} /\ new \notin DOMAIN made
      /\ made'[new] = Len(log) + 1 /\ log'[Len(log) + 1] = c
  BY LogAfter, MadeAfter
<1>2. /\ IsChild(new)' <=> c.kind = "Group"
      /\ Parent(new)' = c.group
  BY <1>1 DEF IsChild, Parent
<1>3. ASSUME NEW k
      PROVE  k \in Line(new)' <=>
               k \in DOMAIN made' /\ \A S \in SUBSET DOMAIN made' : new \in S /\ Upward(S)' => k \in S
  BY DEF Line, Upward
<1>4. ASSUME c.kind # "Group"
      PROVE  Line(new)' = {new}
  <2>1. Upward({new})' /\ {new} \in SUBSET DOMAIN made'
    BY <1>1, <1>2, <1>4 DEF Upward
  <2> QED
    BY <1>1, <1>3, <2>1
<1>5. ASSUME c.kind = "Group", c.group \in DOMAIN made
      PROVE  Line(new)' = {new} \cup Line(c.group)
  <2> DEFINE line == Line(c.group)
  <2>1. line \subseteq DOMAIN made /\ Upward(line) /\ c.group \in line
    BY <1>5, LineUpward
  <2>2. ASSUME NEW S, S = line
        PROVE  Upward({new} \cup S)'
    BY <1>2, <1>5, <2>1, <2>2, ParentsKept DEF Upward
  <2>3. ASSUME NEW k \in Line(new)'
        PROVE  k \in {new} \cup line
    <3>1. PICK S : S = line
      OBVIOUS
    <3>2. Upward({new} \cup S)' /\ {new} \cup S \in SUBSET DOMAIN made'
      BY <1>1, <2>1, <2>2, <3>1
    <3> QED
      BY <1>3, <2>3, <3>1, <3>2
  <2>4. ASSUME NEW k \in line
        PROVE  k \in Line(new)'
    <3>1. Line(c.group)' = line
      BY <1>5, LineKept
    <3>2. ASSUME NEW S \in SUBSET DOMAIN made', new \in S, Upward(S)'
          PROVE  k \in S
      <4>1. c.group \in S
        BY <1>2, <1>5, <3>2 DEF Upward
      <4>2. \A T \in SUBSET DOMAIN made' : c.group \in T /\ Upward(T)' => k \in T
        BY <2>4, <3>1 DEF Line, Upward
      <4> QED
        BY <3>2, <4>1, <4>2
    <3> QED
      BY <1>1, <1>3, <2>1, <3>2
  <2>5. new \in Line(new)'
    BY <1>1, <1>3
  <2> QED
    BY <2>3, <2>4, <2>5
<1> QED
  BY <1>2, <1>4, <1>5

\* Who hears the calls so far does not change, and of the groups there are only
\* the one it is made on hears the new call.
LEMMA HearsAfter ==
  ASSUME Recorded, NEW c, Adds(c), NEW group \in DOMAIN made
  PROVE  /\ \A n \in DOMAIN log : Hears(group, n)' <=> Hears(group, n)
         /\ \A n \in DOMAIN log' \ DOMAIN log :
              Hears(group, n)' <=> c.kind = "GroupUse" /\ c.group = group
<1>1. /\ Line(group)' = Line(group) /\ Line(group) \subseteq DOMAIN made
      /\ \A k \in DOMAIN made :
           /\ IsChild(k)' = IsChild(k) /\ Parent(k)' = Parent(k)
           /\ made'[k] = made[k] /\ made[k] \in DOMAIN log
  BY LineKept, LineUpward, ParentsKept, MadeAfter DEF Recorded
<1>2. ASSUME NEW n \in DOMAIN log
      PROVE  Hears(group, n)' <=> Hears(group, n)
  BY <1>1, LogAfter DEF Hears
<1>3. ASSUME NEW n \in DOMAIN log' \ DOMAIN log
      PROVE  Hears(group, n)' <=> c.kind = "GroupUse" /\ c.group = group
  <2>1. n = Len(log) + 1 /\ log'[n] = c /\ \A k \in DOMAIN made : ~(n < made'[k])
    BY <1>1, LogAfter
  <2> QED
    BY <1>1, <2>1 DEF Hears
<1> QED
  BY <1>2, <1>3

\* A new child hears what its parent heard, a new group of the App nothing.
LEMMA MadeHears ==
  ASSUME Recorded, NEW c, Adds(c), made' # made, NEW new, new = Len(made) + 1
  PROVE  \A n \in DOMAIN log' :
           /\ c.kind = "AppGroup" => ~Hears(new, n)'
           /\ c.kind = "Group" /\ c.group \in DOMAIN made =>
                (Hears(new, n)' <=> n \in DOMAIN log /\ Hears(c.group, n))
<1>1. /\ made'[new] = Len(log) + 1 /\ new \notin DOMAIN made
      /\ \A k \in DOMAIN made :
           IsChild(k)' = IsChild(k) /\ Parent(k)' = Parent(k) /\ made'[k] = made[k]
  BY ParentsKept, MadeAfter
<1>2. ASSUME NEW n \in DOMAIN log
      PROVE  /\ log'[n] = log[n] /\ n < made'[new]
             /\ log[n].kind = "GroupUse" => log[n].group # new
  BY <1>1, LogAfter DEF Recorded
<1>3. ASSUME NEW n \in DOMAIN log' \ DOMAIN log
      PROVE  log'[n] = c
  BY LogAfter
<1>4. ASSUME c.kind = "AppGroup", NEW n \in DOMAIN log'
      PROVE  ~Hears(new, n)'
  <2>1. Line(new)' = {new} /\ ~IsChild(new)'
    BY <1>4, LineMade
  <2> QED
    BY <1>2, <1>3, <1>4, <2>1 DEF Hears
<1>5. ASSUME c.kind = "Group", c.group \in DOMAIN made, NEW n \in DOMAIN log'
      PROVE  Hears(new, n)' <=> n \in DOMAIN log /\ Hears(c.group, n)
  <2>1. /\ IsChild(new)' /\ Parent(new)' = c.group /\ Line(new)' = {new} \cup Line(c.group)
        /\ Line(c.group) \subseteq DOMAIN made
    BY <1>5, LineMade, LineUpward
  <2>2. CASE n \in DOMAIN log
    BY <1>1, <1>2, <1>5, <2>1, <2>2 DEF Hears
  <2>3. CASE n \notin DOMAIN log
    BY <1>3, <1>5, <2>3 DEF Hears
  <2> QED
    BY <2>2, <2>3
<1> QED
  BY <1>4, <1>5

\* The same of the operations.
LEMMA ReachesAfter ==
  ASSUME Recorded, NEW c, Adds(c), NEW o \in DOMAIN mapped
  PROVE  /\ \A n \in DOMAIN log : Reaches(n, o)' <=> Reaches(n, o)
         /\ \A n \in DOMAIN log' \ DOMAIN log :
              Reaches(n, o)' <=> c.kind = "Mutate" /\ c.operation = o
<1>1. /\ mapped[o] \in DOMAIN log /\ log[mapped[o]].group \in DOMAIN made
      /\ mapped'[o] = mapped[o] /\ log'[mapped[o]] = log[mapped[o]]
  BY LogAfter, MadeAfter DEF Recorded
<1>2. PICK group \in DOMAIN made : group = log[mapped[o]].group
  BY <1>1
<1>3. ASSUME NEW n \in DOMAIN log'
      PROVE  /\ Reaches(n, o) <=>
                  (n < mapped[o] /\ Hears(group, n))
                    \/ (log[n].kind = "Mutate" /\ log[n].operation = o)
             /\ Reaches(n, o)' <=>
                  (n < mapped[o] /\ Hears(group, n)')
                    \/ (log'[n].kind = "Mutate" /\ log'[n].operation = o)
  BY <1>1, <1>2 DEF Reaches, Hears
<1>4. ASSUME NEW n \in DOMAIN log
      PROVE  Reaches(n, o)' <=> Reaches(n, o)
  BY <1>3, HearsAfter, LogAfter
<1>5. ASSUME NEW n \in DOMAIN log' \ DOMAIN log
      PROVE  Reaches(n, o)' <=> c.kind = "Mutate" /\ c.operation = o
  <2>1. log'[n] = c /\ ~(n < mapped[o])
    BY <1>1, LogAfter
  <2> QED
    BY <1>3, <2>1
<1> QED
  BY <1>4, <1>5

\* What reaches a new operation is what its group heard.
LEMMA MappedReached ==
  ASSUME Recorded, NEW c, Adds(c), mapped' # mapped, c.kind = "Map", c.group \in DOMAIN made,
         NEW new, new = Len(mapped) + 1
  PROVE  \A n \in DOMAIN log' : Reaches(n, new)' <=> n \in DOMAIN log /\ Hears(c.group, n)
<1>1. /\ mapped'[new] = Len(log) + 1 /\ log'[Len(log) + 1] = c /\ new \notin DOMAIN mapped
  BY LogAfter, MadeAfter
<1>2. ASSUME NEW n \in DOMAIN log'
      PROVE  Reaches(n, new)' <=>
               (n < Len(log) + 1 /\ Hears(c.group, n)')
                 \/ (log'[n].kind = "Mutate" /\ log'[n].operation = new)
  BY <1>1 DEF Reaches, Hears
<1>3. ASSUME NEW n \in DOMAIN log
      PROVE  /\ n < Len(log) + 1 /\ (Hears(c.group, n)' <=> Hears(c.group, n))
             /\ ~(log'[n].kind = "Mutate" /\ log'[n].operation = new)
  <2>1. n < Len(log) + 1 /\ log'[n] = log[n]
    BY LogAfter
  <2>2. log[n].kind = "Mutate" => log[n].operation # new
    BY <1>1 DEF Recorded
  <2> QED
    BY <2>1, <2>2, HearsAfter
<1>4. ASSUME NEW n \in DOMAIN log' \ DOMAIN log
      PROVE  ~(n < Len(log) + 1) /\ log'[n] = c
  BY LogAfter
<1>5. DOMAIN log \subseteq DOMAIN log'
  BY LogAfter
<1> QED
  BY <1>2, <1>3, <1>4, <1>5

---------------------------------------------------------------------------
(* Each step keeps the history and the lists. *)

LEMMA Addings ==
  ASSUME NEW c
  PROVE  /\ \A list : c \in Entries /\ GroupMade(c, list) => Adds(c)
         /\ c \in Calls /\ (GroupGiven(c) \/ OperationMapped(c) \/ OperationGiven(c)) => Adds(c)
BY DEF Adds, Entries, GroupMade, GroupGiven, OperationMapped, OperationGiven

\* A call that takes effect names what exists.
LEMMA AddsRecorded ==
  ASSUME Recorded, NEW c, Adds(c),
         Len(made') = Len(groups'), Len(mapped') = Len(operations'),
         mapped' # mapped => c.kind = "Map",
         c.kind \in {"Group", "GroupUse", "Map"} => c.group \in DOMAIN made,
         c.kind = "GroupUse" => c.middleware \in Middlewares,
         c.kind = "Mutate" => /\ c.operation \in DOMAIN mapped
                              /\ c.set.values \in Seq(Middlewares \cup {Nil})
  PROVE  Recorded'
<1>1. log' \in Seq(Entries) /\ made' \in Seq(Nat) /\ mapped' \in Seq(Nat)
  BY LogAfter, MadeAfter
<1>2. ASSUME NEW n \in DOMAIN log'
      PROVE  /\ log'[n].kind \in {"Group", "GroupUse", "Map"} => log'[n].group \in DOMAIN made'
             /\ log'[n].kind = "GroupUse" => log'[n].middleware \in Middlewares
             /\ log'[n].kind = "Mutate" =>
                  /\ log'[n].operation \in DOMAIN mapped'
                  /\ log'[n].set.values \in Seq(Middlewares \cup {Nil})
  <2>1. DOMAIN made \subseteq DOMAIN made' /\ DOMAIN mapped \subseteq DOMAIN mapped'
    BY MadeAfter
  <2>2. CASE n \in DOMAIN log
    <3>1. log'[n] = log[n]
      BY <2>2, LogAfter
    <3> QED
      BY <2>1, <2>2, <3>1 DEF Recorded
  <2>3. CASE n \notin DOMAIN log
    <3>1. log'[n] = c
      BY <1>2, <2>3, LogAfter
    <3> QED
      BY <2>1, <3>1
  <2> QED
    BY <2>2, <2>3
<1>3. ASSUME NEW k \in DOMAIN made'
      PROVE  made'[k] \in DOMAIN log'
  BY MadeAfter, LogAfter DEF Recorded
<1>4. ASSUME NEW o \in DOMAIN mapped'
      PROVE  mapped'[o] \in DOMAIN log' /\ log'[mapped'[o]].kind = "Map"
  <2>1. CASE o \in DOMAIN mapped
    <3>1. mapped'[o] = mapped[o] /\ mapped[o] \in DOMAIN log /\ log[mapped[o]].kind = "Map"
      BY <2>1, MadeAfter DEF Recorded
    <3> QED
      BY <3>1, LogAfter
  <2>2. CASE o \notin DOMAIN mapped
    <3>1. mapped' # mapped
      BY <1>4, <2>2
    <3>2. mapped'[o] = Len(log) + 1
      BY <1>4, <2>2, <3>1, MadeAfter
    <3> QED
      BY <3>1, <3>2, LogAfter
  <2> QED
    BY <2>1, <2>2
<1> QED
  BY <1>1, <1>2, <1>3, <1>4 DEF Recorded, Entries

LEMMA StepRecorded ==
  ASSUME Inductive, Recorded, LogStep
  PROVE  Recorded'
<1>1. /\ groups \in Seq(GroupType) /\ operations \in Seq(Definitions)
      /\ Len(made) = Len(groups) /\ Len(mapped) = Len(operations)
      /\ DOMAIN made = DOMAIN groups /\ DOMAIN mapped = DOMAIN operations
  BY LenProperties DEF Inductive, TypeOK, Recorded
<1>2. CASE Quiet
  BY <1>2 DEF Quiet, history, Recorded, IsChild, Parent
<1>3. ASSUME NEW c \in Entries, NEW list, GroupMade(c, list),
             c.kind \in {"AppGroup", "Group"}, c.kind = "Group" => c.group \in DOMAIN groups
      PROVE  Recorded'
  <2>1. Adds(c) /\ mapped' = mapped
    BY <1>3, Addings DEF GroupMade
  <2>2. Len(groups') = Len(groups) + 1 /\ operations' = operations
    BY <1>1, <1>3, LenProperties DEF GroupMade
  <2>3. Len(made') = Len(made) + 1
    <3>1. made' = Append(made, Len(log')) /\ made \in Seq(Nat)
      BY <1>3 DEF GroupMade, Recorded
    <3> QED
      BY <3>1, LenProperties
  <2> QED
    BY <1>1, <1>3, <2>1, <2>2, <2>3, AddsRecorded
<1>4. ASSUME NEW c \in Calls, GroupGiven(c) \/ OperationGiven(c)
      PROVE  Recorded'
  <2>1. /\ Adds(c) /\ made' = made /\ mapped' = mapped
        /\ Len(groups') = Len(groups) /\ Len(operations') = Len(operations)
    BY <1>4, Addings DEF GroupGiven, OperationGiven
  <2> QED
    BY <1>1, <1>4, <2>1, AddsRecorded DEF GroupGiven, OperationGiven
<1>5. ASSUME NEW c \in Calls, OperationMapped(c)
      PROVE  Recorded'
  <2>1. /\ Adds(c) /\ made' = made /\ groups' = groups
    BY <1>5, Addings DEF OperationMapped
  <2>2. Len(operations') = Len(operations) + 1
    BY <1>1, <1>5, LenProperties DEF OperationMapped
  <2>3. Len(mapped') = Len(mapped) + 1
    <3>1. mapped' = Append(mapped, Len(log')) /\ mapped \in Seq(Nat)
      BY <1>5 DEF OperationMapped, Recorded
    <3> QED
      BY <3>1, LenProperties
  <2> QED
    BY <1>1, <1>5, <2>1, <2>2, <2>3, AddsRecorded DEF OperationMapped
<1>6. [kind |-> "AppGroup"] \in Entries /\ Calls \subseteq Entries
  BY DEF Entries
<1> QED
  BY <1>2, <1>3, <1>4, <1>5, <1>6 DEF LogStep

\* The calls behind a list are finitely many, and give middlewares.
LEMMA GivingCalls ==
  ASSUME Recorded, NEW calls \in SUBSET DOMAIN log,
         \A n \in calls : log[n].kind \in {"GroupUse", "Mutate"}
  PROVE  /\ IsFiniteSet(calls) /\ calls \subseteq Nat
         /\ \A n \in calls : Given(log[n]) \in Seq(Middlewares)
<1>1. DOMAIN log = 1 .. Len(log) /\ Len(log) \in Nat
  BY LenProperties DEF Recorded
<1>2. IsFiniteSet(calls)
  <2>1. IsFiniteSet(DOMAIN log)
    BY <1>1, FS_Interval
  <2> QED
    BY <2>1, FS_Subset
<1>3. ASSUME NEW n \in calls
      PROVE  Given(log[n]) \in Seq(Middlewares)
  <2>1. CASE log[n].kind = "GroupUse"
    BY <2>1 DEF Given, Recorded
  <2>2. CASE log[n].kind = "Mutate"
    <3>1. UpToNil(log[n].set.values) \in Seq(Middlewares)
      BY <2>2, UpToNilType DEF Recorded
    <3> QED
      BY <2>2, <3>1 DEF Given
  <2> QED
    BY <2>1, <2>2
<1> QED
  BY <1>1, <1>2, <1>3

\* What the call c adds to a list of the calls so far.
LEMMA ListGrows ==
  ASSUME Recorded, NEW c, Adds(c), NEW list \in Seq(Middlewares),
         NEW calls \in SUBSET DOMAIN log,
         \A n \in calls : log[n].kind \in {"GroupUse", "Mutate"},
         ListsIn(log, list, calls)
  PROVE  /\ ListsIn(log', list, calls)
         /\ Given(c) \in Seq(Middlewares) =>
              ListsIn(log', list \o Given(c), calls \cup {Len(log) + 1})
<1>1. \A n \in calls : log[n] = log'[n] /\ n < Len(log) + 1
  BY LogAfter
<1>2. log'[Len(log) + 1] = c /\ Len(log) + 1 \in Nat
  BY LogAfter
<1>3. PICK l : l = log'
  OBVIOUS
<1>4. ListsIn(l, list, calls)
  BY <1>1, <1>3, ListsKept
<1>5. ASSUME Given(c) \in Seq(Middlewares)
      PROVE  ListsIn(l, list \o Given(l[Len(log) + 1]), calls \cup {Len(log) + 1})
  <2>1. /\ IsFiniteSet(calls) /\ calls \subseteq Nat
        /\ \A n \in calls : Given(log[n]) \in Seq(Middlewares)
    BY GivingCalls
  <2>2. \A n \in calls \cup {Len(log) + 1} : Given(l[n]) \in Seq(Middlewares)
    BY <1>1, <1>2, <1>3, <1>5, <2>1
  <2> QED
    BY <1>1, <1>2, <1>4, <2>1, <2>2, ListsMore
<1> QED
  BY <1>2, <1>3, <1>4, <1>5

\* The calls a group heard, after a step.
LEMMA HeardAfter ==
  ASSUME Recorded, NEW c, Adds(c), NEW group \in DOMAIN made
  PROVE  Heard(group)' = IF c.kind = "GroupUse" /\ c.group = group
                         THEN Heard(group) \cup {Len(log) + 1} ELSE Heard(group)
<1>1. DOMAIN log' = DOMAIN log \cup {Len(log) + 1} /\ Len(log) + 1 \notin DOMAIN log
  BY LogAfter
<1>2. \A n : n \in Heard(group)' <=> n \in DOMAIN log' /\ Hears(group, n)'
  BY DEF Heard
<1>3. \A n : n \in Heard(group) <=> n \in DOMAIN log /\ Hears(group, n)
  BY DEF Heard
<1>4. /\ \A n \in DOMAIN log : Hears(group, n)' <=> Hears(group, n)
      /\ \A n : n = Len(log) + 1 =>
               (Hears(group, n)' <=> c.kind = "GroupUse" /\ c.group = group)
  BY <1>1, HearsAfter
<1> QED
  BY <1>1, <1>2, <1>3, <1>4

LEMMA HeardMade ==
  ASSUME Recorded, NEW c, Adds(c), made' # made, NEW new, new = Len(made) + 1
  PROVE  /\ c.kind = "AppGroup" => Heard(new)' = {}
         /\ c.kind = "Group" /\ c.group \in DOMAIN made => Heard(new)' = Heard(c.group)
<1>1. DOMAIN log \subseteq DOMAIN log'
  BY LogAfter
<1> QED
  BY <1>1, MadeHears DEF Heard

LEMMA ReachedAfter ==
  ASSUME Recorded, NEW c, Adds(c), NEW o \in DOMAIN mapped
  PROVE  Reached(o)' = IF c.kind = "Mutate" /\ c.operation = o
                       THEN Reached(o) \cup {Len(log) + 1} ELSE Reached(o)
<1>1. DOMAIN log' = DOMAIN log \cup {Len(log) + 1} /\ Len(log) + 1 \notin DOMAIN log
  BY LogAfter
<1>2. \A n : n \in Reached(o)' <=> n \in DOMAIN log' /\ Reaches(n, o)'
  BY DEF Reached
<1>3. \A n : n \in Reached(o) <=> n \in DOMAIN log /\ Reaches(n, o)
  BY DEF Reached
<1>4. /\ \A n \in DOMAIN log : Reaches(n, o)' <=> Reaches(n, o)
      /\ \A n : n = Len(log) + 1 =>
               (Reaches(n, o)' <=> c.kind = "Mutate" /\ c.operation = o)
  BY <1>1, ReachesAfter
<1> QED
  BY <1>1, <1>2, <1>3, <1>4

LEMMA ReachedMapped ==
  ASSUME Recorded, NEW c, Adds(c), mapped' # mapped, c.kind = "Map", c.group \in DOMAIN made,
         NEW new, new = Len(mapped) + 1
  PROVE  Reached(new)' = Heard(c.group)
<1>1. DOMAIN log \subseteq DOMAIN log'
  BY LogAfter
<1> QED
  BY <1>1, MappedReached DEF Reached, Heard

\* Every call behind a list gives something.
LEMMA OnlyGivers ==
  /\ \A k : Heard(k) \in SUBSET DOMAIN log /\ \A n \in Heard(k) : log[n].kind \in {"GroupUse", "Mutate"}
  /\ \A o : Reached(o) \in SUBSET DOMAIN log /\ \A n \in Reached(o) : log[n].kind \in {"GroupUse", "Mutate"}
BY DEF Heard, Hears, Reached, Reaches

\* The lists of the groups and of the operations, on the log as it is.
Told == /\ \A k \in DOMAIN groups : ListsIn(log, groups[k].middlewares, Heard(k))
        /\ \A o \in DOMAIN operations : ListsIn(log, operations[o].middlewares, Reached(o))

LEMMA ToldMeans == Told <=> GroupsListed /\ MiddlewareInherited
BY DEF Told, GroupsListed, MiddlewareInherited, Lists, ListsIn, Gifts, GiftsIn, Reached

LEMMA LongerDiffers ==
  ASSUME NEW q \in Seq(Nat), NEW n \in Nat
  PROVE  Append(q, n) # q
<1>1. Len(Append(q, n)) = Len(q) + 1 /\ Len(q) \in Nat
  BY AppendProperties, LenProperties
<1> QED
  BY <1>1

LEMMA StepTold ==
  ASSUME Inductive, Inductive', Recorded, Recorded', Told, LogStep
  PROVE  Told'
<1>1. /\ groups \in Seq(GroupType) /\ operations \in Seq(Definitions)
      /\ made \in Seq(Nat) /\ mapped \in Seq(Nat)
      /\ Len(made) = Len(groups) /\ Len(mapped) = Len(operations)
      /\ DOMAIN made = DOMAIN groups /\ DOMAIN mapped = DOMAIN operations
  BY LenProperties DEF Inductive, TypeOK, Recorded
<1>2. /\ \A k \in DOMAIN groups : groups[k].middlewares \in Seq(Middlewares)
      /\ \A o \in DOMAIN operations : operations[o].middlewares \in Seq(Middlewares)
  <2>1. \A k \in DOMAIN groups : groups[k] \in GroupType
    BY <1>1, ElementOfSeq, LenProperties
  <2>2. \A o \in DOMAIN operations : operations[o] \in Definitions
    BY <1>1, ElementOfSeq, LenProperties
  <2> QED
    BY <2>1, <2>2 DEF GroupType, Definitions
<1>4. DOMAIN made' = DOMAIN groups' /\ DOMAIN mapped' = DOMAIN operations'
  BY LenProperties DEF Inductive, TypeOK, Recorded
<1>3. CASE Quiet
  <2>1. log' = log /\ made' = made /\ mapped' = mapped /\ groups' = groups
    BY <1>3 DEF Quiet, history
  <2>2. /\ \A k : Heard(k)' = Heard(k)
        /\ \A o : Reached(o)' = Reached(o)
    BY <2>1 DEF Heard, Hears, Line, IsChild, Parent, Reached, Reaches
  <2>3. DOMAIN operations' = DOMAIN operations
    BY <1>1, <1>3, <1>4, <2>1 DEF Quiet
  <2> QED
    BY <1>3, <2>1, <2>2, <2>3 DEF Told, Quiet
<1>5. ASSUME NEW c, Adds(c), NEW k \in DOMAIN groups,
             ~(c.kind = "GroupUse" /\ c.group = k), groups'[k].middlewares = groups[k].middlewares
      PROVE  ListsIn(log', groups'[k].middlewares, Heard(k)')
  <2>1. Heard(k)' = Heard(k)
    BY <1>1, <1>5, HeardAfter
  <2> QED
    BY <1>2, <1>5, <2>1, ListGrows, OnlyGivers DEF Told
<1>6. ASSUME NEW c, Adds(c), NEW o \in DOMAIN operations,
             ~(c.kind = "Mutate" /\ c.operation = o),
             operations'[o].middlewares = operations[o].middlewares
      PROVE  ListsIn(log', operations'[o].middlewares, Reached(o)')
  <2>1. Reached(o)' = Reached(o)
    BY <1>1, <1>6, ReachedAfter
  <2> QED
    BY <1>2, <1>6, <2>1, ListGrows, OnlyGivers DEF Told
<1>7. ASSUME NEW c \in Entries, NEW list, GroupMade(c, list),
             \/ c.kind = "AppGroup" /\ list = <<>>
             \/ /\ c.kind = "Group" /\ c.group \in DOMAIN groups
                /\ list = groups[c.group].middlewares
      PROVE  Told'
  <2>1. Adds(c) /\ operations' = operations /\ made' # made
    <3>1. Adds(c) /\ made' = Append(made, Len(log')) /\ operations' = operations
      BY <1>7, Addings DEF GroupMade
    <3>2. Len(log') \in Nat
      BY <3>1, LogAfter
    <3>3. \A n \in Nat : Append(made, n) # made
      BY <1>1, LongerDiffers
    <3> QED
      BY <3>1, <3>2, <3>3
  <2>2. PICK h : groups' = Append(groups, h) /\ h.middlewares = list
    BY <1>7 DEF GroupMade
  <2>3. PICK new : new = Len(made) + 1
    OBVIOUS
  <2>4. /\ DOMAIN groups' = DOMAIN groups \cup {new}
        /\ groups'[new] = h /\ \A k \in DOMAIN groups : groups'[k] = groups[k]
    <3>1. \A k \in DOMAIN groups : groups'[k] = groups[k]
      BY <1>1, <2>2, LenProperties
    <3>2. groups'[new] = h
      BY <1>1, <2>2, <2>3, LenProperties
    <3>3. DOMAIN made' = DOMAIN made \cup {new}
      BY <2>1, <2>3, MadeAfter
    <3> QED
      BY <1>1, <1>4, <3>1, <3>2, <3>3
  <2>5. ListsIn(log', list, Heard(new)')
    <3>1. CASE c.kind = "AppGroup"
      <4>1. Heard(new)' = {}
        BY <2>1, <2>3, <3>1, HeardMade
      <4>2. \A l : ListsIn(l, <<>>, {})
        BY ListsNone
      <4> QED
        BY <1>7, <3>1, <4>1, <4>2
    <3>2. CASE c.kind = "Group"
      <4>1. Heard(new)' = Heard(c.group)
        BY <1>1, <1>7, <2>1, <2>3, <3>2, HeardMade
      <4>2. ListsIn(log, list, Heard(c.group)) /\ list \in Seq(Middlewares)
        BY <1>2, <1>7, <3>2 DEF Told
      <4> QED
        BY <2>1, <4>1, <4>2, ListGrows, OnlyGivers
    <3> QED
      BY <1>7, <3>1, <3>2
  <2>6. \A k \in DOMAIN groups' : ListsIn(log', groups'[k].middlewares, Heard(k)')
    BY <1>5, <1>7, <2>1, <2>2, <2>4, <2>5
  <2>7. \A o \in DOMAIN operations' : ListsIn(log', operations'[o].middlewares, Reached(o)')
    BY <1>6, <1>7, <2>1
  <2> QED
    BY <2>6, <2>7 DEF Told
<1>8. ASSUME NEW c \in Calls, GroupGiven(c)
      PROVE  Told'
  <2>1. Adds(c) /\ operations' = operations /\ DOMAIN groups' = DOMAIN groups
    BY <1>1, <1>4, <1>8, Addings DEF GroupGiven
  <2>2. ASSUME NEW k \in DOMAIN groups, k = c.group
        PROVE  ListsIn(log', groups'[k].middlewares, Heard(k)')
    <3>1. Heard(k)' = Heard(k) \cup {Len(log) + 1}
      BY <1>1, <1>8, <2>1, <2>2, HeardAfter DEF GroupGiven
    <3>2. Given(c) = <<c.middleware>> /\ Given(c) \in Seq(Middlewares)
      BY <1>8 DEF Given, GroupGiven
    <3>3. groups'[k].middlewares = groups[k].middlewares \o Given(c)
      BY <1>8, <2>2, <3>2 DEF GroupGiven
    <3>4. ListsIn(log, groups[k].middlewares, Heard(k))
      BY DEF Told
    <3>5. ListsIn(log', groups[k].middlewares \o Given(c), Heard(k) \cup {Len(log) + 1})
      BY <1>2, <2>1, <3>2, <3>4, ListGrows, OnlyGivers
    <3> QED
      BY <3>1, <3>3, <3>5
  <2>3. \A k \in DOMAIN groups' : ListsIn(log', groups'[k].middlewares, Heard(k)')
    BY <1>5, <1>8, <2>1, <2>2 DEF GroupGiven
  <2>4. \A o \in DOMAIN operations' : ListsIn(log', operations'[o].middlewares, Reached(o)')
    BY <1>6, <1>8, <2>1 DEF GroupGiven
  <2> QED
    BY <2>3, <2>4 DEF Told
<1>9. ASSUME NEW c \in Calls, OperationMapped(c)
      PROVE  Told'
  <2>1. Adds(c) /\ groups' = groups /\ mapped' # mapped
    <3>1. Adds(c) /\ mapped' = Append(mapped, Len(log')) /\ groups' = groups
      BY <1>9, Addings DEF OperationMapped
    <3>2. Len(log') \in Nat
      BY <3>1, LogAfter
    <3>3. \A n \in Nat : Append(mapped, n) # mapped
      BY <1>1, LongerDiffers
    <3> QED
      BY <3>1, <3>2, <3>3
  <2>2. PICK d : operations' = Append(operations, d) /\ d.middlewares = groups[c.group].middlewares
    BY <1>9 DEF OperationMapped
  <2>3. PICK new : new = Len(mapped) + 1
    OBVIOUS
  <2>4. /\ DOMAIN operations' = DOMAIN operations \cup {new}
        /\ operations'[new] = d /\ \A o \in DOMAIN operations : operations'[o] = operations[o]
    <3>1. \A o \in DOMAIN operations : operations'[o] = operations[o]
      BY <1>1, <2>2, LenProperties
    <3>2. operations'[new] = d
      BY <1>1, <2>2, <2>3, LenProperties
    <3>3. DOMAIN mapped' = DOMAIN mapped \cup {new}
      BY <2>1, <2>3, MadeAfter
    <3> QED
      BY <1>1, <1>4, <3>1, <3>2, <3>3
  <2>5. ListsIn(log', d.middlewares, Reached(new)')
    <3>1. Reached(new)' = Heard(c.group)
      BY <1>1, <1>9, <2>1, <2>3, ReachedMapped DEF OperationMapped
    <3>2. ListsIn(log, d.middlewares, Heard(c.group)) /\ d.middlewares \in Seq(Middlewares)
      BY <1>2, <1>9, <2>2 DEF Told, OperationMapped
    <3> QED
      BY <2>1, <3>1, <3>2, ListGrows, OnlyGivers
  <2>6. \A k \in DOMAIN groups' : ListsIn(log', groups'[k].middlewares, Heard(k)')
    BY <1>5, <1>9, <2>1 DEF OperationMapped
  <2>7. \A o \in DOMAIN operations' : ListsIn(log', operations'[o].middlewares, Reached(o)')
    BY <1>6, <1>9, <2>1, <2>4, <2>5 DEF OperationMapped
  <2> QED
    BY <2>6, <2>7 DEF Told
<1>10. ASSUME NEW c \in Calls, OperationGiven(c)
       PROVE  Told'
  <2>1. Adds(c) /\ groups' = groups /\ DOMAIN operations' = DOMAIN operations
    BY <1>1, <1>4, <1>10, Addings DEF OperationGiven
  <2>2. ASSUME NEW o \in DOMAIN operations, o = c.operation
        PROVE  ListsIn(log', operations'[o].middlewares, Reached(o)')
    <3>1. Reached(o)' = Reached(o) \cup {Len(log) + 1}
      BY <1>1, <1>10, <2>1, <2>2, ReachedAfter DEF OperationGiven
    <3>2. Given(c) = UpToNil(c.set.values) /\ Given(c) \in Seq(Middlewares)
      BY <1>10, UpToNilType DEF Given, OperationGiven
    <3>3. operations'[o].middlewares = operations[o].middlewares \o Given(c)
      BY <1>10, <2>2, <3>2 DEF OperationGiven
    <3>4. ListsIn(log, operations[o].middlewares, Reached(o))
      BY DEF Told
    <3>5. ListsIn(log', operations[o].middlewares \o Given(c), Reached(o) \cup {Len(log) + 1})
      BY <1>2, <2>1, <3>2, <3>4, ListGrows, OnlyGivers
    <3> QED
      BY <3>1, <3>3, <3>5
  <2>3. \A k \in DOMAIN groups' : ListsIn(log', groups'[k].middlewares, Heard(k)')
    BY <1>5, <1>10, <2>1 DEF OperationGiven
  <2>4. \A o \in DOMAIN operations' : ListsIn(log', operations'[o].middlewares, Reached(o)')
    BY <1>6, <1>10, <2>1, <2>2 DEF OperationGiven
  <2> QED
    BY <2>3, <2>4 DEF Told
<1>11. [kind |-> "AppGroup"] \in Entries /\ Calls \subseteq Entries
  BY DEF Entries
<1> QED
  BY <1>3, <1>7, <1>8, <1>9, <1>10, <1>11 DEF LogStep

---------------------------------------------------------------------------
\* The lists that the groups and the operations carry stay what the history of
\* the calls says, with the invariant of the App's configuration.
THEOREM InheritedHolds == LoggedSpec => []Inherited
<1>1. LoggedInit => Inherited
  <2>1. ASSUME LoggedInit
        PROVE  Inductive /\ Recorded /\ Told
    <3>1. log = <<>> /\ made = <<>> /\ mapped = <<>> /\ groups = <<>> /\ operations = <<>>
      BY <2>1 DEF LoggedInit, Init
    <3>2. DOMAIN log = {} /\ DOMAIN made = {} /\ DOMAIN mapped = {}
      BY <3>1
    <3>3. Recorded
      BY <3>1, <3>2, EmptySeq DEF Recorded
    <3>4. Told
      BY <3>1, <3>2 DEF Told
    <3> QED
      BY <2>1, <3>3, <3>4, InitInductive DEF LoggedInit
  <2> QED
    BY <2>1, ToldMeans DEF Inherited
<1>2. Inherited /\ [LoggedNext]_<<vars, history>> => Inherited'
  <2>1. ASSUME Inductive, Recorded, Told, [LoggedNext]_<<vars, history>>
        PROVE  Inductive' /\ Recorded' /\ Told'
    <3>1. [Next]_vars
      BY <2>1 DEF LoggedNext
    <3> QED
      BY <2>1, <3>1, LogSteps, StepInductive, StepRecorded, StepTold
  <2>2. Told' <=> GroupsListed' /\ MiddlewareInherited'
    BY ToldMeans, PTL
  <2> QED
    BY <2>1, <2>2, ToldMeans DEF Inherited
<1> QED
  BY <1>1, <1>2, PTL DEF LoggedSpec

\* An operation has the middlewares its group, the groups above it and its own
\* Use calls gave it, in the order of the calls, whatever tree of groups the
\* program makes and however its goroutines interleave.
THEOREM InheritanceHolds == LoggedSpec => []MiddlewareInherited
<1>1. Inherited => MiddlewareInherited
  BY DEF Inherited
<1> QED
  BY <1>1, InheritedHolds, PTL
=============================================================================
