-------------------------- MODULE GroupInheritance --------------------------
(***************************************************************************)
(* Which middlewares an operation ends up with, told from the calls the    *)
(* program made and their order: AppLifecycle keeps them as copies made    *)
(* when a group or an operation is created (group.go,                      *)
(* group_registration.go), a reader of the README expects them from the    *)
(* history of Use, Group and Map.                                          *)
(***************************************************************************)
EXTENDS AppLifecycle, FiniteSets

VARIABLES
  log,     \* history: the calls on groups that took effect, in their order
  made,    \* history: for each group, which of them made it
  mapped   \* history: for each operation, which of them mapped it

history == <<log, made, mapped>>

\* The calls that decide which middlewares an operation gets.
Tells(c) ==
  \/ c.kind \in {"AppGroup", "Group", "GroupUse", "Map"}
  \/ c.kind = "Mutate" /\ c.set.field = "middlewares"

\* The critical section that ends with this step; App.Group has none.
Done ==
  IF mu # Nobody /\ pc[mu] = "locked"
  THEN mu' = Nobody /\ result'[mu] \in {"ok", "nilMiddleware"}
  ELSE FALSE

\* The moment this step is, added to those so far if it made one more.
Noted(moments, before, after) ==
  IF Len(after) > Len(before) THEN Append(moments, Len(log')) ELSE moments

Record ==
  /\ log' = CASE Done /\ Tells(call[mu]) -> Append(log, call[mu])
              [] ~Done /\ Len(groups') > Len(groups) -> Append(log, [kind |-> "AppGroup"])
              [] OTHER -> log
  /\ made' = Noted(made, groups, groups')
  /\ mapped' = Noted(mapped, operations, operations')

LoggedInit == Init /\ log = <<>> /\ made = <<>> /\ mapped = <<>>
LoggedNext == Next /\ Record
LoggedSpec == LoggedInit /\ [][LoggedNext]_<<vars, history>>

---------------------------------------------------------------------------
IsChild(group) == log[made[group]].kind = "Group"
Parent(group) == log[made[group]].group

\* A group and the groups above it: the least set that holds the parents.
Line(group) ==
  {k \in DOMAIN made :
     \A S \in SUBSET DOMAIN made :
       group \in S /\ (\A s \in S : IsChild(s) => Parent(s) \in S) => k \in S}

\* The n-th call gives a middleware to a group: to itself at any time, and to
\* what is below it if that was made later.
Hears(group, n) ==
  /\ log[n].kind = "GroupUse"
  /\ \/ log[n].group = group
     \/ \E k \in Line(group) : IsChild(k) /\ Parent(k) = log[n].group /\ n < made[k]

\* The n-th call adds middlewares to operation o.
Reaches(n, o) ==
  \/ n < mapped[o] /\ Hears(log[mapped[o]].group, n)
  \/ log[n].kind = "Mutate" /\ log[n].operation = o

Given(c) ==
  IF c.kind = "GroupUse" THEN <<c.middleware>>
  ELSE UpToNil(c.set.values)

\* Everything these calls give, each by its call and its place in that.
Gifts(calls) == UNION {{n} \X DOMAIN Given(log[n]) : n \in calls}

\* The gifts up to this one, by the order of the calls.
UpTo(x, gifts) == {y \in gifts : y[1] < x[1] \/ (y[1] = x[1] /\ y[2] <= x[2])}

\* These middlewares are what these calls gave, in their order.
Lists(list, calls) ==
  LET gifts == Gifts(calls)
  IN /\ Len(list) = Cardinality(gifts)
     /\ \A x \in gifts : list[Cardinality(UpTo(x, gifts))] = Given(log[x[1]])[x[2]]

\* An operation has, in the order of the calls, the middlewares its group and the
\* groups above it were given before the next one below, or the operation, was
\* made, and its own; nothing that was given later, elsewhere, or to a frozen App
\* (README.md:224).
MiddlewareInherited ==
  \A o \in DOMAIN operations :
    Lists(operations[o].middlewares, {n \in DOMAIN log : Reaches(n, o)})
=============================================================================
