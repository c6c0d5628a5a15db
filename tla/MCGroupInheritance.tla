------------------------- MODULE MCGroupInheritance -------------------------
(***************************************************************************)
(* What a build makes of a configuration, checked in four scenarios that   *)
(* share one set of constants.  Each gives the program a menu of its own,  *)
(* the configurations New gets, and bounds on who calls and how often.     *)
(***************************************************************************)
EXTENDS GroupInheritance, MCAppLifecycle

VARIABLE scenario

\* A group, its children and theirs, given middlewares before and after each
\* other and before and after operations are mapped.
MenuGroups ==
  {AppGroupAt(NoPath), ChildAt(1, Plain(<<a>>)), ChildAt(2, Plain(<<b>>)),
   GroupUseIt(1, "m1"), GroupUseIt(2, "m2"), GroupUseIt(3, "m1"),
   MapRaw(1, "GET", Plain(<<a>>)), MapRaw(3, "GET", Plain(<<b>>)),
   SetMiddlewares(1, <<"m1", Nil, "m2">>), BuildIt}

Alone == CHOOSE g \in Goroutines : TRUE

Scenarios ==
  [routes |->
     [menu |-> MenuRoutes, configs |-> OneConfig, callers |-> {Alone}, operations |-> 2, calls |-> 8],
   documentation |->
     [menu |-> MenuDocumentation, configs |-> OneConfig, callers |-> {Alone}, operations |-> 1, calls |-> 8],
   contracts |->
     [menu |-> MenuContracts, configs |-> ContractConfigs, callers |-> {Alone}, operations |-> 1, calls |-> 7],
   groups |->
     [menu |-> MenuGroups, configs |-> OneConfig, callers |-> Goroutines, operations |-> 6, calls |-> 3]]

EveryConfig == UNION {Scenarios[s].configs : s \in DOMAIN Scenarios}
MenuVerdict == UNION {Scenarios[s].menu : s \in DOMAIN Scenarios}

\* One goroutine alone reaches every configuration when it gives the App its
\* middlewares first, makes one group, sets an operation up before it maps the next
\* one, and its fields in one order; a frozen App is left to the other runs.
Fields == <<"id", "security", "rights", "responses", "validation", "consumes">>

Settles(previous, c) ==
  /\ once = "new"
  /\ c.kind \in {"AppGroup", "Use"} => groups = <<>>
  /\ c.kind = "Use" => Len(middlewares) < 2
  /\ c.kind = "Mutate" =>
       /\ c.operation = Len(operations)
       /\ previous.kind = "Mutate" =>
            \E i, j \in DOMAIN Fields :
              i <= j /\ Fields[i] = previous.set.field /\ Fields[j] = c.set.field

\* The calls that belong to the scenario.
InScenario(g, c) ==
  LET s == Scenarios[scenario]
  IN /\ g \in s.callers /\ MaxCalls - left[g] < s.calls
     /\ c.kind = "Map" => Len(operations) < s.operations
     /\ s.callers = {Alone} => Settles(call[g], c)

VerdictInit ==
  /\ scenario \in DOMAIN Scenarios
  /\ LoggedInit /\ config \in Scenarios[scenario].configs
VerdictNext ==
  /\ \/ Rest
     \/ \E g \in Goroutines : Proceed(g)
     \/ \E g \in Goroutines :
          /\ pc[g] \in {"idle", "user"}
          /\ \E c \in Scenarios[scenario].menu : InScenario(g, c) /\ Makes(g, c)
  /\ Record /\ UNCHANGED scenario
VerdictSpec == VerdictInit /\ [][VerdictNext]_<<vars, history, scenario>>
=============================================================================
