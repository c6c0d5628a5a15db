------------------------ MODULE MCPipelineScenarios ------------------------
(***************************************************************************)
(* Two scenarios that share the constants of one run: each middleware      *)
(* calls next once, and the rest is as free as the constants allow; or     *)
(* twice, which sends the request through the router again, and there is   *)
(* less of the rest.                                                       *)
(***************************************************************************)
EXTENDS MCRequestPipeline

VARIABLE scenario

ScenarioInit ==
  /\ scenario \in {"once", "twice"}
  /\ Init
  /\ scenario = "twice" => config \in DefaultConfig

Once == \A l \in MiddlewareLevels : nexts'[l] <= 1

\* Two acts, no context without the carrier.
Twice ==
  /\ MaxActs - acts' <= 2
  /\ result' # result => result' \in SomeResults
  /\ \A l \in 1 .. level' : ctx'[l] # "none"

ScenarioNext ==
  /\ Next
  /\ IF scenario = "once" THEN Once ELSE Twice
  /\ UNCHANGED scenario
ScenarioSpec == ScenarioInit /\ [][ScenarioNext]_<<vars, scenario>>
=============================================================================
