----------------------------- MODULE FreezeOnce -----------------------------
(***************************************************************************)
(* What an App promises to the goroutines that share it: its configuration *)
(* can be changed until it is frozen, and is then judged at most once; the *)
(* judgement depends on the frozen configuration and on nothing else.      *)
(***************************************************************************)
CONSTANTS
  Verdict(_),     \* the judgement of a configuration
  Aborted,        \* the outcome of a build that user code interrupted
  Pending         \* no outcome yet

VARIABLES configuration, frozen, outcome

vars == <<configuration, frozen, outcome>>

Init == ~frozen /\ outcome = Pending

Configure ==
  /\ ~frozen
  /\ configuration' # configuration
  /\ UNCHANGED <<frozen, outcome>>

Freeze ==
  /\ ~frozen
  /\ frozen' = TRUE
  /\ UNCHANGED <<configuration, outcome>>

Decide ==
  /\ frozen /\ outcome = Pending
  /\ outcome' \in {Verdict(configuration), Aborted}
  /\ UNCHANGED <<configuration, frozen>>

Next == Configure \/ Freeze \/ Decide

Spec == Init /\ [][Next]_vars
=============================================================================
