SPECIFICATION VerdictSpec
CONSTANTS
  Goroutines = {g1, g2}
  Nobody = Nobody
  Nil = Nil
  Middlewares <- MiddlewareNames
  Strings <- StringSet
  SecurityNames <- SecurityNameSet
  Statuses <- StatusSet
  Configs <- EveryConfig
  Menu <- MenuVerdict
  MaxCalls = 8
  CallbackPanics = FALSE
INVARIANTS
  BuildVerdict
  DocumentComplete
  BuiltIsServable
  HandlerOrder
  MiddlewareInherited
