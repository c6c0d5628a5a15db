SPECIFICATION Spec
CONSTANTS
  Goroutines = {g1, g2}
  Nobody = Nobody
  Nil = Nil
  Middlewares <- MiddlewareNames
  Strings <- StringSet
  SecurityNames <- SecurityNameSet
  Statuses <- StatusSet
  Configs <- OneConfig
  Menu <- MenuConcurrent
  MaxCalls = 3
  CallbackPanics = TRUE
INVARIANTS
  BuildYieldsHandlerOrError
