SPECIFICATION Spec
CONSTANTS
  Goroutines = {g1}
  Nobody = Nobody
  Nil = Nil
  Middlewares <- MiddlewareNames
  Strings <- StringSet
  SecurityNames <- SecurityNameSet
  Statuses <- StatusSet
  Configs <- OneConfig
  Menu <- MenuPrefixes
  MaxCalls = 3
  CallbackPanics = FALSE
INVARIANTS
  RoutesHaveNoEmptySegment
