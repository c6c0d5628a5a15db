SPECIFICATION FairSpec
CONSTANTS
  Goroutines = {g1, g2}
  Nobody = Nobody
  Nil = Nil
  Middlewares <- MiddlewareNames
  Strings <- StringSet
  SecurityNames <- SecurityNameSet
  Statuses <- OneStatus
  Configs <- OneConfig
  Menu <- MenuConcurrent
  MaxCalls = 3
  CallbackPanics = TRUE
INVARIANTS
  TypeOK
  MutexOwner
  SnapshotCurrent
  CompiledCurrent
  BuildAgreement
PROPERTIES
  CallsReturn
  FreezeBoundary
  PromiseKept
