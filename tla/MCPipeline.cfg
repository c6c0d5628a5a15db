SPECIFICATION ScenarioSpec
CONSTANTS
  Outer = 1
  Scoped = 1
  Operations <- EveryOperation
  Principals = {p1, p2}
  NoPrincipal = NoPrincipal
  NoOperation = NoOperation
  Results <- EveryResult
  UserStatuses <- EveryStatus
  Configs <- DirectConfigs
  FreshContexts <- AnyContext
  MaxActs = 3
  MaxNext = 2
INVARIANTS
  TypeOK
  StateFollowsWire
  OneResponse
  PanicAnswered
  FailureSealed
  HandlerGuarded
  OuterSeesRequest
PROPERTIES
  NoFalseSuccess
  ChallengeSent
  FailuresDocumented
