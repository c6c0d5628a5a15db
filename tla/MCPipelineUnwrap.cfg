SPECIFICATION Spec
CONSTANTS
  Outer = 1
  Scoped = 0
  Operations <- RawOnly
  Principals = {p1, p2}
  NoPrincipal = NoPrincipal
  NoOperation = NoOperation
  Results <- SomeResults
  UserStatuses <- Statuses
  Configs <- UnwrapConfig
  FreshContexts <- OneContext
  MaxActs = 3
  MaxNext = 1
INVARIANTS
  OneResponse
