SPECIFICATION Spec
CONSTANTS
  Definitions <- DefinitionsDef
  MaxOperations = 3
  Types <- TypesDef
  Schemable <- SchemableDef
  FailureModel = "Problem"
  Media <- MediaDef
  Essence <- EssenceDef
  Schemes <- SchemesDef
INVARIANTS
  ResponsesKept
  ParametersMatchTemplate
  SecurityResolves
  NothingLeftOver
\* A build ends, with or without a document.
CHECK_DEADLOCK FALSE
