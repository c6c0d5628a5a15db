SPECIFICATION ScenarioSpec
CONSTANTS
  Types <- SevenTypes
  Scalar = Scalar
  SchemaLeaves = {"M", "S"}
  PlanLeaves = {"D", "S"}
  Names = {"x", "y", "z", "e"}
  Menu <- EveryMenu
  MaxFields = 2
  Root = "T"
INVARIANTS
  SelectsLikeEncodingJSON
  OrdinaryAgree
