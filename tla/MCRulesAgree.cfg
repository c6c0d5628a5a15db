SPECIFICATION Spec
CONSTANTS
  FieldTypes <- AllTypes
  Menu <- AllRules
  MaxRules = 2
  Ids <- AllIds
  Length <- AllLengths
  Formats <- AllFormats
  Spaced = {2}
  ArrayLen = 2
  Precision = 8
  Provides = {1, 2}
  Reads <- AllReads
  Nils = {3}
INVARIANTS
  RulesAgree
