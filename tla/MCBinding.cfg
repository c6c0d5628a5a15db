SPECIFICATION ScenarioSpec
CONSTANTS
  Texts <- AllTexts
  Scalars <- AllScalars
  Other = "other"
  Values <- AllValues
  Malformed = "malformed"
  Scan <- AllScan
  ScanDate <- AllScanDate
  Satisfies <- AllSatisfies
  ZeroOf <- AllZeros
  Patterns <- AllPatterns
  Menu <- AllFields
  MaxFields = 4
  Repeats <- AllRepeats
  Bodies <- AllBodies
  Options <- AllOptions
  MaxInt = 7
INVARIANTS
  TypeOK
  PlanVerdict
  Verdict
  HandlerSeesRequest
