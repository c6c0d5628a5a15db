SPECIFICATION FairSpec
CONSTANTS
  Types <- AllTypes
  Strings <- AllNames
  Candidate <- Candidates
  Graphs <- AllGraphs
  MaxCalls = 2
  MaxFrames = 14
INVARIANTS
  TypeOK
  NamesApart
  ComponentsOwned
  ComponentsFaithful
  ReferencesResolve
PROPERTIES
  RefEnds
