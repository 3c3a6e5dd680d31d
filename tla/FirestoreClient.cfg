SPECIFICATION FairSpec
CONSTANTS
  MaxNotes = 2
  MaxFaults = 1
INVARIANTS
  TypeOK
  NoInternalError
  TokenCovered
  ViewIsCache
  NoLimbo
  WorkHasItsStream
  PipelineHoldsQueue
  OnlineIsTrue
  ResolvedIsStored
PROPERTIES
  Contract
  WriteSettles
  LastNoteShown
CHECK_DEADLOCK FALSE
