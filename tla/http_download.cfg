SPECIFICATION Spec
CONSTANTS
  ProbeWindow = 1
  DefaultParts = 2
  MinSplit = 4
  Sites <- MCSites
  Len <- MCLen
  FileCap = 4
  MaxRetries = 1
  Files = {1, 2}
  MaxBurst = 2
  MaxRuns = 2
  MaxFaults = 1
  Endless = FALSE
  UserRemoves = {"file"}
INVARIANTS
  TypeOK
  ResumeConservative
  PartsTile
  NoMixture
  CompletedIsWhole
  NothingLostWithoutCause
PROPERTY ResumeNeverRegresses
CHECK_DEADLOCK FALSE
