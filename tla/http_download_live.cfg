SPECIFICATION PromptSpec
CONSTANTS
  ProbeWindow = 1
  DefaultParts = 2
  MinSplit = 3
  Sites <- LiveSites
  Len <- LiveLen
  FileCap = 3
  MaxRetries = 2
  Files = {1}
  MaxBurst = 2
  MaxRuns = 2
  MaxFaults = 1
  Endless = TRUE
  UserRemoves = {}
PROPERTY PauseIsPrompt
PROPERTY WorkerTerminates
CHECK_DEADLOCK FALSE
