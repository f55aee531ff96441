SPECIFICATION Spec
CONSTANTS
  BufferLength = 13
  Scripts <- MCScripts
  MaxOverruns = 1
  MaxTimeouts = 2
INVARIANTS
  TornTextsAsSent
CHECK_DEADLOCK FALSE
