SPECIFICATION Spec
CONSTANTS
  BufferLength = 13
  Scripts <- MCScripts
  MaxOverruns = 1
  MaxTimeouts = 2
INVARIANTS
  TypeOK
  ExecutedOnce
  MessagesAsSent
  LoopsAdvance
CHECK_DEADLOCK FALSE
