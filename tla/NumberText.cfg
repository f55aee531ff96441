SPECIFICATION Spec
CONSTANTS
  HeapSize = 7
  QueueSize = 3
  Texts <- MCTexts
  Width = 8
  Messages <- MCMessages
  Commands <- MCCommands
  MaxUnits = 2
  MaxParameters = 2
  MaxCalls = 3
  MaxBlock = 2
  UserDetails <- MCUserDetails
  UserGroups <- MCUserGroups
  Written <- MCWritten
INVARIANT
  NumberTextFits
CHECK_DEADLOCK FALSE
