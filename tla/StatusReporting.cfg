SPECIFICATION Spec
CONSTANTS
  Size = 2
  ErrorCodes <- MCErrorCodes
  EventMasks <- MCEventMasks
  ServiceMasks <- MCServiceMasks
  OperationValues <- MCOneBit
  QuestionableValues <- Nothing
INVARIANTS
  TypeOK
  SrqIffReason
  QmaIffErrors
  IndicatorMatchesQueue
  SummaryCurrent
PROPERTIES
  ServiceRequestedForReasons
  EventsLatched
  ImplementsErrorQueue
  NoSilentLoss
