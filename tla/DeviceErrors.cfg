SPECIFICATION Spec
CONSTANTS
  Size = 3
  ErrorCodes <- MCQueueCodes
  EventMasks <- Nothing
  ServiceMasks <- Nothing
  OperationValues <- Nothing
  QuestionableValues <- Nothing
PROPERTIES
  DeviceErrorsSetDER
