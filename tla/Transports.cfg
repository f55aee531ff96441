SPECIFICATION Spec
CONSTANTS
    Sockets = {0, 1}
    LineLength = 2
    MaxConnections = 2
    MaxRestarts = 1
    BufferSize = 5
    Messages <- MCMessages
    Enabled = {{}, {4}, {2}}
    RequestSizes = {1, 2, 8}
    MaxMessages = 3
    ChunkSize = 3
    MaxClients = 2
    MaxParams = 2
    LongMax = 127
    Pins = 64
INVARIANTS
    TypeOK
    EveryLineOnce
    CommandsAsWritten
    AnswersWhole
    MessagesInPlace
PROPERTIES
    ArrivedIsRead
    AnswersAnnounced
    ArrivedIsExecuted
CHECK_DEADLOCK FALSE
