SPECIFICATION ExchangeSpec
CONSTANTS
    READ_BUFFER_SIZE = 12
    Inputs <- AllInputs
    Url <- UrlsOfLines
    ContentLength <- LengthsOfLines
    MaxInt = 24
    WRITE_BUFFER_SIZE = 9
    FileSizes = {0, 2, 25}
    ApiSizes = {1, 2, 3}
    FormSize = 1
INVARIANTS
    ExchangeTypeOK
    JudgedAsWhole
    TerminatorInBuffer
    ResponsesAreWhole
    NoMappingLost
PROPERTIES
    ServerComesToRest
    ImplementsRequestReply
CHECK_DEADLOCK FALSE
