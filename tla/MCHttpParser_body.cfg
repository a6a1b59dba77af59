SPECIFICATION Spec
CONSTANTS
    READ_BUFFER_SIZE = 16
    Inputs <- BodiedInputs
    Url <- UrlsOfLines
    ContentLength <- LengthsOfLines
    MaxInt = 32
INVARIANT BodyIsJudged
CHECK_DEADLOCK FALSE
