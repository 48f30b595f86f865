SPECIFICATION IntentsSpec
CONSTANTS
    Document = {d1}
    VersionBound = 1
    Builder = {b1}
    NoBuilder = NoBuilder
    MaxIndexAttempts = 2
    SourceJobBound = 2
    CommandBound = 0
INVARIANT SucceededIsIndexed
CHECK_DEADLOCK FALSE
