SPECIFICATION IntentsSpec
CONSTANTS
    Document = {d1}
    VersionBound = 1
    Builder = {b1}
    NoBuilder = NoBuilder
    MaxIndexAttempts = 1
    SourceJobBound = 2
    CommandBound = 1
INVARIANT RetryContinues
CHECK_DEADLOCK FALSE
