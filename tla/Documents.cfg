SPECIFICATION DocumentsSpec
CONSTANTS
    m1 = m1
    m2 = m2
    n1 = n1
    n2 = n2
    Keys = {m1, m2}
    Projects = {m1, m2}
    Analyses = {a1}
    Purges = {n1, n2}
    Calls = {m1, m2}
    Estimates <- TwoEstimates
    Bills <- TwoBills
    Default <- ThreeEach
    Limits <- TwoLimits
    NoCall = NoCall
    MaxRequests = 2
    Document = {d1}
    VersionBound = 2
    Builder = {n1, n2}
    NoBuilder = NoBuilder
    MaxIndexAttempts = 1
    SourceJobBound = 2
    CommandBound = 1
    Parser = {n1, n2}
    MaxParseAttempts = 2
    ClaimBound = 3
    Extractor = {n1, n2}
    MaxExtractionAttempts = 2
    ExtractionClaims = 3
    ExtractionRetries = 1
SYMMETRY Interchangeable
INVARIANTS FilesOutliveRows PurgeLeavesNothing PurgeCanFinish AuditTellsThePurge DocumentsTypeOK ChargesAreHeld IndexIsComplete KeepsItsRevision
PROPERTIES GrantsFitBudget QueuesImplementTasks
CHECK_DEADLOCK FALSE
