SPECIFICATION FairSpec
CONSTANTS
    j1 = j1
    j2 = j2
    w1 = w1
    w2 = w2
    index = index
    generate = generate
    Job = {j1}
    Worker = {w1}
    Lane = {generate}
    GenerateLane = {generate}
    NUnits = 1
    MaxAttempts = 2
    RevisionBound = 3
    NoLane = NoLane
    NoJob = NoJob
PROPERTIES CancelEnds
CHECK_DEADLOCK FALSE
