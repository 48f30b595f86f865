SPECIFICATION FairSpec
CONSTANTS
    j1 = j1
    j2 = j2
    w1 = w1
    w2 = w2
    index = index
    generate = generate
    Job = {j1}
    Worker = {w1, w2}
    Lane = {index, generate}
    GenerateLane = {generate}
    NUnits = 2
    MaxAttempts = 2
    RevisionBound = 6
    NoLane = NoLane
    NoJob = NoJob
INVARIANTS TypeOK OnePublisher JobUnitAgree NoPoisonedJob OutcomeMatchesUnits
PROPERTIES CheckpointsAreFinal CancelBlocksPublication JobsEndUnlessStranded
CHECK_DEADLOCK FALSE
