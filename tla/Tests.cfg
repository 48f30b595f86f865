SPECIFICATION TestsSpec
CONSTANTS
    m1 = m1
    m2 = m2
    n1 = n1
    n2 = n2
    g1 = g1
    g2 = g2
    q1 = q1
    q2 = q2
    Case = {m1, m2}
    Runner = {n1, n2}
    Repairer = {g1}
    MaxRunAttempts = 2
    MaxQueueAttempts = 2
    MaxRepairs = 1
    ArtifactBound = 2
    Seen = {"AUTOMATION_ERROR", "INFRA_ERROR"}
    Statement <- TwoStatements
    Extraction = {g1}
    Batch = {g2}
    BatchDecision = {"APPROVED"}
    SourceBound = 2
    RequirementBound = 3
    Requirement = {q1, q2}
    SnapshotOf <- OneSnapshot
    Wording = {g1}
    Editor = {m1, m2}
    Publisher = {n1, n2}
    FamilyBound = 2
    CaseRevisionBound = 3
    ReleaseBound = 2
    ChangeBound = 3
    Job = {m1, m2}
    Worker = {n1, n2}
    Lane = {g1, g2}
    GenerateLane = {g2}
    NUnits = 1
    MaxAttempts = 1
    RevisionBound = 4
    NoLane = NoLane
    NoJob = NoJob
SYMMETRY Interchangeable
INVARIANTS TestsTypeOK ClaimFindsItems RunsWhatWasApproved VerdictsFollowTexts OneActivePerLane EditsBuildOnHead PublishedAsPreviewed
PROPERTIES VerdictsAreFinal QueuedIsExecuted InventoryMovesOn ReviewsStand
CHECK_DEADLOCK FALSE
