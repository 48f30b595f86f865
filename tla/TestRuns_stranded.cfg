SPECIFICATION RunsFairSpec
CONSTANTS
    c1 = c1
    c2 = c2
    w1 = w1
    w2 = w2
    p1 = p1
    Case = {c1}
    Runner = {w1}
    Repairer = {p1}
    MaxRunAttempts = 2
    MaxQueueAttempts = 2
    MaxRepairs = 1
    ArtifactBound = 3
    Seen = {"AUTOMATION_ERROR", "INFRA_ERROR"}
PROPERTY ClaimedRunEnds
CHECK_DEADLOCK FALSE
