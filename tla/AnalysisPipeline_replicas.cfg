SPECIFICATION FairSpec
CONSTANTS
    s1 = s1
    s2 = s2
    c1 = c1
    c2 = c2
    n1 = n1
    g1 = g1
    v1 = v1
    v2 = v2
    p1 = p1
    p2 = p2
    Workers = {s1, c1, n1, g1, v1, v2, p1, p2}
    Serves <- TwoValidators
    r1 = r1
    r2 = r2
    Recs = {r1, r2}
    MaxAttempts = 2
    MaxRepairs = 1
    AttemptBound = 2
INVARIANTS TypeOK VerdictMatchesReviews
PROPERTIES EvidenceFrozen AnalysisSettles
CHECK_DEADLOCK FALSE
