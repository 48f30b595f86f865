SPECIFICATION AnalysesSpec
CONSTANTS
    s1 = s1
    s2 = s2
    c1 = c1
    c2 = c2
    n1 = n1
    g1 = g1
    v1 = v1
    v2 = v2
    p1 = p1
    p2 = p2
    Workers = {s1, s2, c1, c2, n1, g1, v1, p1}
    Serves <- TwoFetchers
    r1 = r1
    r2 = r2
    Recs = {r1, r2}
    MaxAttempts = 3
    MaxRepairs = 2
    AttemptBound = 3
    d1 = d1
    d2 = d2
    f1 = f1
    f2 = f2
    t1 = t1
    t2 = t2
    t3 = t3
    Event = {"e1", "e2"}
    ActionOf <- OpenAndClose
    Delivery = {d1, d2}
    Identifier <- Mentions
    Traced <- Links
    Contents <- TwoReleases
    NoBaseline = NoBaseline
    File = {f1, f2}
    Text = {t1, t2, t3}
    BodyOf <- OneBody
    Indexer = {d1, d2}
    ModelOf <- OtherModel
    MaxIndexAttempts = 2
    GenerationBound = 2
    PushBound = 1
    AttemptsBound = 1
    SnapshotBound = 1
    None = None
    Requirement = {"q", "o"}
    SnapshotOf <- OneSnapshot
    Wording = {"t"}
    Editor = {"e"}
    Publisher = {}
    FamilyBound = 2
    CaseRevisionBound = 3
    ReleaseBound = 0
    ChangeBound = 1
    GenerationJob = {"j"}
    Command = {f1, f2}
    Lineage <- Newer
    OutputBound = 1
    Generated <- OneCase
    Declarations <- SmallRepository
    Contract <- Loads
    ChangedFile = "a"
    LineBound = 3
    SourceBound = 2
    Depths = {2}
    Sizes = {2, 4}
    MaxFiles = 1
SYMMETRY Interchangeable
INVARIANTS ReviewableIsValidated RepairsFollowFailures KnowledgeIsCurrent ImpactIsExact
PROPERTIES NeverGoesBack ScopesStand ProposalsStand
CHECK_DEADLOCK FALSE
