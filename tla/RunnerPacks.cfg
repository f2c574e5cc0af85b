\* A run ends: its last state has no successor.
CHECK_DEADLOCK FALSE
SPECIFICATION FairSpec
CONSTANTS
    t1 = t1
    c1 = c1
    c2 = c2
    NoCall = NoCall
    AnyTool = AnyTool
    Tools = {t1}
    Contexts = {c1, c2}
    Packs <- RunPacks
    Probes = 1
    Answers <- StdioAnswers
INVARIANTS
    AttemptsFollowPolicy
    EffectsHaveEvents
    MatchedAccounted
    StaleFromEarlier
    CommitClaimIsTrue
PROPERTIES
    VerdictOnCompleteRun
    RunReturns
    ReportedGone
