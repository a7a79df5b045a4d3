SPECIFICATION Spec
CONSTANTS
    p1 = p1
    p2 = p2
    k1 = k1
    k2 = k2
    Callers = {p1, p2}
    Dates = {d1}
    Candidates = {k1, k2}
    PullRequests = {i1}
    MaxMoves = 1
    MaxCalls = 4
    NoCaller = NoCaller
    NoRun = NoRun
    NoBase = NoBase
    NoCandidate = NoCandidate
SYMMETRY MCSymmetry
CHECK_DEADLOCK FALSE
INVARIANTS
    RunTypeOK
    OneAttemptPerRun
    ReadyTreesAreSound
    ReturnedRunsAreCurrent
PROPERTIES
    PublicationsStay
