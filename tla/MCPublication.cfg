CONSTANTS
    r1 = r1
    r2 = r2
    NoCommit = NoCommit
    Base = Base
    Foreign = Foreign
    Runs <- MCRuns
    MaxCommits = 5
    MaxPulls = 4
    MaxFaults = 3
SPECIFICATION FairSpec
CHECK_DEADLOCK FALSE
INVARIANTS
    PublicationTypeOK
    ResultsAgree
PROPERTIES
    NoSecondPullRequest
    RetriesPublish
