SPECIFICATION ListsSpec
CONSTANTS
    ours = ours
    theirs = theirs
    Hosts <- MCHosts
    Versions <- MCVersions
    Can <- MCCan
    Audited <- MCAudited
    Sourceless = {4}
    MaxKept = 2
    Verdicts <- MCVerdicts
    Engine <- MCEngine
    MostKept = 1
    NewFor = 2
    Scenarios <- MCScenarios
CHECK_DEADLOCK FALSE
INVARIANT DoubtIsShown
