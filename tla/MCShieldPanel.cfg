SPECIFICATION Spec
CONSTANTS
    None = None
    Odd = Odd
    Documents <- MCDocuments
    Worlds <- MCWorlds
    Releases <- MCReleases
    Own <- MCOwn
    Dsh = 1
    CheckInterval = 2
    MaxClock = 4
INVARIANT OffMeansOff
PROPERTIES OthersKept AnswerHolds NewestShown AskedOnceADay
CHECK_DEADLOCK FALSE
