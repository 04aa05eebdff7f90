SPECIFICATION FairSpec
CONSTANTS
    tool = tool
    gate = gate
    deny = deny
    Calls <- MCCalls
    Kind <- MCKind
    Contents <- MCContents
    Official = {deny}
    OsvCalls = {tool, gate}
    RadarCalls = {tool}
    Manifest <- MCManifest
    Advisories <- MCAdvisories
    MaxDirectDeps = 2
    MaxNamed = 2
    Torn = FALSE
    MaxConcurrent = 1
    SyncCalls = {deny}
    StartDisks <- MCStart
    Edits <- MCEdits
    Failed = Failed
    NoOsv = NoOsv
INVARIANTS SlotsExact CacheFaithful AdvisoriesKept
PROPERTIES Promised EveryoneAnswered
CHECK_DEADLOCK FALSE
