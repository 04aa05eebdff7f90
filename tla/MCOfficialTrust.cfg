SPECIFICATION TrustSpec
CONSTANTS
    Pkgs <- MCPkgs
    Contents <- MCContents
    Versions <- MCVersions
    VersionOf <- MCVersionOf
    Genuine <- MCGenuine
    Seed <- MCSeed
    Published <- MCPublished
    Acked <- MCAcked
    Online = TRUE
    Tasks <- MCTasks
    MaxActive = 1
    SaveOutcomes = {TRUE, FALSE}
    LoadOutcomes = {TRUE, FALSE}
INVARIANT TrustNeedsEvidence
PROPERTIES RefutedStayOut MarkSticks
CONSTRAINT NotAllDropped
