SPECIFICATION FairSpec
CONSTANTS
    Pkgs <- QueuePkgs
    Contents <- QueueContents
    Versions <- QueueVersions
    VersionOf <- QueueVersionOf
    Genuine <- QueueGenuine
    Seed <- QueuePkgs
    Published = {}
    Acked = {}
    Online = TRUE
    Tasks <- QueueTasks
    MaxActive = 1
    SaveOutcomes = {TRUE}
    LoadOutcomes = {TRUE}
PROPERTIES VerificationServed
