SPECIFICATION SinkSpec
CONSTANTS
    ext = ext
    off = off
    none = none
    Plugins <- MCPlugins
    Nobody = none
    OfficialNames <- MCOfficial
    Files <- MCFiles
    FilesOf <- MCFilesOf
    Drafts <- MCDrafts
    Manifests <- MCManifests
    Credentials <- MCCredentials
    Operations <- MCOperations
    Lures <- MCLures
    Core <- MCCore
    Mode = "strict"
    OutputMode = "active"
    MaxSteps = 5
INVARIANTS PluginNotHidden DistrustTold
CHECK_DEADLOCK FALSE
