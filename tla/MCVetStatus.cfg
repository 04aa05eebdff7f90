\* AlarmMax 2 under three groups: every third group overflows the board.
CONSTANTS
    Ids <- MCIds
    Groups <- MCGroups
    GroupOf <- MCGroupOf
    Severities <- MCSeverities
    Plugins <- MCPlugins
    OwnIds <- MCOwnIds
    AggIds <- MCAggIds
    AlarmMax = 2
    Window = 1
    Ttl = 1
    DismissedMax = 1
    SaveOutcomes = {TRUE, FALSE}
    MaxCount = 2
SPECIFICATION Spec
INVARIANT RowsMatchScans
PROPERTIES RedOutlivesNoise FoldSticks EscalationResurfaces
