SPECIFICATION Spec
CONSTANTS
    plug = plug
    core = core
    gone = gone
    path = path
    x1 = x1
    x2 = x2
    NoOsv = NoOsv
    Packages <- MCPackages
    Class <- MCClass
    Root = {plug, core}
    Scannable = {plug, core}
    Escaped <- MCEscaped
    Basename <- MCBasename
    Configs <- MCConfigs
    StartContent <- MCContent
    Rewrites <- MCRewrites
    MaxEdits = 2
    Records <- MCRecords
    Stats <- MCStats
    Execs = {x1, x2}
    Payload <- MCPayload
    Worlds <- MCWorlds
INVARIANTS DenyHolds CoverIsEarned ReceiptsTrue
PROPERTIES ModeDecides
CHECK_DEADLOCK FALSE
