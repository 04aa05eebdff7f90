CONSTANTS
    Copies = {a, b}
    NoCopy = NoCopy
    Layers = {1, 2}
    NoLayer = NoLayer
    Plugins = {p}
    Nobody = Nobody
    Official = {p}
    Modes = {"strict"}
    MaxLures = 1
    Tampering = TRUE
SPECIFICATION FairSpec
INVARIANTS NoFalseIntercept ConfirmedIsStopped
PROPERTY StrippedIsReported
