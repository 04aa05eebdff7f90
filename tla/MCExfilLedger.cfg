CONSTANTS
    NoRow = NoRow
    Events <- MCEvents
    Small = 3
    Window = 1
    SeqWindow = 2
    Assoc = 3
    SpawnWindow = 1
    Ttl = 4
    Cap = 2
    Limit <- MCLimit
    Least <- MCLeast
    Factor = 2
    MinBytes = 2
    MaxEvents = 4
    MaxTime = 6
SPECIFICATION Spec
INVARIANTS DestructionIsReal SequenceIsReal
PROPERTIES AttacksSeen
