\* Two copies of the module, two installations and two pids at a time: a
\* takeover meets a predecessor that takes its time to end.
CONSTANTS
    Copies = {a, b}
    NoCopy = NoCopy
    Insts = {1, 2}
    Pids = {p, q}
    NoPid = NoPid
    Budget = 1
    MaxFaults = 1
    PidReuse = TRUE
    HostDies = TRUE
    Readings <- MCReadings
    MemLimit = 3
    ForkBurstN = 2
    FdLimit = 8
    Growth = 2
    GrowthWindow = 2
    Warmup = 1
    MemSustain = 2
    Worlds <- MCWorlds
SPECIFICATION SamplingSpec
INVARIANTS OneWatcher OffIsOff LossIsVisible AlarmsAreMeasured
PROPERTIES GuardServed WatcherFollowsHost
