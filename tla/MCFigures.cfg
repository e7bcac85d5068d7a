CONSTANTS
    Cpus = 2
    Disks = {d1, d2}
    Interfaces = {n1, n2}
    Half = 8
    MemoryLimit = 2
    MaxTicks = 3
    MaxMoved = 2
    MaxStarts = 1
SPECIFICATION FiguresSpec
PROPERTIES
    SharesAreTrue
    TrafficIsTheEngines
