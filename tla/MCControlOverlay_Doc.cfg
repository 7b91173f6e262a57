CONSTANTS
    Connections = {c1, c2}
    Screens = {s1, s2, s3}
    Blank = {s3}
    None = None
    Unknown = Unknown
    SettleFrames = 1
    CoverDelay = 3
    UncoverDelay = 2
    MaxDrops = 2
    MaxJumps = 1
SPECIFICATION Spec
PROPERTIES RemovedWhenDone
