CONSTANTS
    Connections = {c1, c2}
    Screens = {s1, s2, s3}
    Blank = {s3}
    None = None
    Unknown = Unknown
    SettleFrames = 2
    CoverDelay = 0
    UncoverDelay = 0
    MaxDrops = 2
    MaxJumps = 1
SPECIFICATION FairSpec
INVARIANTS InputIsCurrent NoDragCovered SettleUnderOverlay IInv
PROPERTIES CurtainSpec OverlayLifts OverlayCovers
