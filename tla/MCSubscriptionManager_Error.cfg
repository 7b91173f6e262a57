CONSTANTS
    g1 = g1
    g2 = g2
    None = None
    Grants <- TwoGrants
    NumCommands = 1
    ChannelReplies <- WithErrors
    MaxFaults = 1
SPECIFICATION FairSpec
PROPERTIES ErrorRetried
