CONSTANTS
    g1 = g1
    g2 = g2
    Grants <- TwoGrants
    None = None
    NumCommands = 1
    ChannelReplies <- NoErrors
    MaxFaults = 1
SPECIFICATION LoopSpec
PROPERTIES DownCommandsTaken
