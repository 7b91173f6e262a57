CONSTANTS
    None = None
    Grants = {g1}
    NumCommands = 2
    MaxPresses = 1
    ChannelReplies = {"grant", "other"}
    MaxFaults = 1
SPECIFICATION ClientSpec
PROPERTIES LinkSpec
