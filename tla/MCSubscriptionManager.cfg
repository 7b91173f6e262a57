CONSTANTS
    g1 = g1
    g2 = g2
    None = None
    Grants <- TwoGrants
    NumCommands = 2
    ChannelReplies <- NoErrors
    MaxFaults = 2
SPECIFICATION FairSpec
INVARIANTS DoneIsGranted HandshakeOwnsRequest GrantNeedsBothLegs NoForeignReply IInv
PROPERTIES BridgeSpec Reconnects CommandsAnswered
