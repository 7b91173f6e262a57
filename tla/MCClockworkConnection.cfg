CONSTANTS
    NumCommands = 5
    MaxPresses = 2
    MaxFaults = 2
SPECIFICATION FairSpec
INVARIANTS IInv RefreshQueued SnapshotIsCurrent InFlightIsHead CommandsInOrder
PROPERTIES NoStaleSend OperatorSpec DataLoads QueueDrains
