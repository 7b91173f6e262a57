CONSTANTS
    Keys = {k1, k2}
    Mouse = Mouse
    None = None
    MaxEvents = 4
    MaxChanges = 3
    MaxFailures = 2
SPECIFICATION FairSpec
INVARIANTS IInv OffIsPursued DarkCanBeWoken
PROPERTIES PressOnlyWakes OffSpec OffBlanks
