CONSTANTS
    Positions = {top, further}
    Top = top
    Sizes = {none, small, large}
    Unsized = none
    MaxLoads = 3
SPECIFICATION Spec
INVARIANTS IInv ScreenIsCurrent LoadIsDriven
PROPERTIES NoSharedContainer ClickStaysOnItsPage StagesAreAnnounced LoadEnds
