CONSTANTS
    Positions = {top, further}
    Top = top
    Sizes = {none, small, large}
    Unsized = none
    MaxLoads = 2
SPECIFICATION Spec
INVARIANTS SurfacesOutliveDocuments
