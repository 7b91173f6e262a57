CONSTANTS
    v1 = v1
    v2 = v2
    v3 = v3
    v4 = v4
    Versions = {v1, v2, v3, v4}
    Tagged = {v1, v2, v4}
    Length <- Lengths
    None = None
SPECIFICATION Spec
INVARIANTS IInv ServedIsSound
