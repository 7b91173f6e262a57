CONSTANTS
    Keys = {k1, k2}
    Mouse = Mouse
    None = None
    MaxEvents = 4
    MaxChanges = 3
    MaxFailures = 0
SPECIFICATION Spec
PROPERTIES WakeKeySwallowed
