CONSTANTS
    None = None
    N = 5
    PageSizes = {0, 2}
SPECIFICATION Spec
PROPERTY WalkTerminates
