CONSTANTS
    None = None
    MaxLen = 6
    PageSizes = {1, 2, 3, 4}
    ProbePages = {0, 1, 2, 3, 4}
    ProbeSizes = {0, 1, 2, 3, 4}
    Impls = {"0x00", "root", "simple"}
SPECIFICATION Spec
INVARIANT TypeOK
INVARIANT IndexRangeAgrees
INVARIANT WalkReproducesDataset
