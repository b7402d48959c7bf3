CONSTANTS
    None = None
    MaxLen = 6
    PageSizes = {1, 2, 3, 4}
    ProbePages = {0, 1, 2, 3, 4}
    ProbeSizes = {0, 1, 2, 3, 4}
    Impls = {"root"}
SPECIFICATION Spec
INVARIANT HyperLinksConsistent
