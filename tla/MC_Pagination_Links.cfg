CONSTANTS
    None = None
    MaxLen = 6
    PageSizes = {1, 2, 3, 4}
    ProbePages <- MCProbeArgs
    ProbeSizes <- MCProbeArgs
    Impls = {"0x00", "simple"}
SPECIFICATION Spec
INVARIANT ArgsRejected
INVARIANT HyperLinksConsistent
