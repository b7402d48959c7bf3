CONSTANTS
    None = None
    MaxLen = 4
    PageSizes = {1, 2}
    ProbePages <- MCBadArgs
    ProbeSizes <- MCBadArgs
    Impls = {"root"}
SPECIFICATION Spec
INVARIANT ArgsRejected
