SPECIFICATION Spec
CONSTANTS
    Names = {"n1", "n2"}
    Addrs = {"a1", "a2"}
    Heads = {"h1", "h2"}
    Kernels = {"k1", "k2"}
    Requests <- MCRequests
INVARIANTS
    RegistrationResolves
    ImageIsThisRuns
    DocaKernelMatches
PROPERTIES
    ImplementsRegistry
