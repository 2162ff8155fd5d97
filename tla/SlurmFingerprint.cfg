SPECIFICATION Spec
CONSTANTS
    Images = {"rocky"}
    Ubuntu = {}
    Hosts = {"h1", "h2"}
    Addresses = {"a1", "a2"}
    Passwords = {"p1"}
    Losses <- SomeLost
    Requests <- PlainRequests
INVARIANT
    SlurmNeedsNoFingerprint
