SPECIFICATION Spec
CONSTANTS
    Images = {"rocky", "ubuntu"}
    Ubuntu = {"ubuntu"}
    Hosts = {"h1", "h2"}
    Addresses = {"a1"}
    Passwords = {"p1", "p2"}
    Losses <- SomeLost
    Requests <- ImageRequests
INVARIANTS
    MarkerSound
    RebuiltOnce
    PackedClean
    RootClean
PROPERTIES
    CacheIsTransparent
