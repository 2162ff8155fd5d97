SPECIFICATION Spec
CONSTANTS
    Names = {"n1", "n2"}
    Addrs = {"a1", "a2"}
    Lossy = {"mkdef", "makehosts", "makedhcp"}
    Requests <- MCRequests
INVARIANTS
    BootsIntoImage
    KeyBeforeKea
    AnsweringNodesBoot
    PbsFollowsHosts
