SPECIFICATION FairSpec
CONSTANTS
    None = None
    n1 = n1
    n2 = n2
    Pods = {1, 2}
    Nodes = {n1, n2}
    Schedulers = {s1}
    Strays <- Careless
    Limit <- AloneBudget
INVARIANT TypeOK
INVARIANT SnapshotComplete
INVARIANT CountedOnce
INVARIANT RationaleIsOwn
PROPERTY EveryPodBound
