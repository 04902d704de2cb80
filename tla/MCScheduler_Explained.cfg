SPECIFICATION FairSpec
CONSTANTS
    None = None
    n1 = n1
    n2 = n2
    Pods = {1}
    Nodes = {n1}
    Schedulers = {s1}
    Strays <- NoStrays
    Limit <- OnePodOneReport
PROPERTY EveryBindingExplained
