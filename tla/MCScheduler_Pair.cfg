SPECIFICATION Spec
CONSTANTS
    None = None
    n1 = n1
    n2 = n2
    Pods = {1, 2}
    Nodes = {n1, n2}
    Schedulers = {s1, s2}
    Strays <- NoStrays
    Limit <- PairBudget
SYMMETRY Alike
INVARIANT RationaleMatchesNode
PROPERTY ImplementsPlacement
