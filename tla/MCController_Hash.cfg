SPECIFICATION Spec
CONSTANTS
    None = None
    Names = {web}
    Pods = {1, 2}
    Controllers = {c1}
    Specs <- CollidingSpecs
    Malformed <- NoSpecs
    Answers <- OneAnswer
    PrefixOf <- OnePrefix
    Limit <- TwoEdits
INVARIANT ObservedMeansApplied
