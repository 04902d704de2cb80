SPECIFICATION Spec
CONSTANTS
    None = None
    Names = {web}
    Pods = {1, 2, 3}
    Controllers = {c1, c2}
    Specs <- OverlapSpecs
    Malformed <- NoSpecs
    Answers <- NoAnswers
    PrefixOf <- OnePrefix
    Limit <- OverlapBudget
SYMMETRY Alike
INVARIANT ContributionBounded
INVARIANT NegativeNeverReported
