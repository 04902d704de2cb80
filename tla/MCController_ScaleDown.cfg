SPECIFICATION Spec
CONSTANTS
    None = None
    Names = {web}
    Pods = {1, 2, 3, 4}
    Controllers = {c1, c2}
    Specs <- FixedSpecs
    Malformed <- NoSpecs
    Answers <- NoAnswers
    PrefixOf <- OnePrefix
    Limit <- FixedBudget
SYMMETRY Alike
PROPERTY NeverBelowScale
