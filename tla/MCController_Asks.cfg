SPECIFICATION Spec
CONSTANTS
    None = None
    Names = {web, db}
    Pods = {1, 2}
    Controllers = {c1, c2}
    Specs <- TwoSpecs
    Malformed <- NoSpecs
    Answers <- LabelAnswers
    PrefixOf <- Alternate
    Limit <- Restarted
INVARIANT OwnWorkload
PROPERTY AskOncePerVersion
SYMMETRY Alike
