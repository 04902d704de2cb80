SPECIFICATION FairSpec
CONSTANTS
    None = None
    Names = {web}
    Pods = {1, 2, 3}
    Controllers = {c1}
    Specs <- MistakenSpecs
    Malformed <- MalformedSpecs
    Answers <- ScaleAnswers
    PrefixOf <- OnePrefix
    Limit <- OneOfEach
INVARIANT TypeOK
INVARIANT NoOvershoot
INVARIANT ObservedMeansApplied
PROPERTY Converges
