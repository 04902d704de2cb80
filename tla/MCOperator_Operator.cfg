SPECIFICATION FairSpec
CONSTANTS
    None = None
    Names = {web}
    Pods = {1, 2}
    Controllers = {op}
    Schedulers = {op}
    Specs <- SomeSpecs
    Malformed <- NoSpecs
    Answers <- OneAnswer
    PrefixOf <- OnePrefix
    Limit <- ControllerLimit
    Nodes = {n1}
    Strays <- NoStrays
    SchedulerLimit <- LimitOfScheduler
    MaxDisturbances = 3
INVARIANT TypeOK
PROPERTY EverySetDeployed
PROPERTY CostsDrop
