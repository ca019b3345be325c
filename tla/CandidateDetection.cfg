SPECIFICATION Spec
CONSTANTS
    None = none
    none = none
    Snapshot <- TwoSnapshots
    Paper <- OnePaper
    Neighbor <- FourSnapshots
    Kind <- TwoKinds
    Key <- TwoKeys
    Limit <- TwoNearest
    Comparisons <- AllComparisons
    Corpora <- AllCorpora
INVARIANTS
    NamesDoNotMatter
    PrimaryRuleAgrees
    NearestAreCompared
CHECK_DEADLOCK FALSE
