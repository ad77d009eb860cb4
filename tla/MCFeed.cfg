CONSTANTS
    Catalog <- MCCatalog
    MaxSlate = 2
    MaxEditions = 1
    Goals = {0, 2}
SPECIFICATION FeedSpec
CHECK_DEADLOCK FALSE
INVARIANTS
    LabelIsTheBet
    VoteIsTheBet
    FullTimeIsRecovered
