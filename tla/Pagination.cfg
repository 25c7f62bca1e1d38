SPECIFICATION FairSpec
CONSTANTS
    Item <- MCItem
    PageSize = 3
    ServerMax = 2
    MaxChanges = 2
INVARIANTS TypeOK QuietIterationExact EachChangeCostsOneItem
PROPERTIES IterationEnds
