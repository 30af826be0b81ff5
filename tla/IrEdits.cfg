CONSTANTS
    Trees <- MCTrees
    MaxEdits <- MCMaxEdits
SPECIFICATION Spec
PROPERTIES
    RecomputeSettles
    SuppressNamesFirstOnly
    YearBlankedForSuffix
    SplitKeepsText
CHECK_DEADLOCK FALSE
