CONSTANTS
    Trees <- MCTrees
    MaxEdits <- MCMaxEdits
SPECIFICATION Spec
INVARIANT IsEmptyAsDesigned
CHECK_DEADLOCK FALSE
