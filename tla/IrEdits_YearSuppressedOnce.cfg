CONSTANTS
    Trees <- MCTrees
    MaxEdits <- MCMaxEdits
SPECIFICATION Spec
PROPERTY YearSuppressedOnce
CHECK_DEADLOCK FALSE
