CONSTANTS
    Trees <- MCTrees
    MaxEdits <- MCMaxEdits
SPECIFICATION Spec
INVARIANT EdgeStreamFidelity
CHECK_DEADLOCK FALSE
