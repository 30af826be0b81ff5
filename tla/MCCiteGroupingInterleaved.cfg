\* Year collapse over four cites whose two rendered names interleave.
CONSTANTS
    NameVals = {A, B}
    NoName = NoName
    NoNum = NoNum
    NumCites <- MCNumCites
    CnumVals <- MCNoCnums
    AffixVals <- MCNoAffix
    Collapses <- MCYear
SPECIFICATION Spec
INVARIANT SuppressedNamesFollowSameName
\* group_and_collapse returns: its final state has no successor.
CHECK_DEADLOCK FALSE
