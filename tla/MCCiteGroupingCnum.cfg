\* Citation-number collapse: four cites, two rendered names or none,
\* numbers 1..3 (several cites may cite one reference), no affixes.
CONSTANTS
    NameVals = {A, B}
    NoName = NoName
    NoNum = NoNum
    NumCites <- MCNumCites
    CnumVals <- MCCnums
    AffixVals <- MCNoAffix
    Collapses <- MCCitationNumber
SPECIFICATION Spec
INVARIANT CnumsShownInOrder
INVARIANT RangesMaximal
\* group_and_collapse returns: its final state has no successor.
CHECK_DEADLOCK FALSE
