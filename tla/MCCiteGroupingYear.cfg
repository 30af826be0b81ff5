\* Grouping with no collapse, year and year-suffix collapse: four cites
\* with two rendered names or none, any prefix and suffix.
CONSTANTS
    NameVals = {A, B}
    NoName = NoName
    NoNum = NoNum
    NumCites <- MCNumCites
    CnumVals <- MCNoCnums
    AffixVals <- MCAnyAffix
    Collapses <- MCYearModes
SPECIFICATION Spec
INVARIANT AffixBarrier
\* group_and_collapse returns: its final state has no successor.
CHECK_DEADLOCK FALSE
