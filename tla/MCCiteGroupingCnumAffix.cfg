\* Citation-number collapse over two cites that may carry a prefix or suffix.
CONSTANTS
    NameVals = {A}
    NoName = NoName
    NoNum = NoNum
    NumCites <- MCTwoCites
    CnumVals <- MCCnums
    AffixVals <- MCAnyAffix
    Collapses <- MCCitationNumber
SPECIFICATION Spec
INVARIANT AffixBarrier
\* group_and_collapse returns: its final state has no successor.
CHECK_DEADLOCK FALSE
