CONSTANTS
    DisambNames = {n1, n2, n3}
    Refs = {r1, r2}
    NoData = NoData
    PersonNames <- MCPersonNames
SPECIFICATION Spec
INVARIANT WorkingEdgeAccepted
INVARIANT ResultsUnique
PROPERTY AbstractSpec
\* disambiguated_person_names returns; its final state has no successor.
CHECK_DEADLOCK FALSE
