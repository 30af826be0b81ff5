\* Termination of the loops; two names of one reference keep the liveness check small
\* (two DisambNames of one reference can still have identical matchers).
CONSTANTS
    DisambNames = {n1, n2}
    Refs = {r1}
    NoData = NoData
    PersonNames <- MCPersonNames
SPECIFICATION Spec
PROPERTY Terminates
\* disambiguated_person_names returns; its final state has no successor.
CHECK_DEADLOCK FALSE
