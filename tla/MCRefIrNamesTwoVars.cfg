\* Two names variables of one element: the runner's bump_name_count is
\* carried from the first variable's loop into the second's.
CONSTANTS
    NameIrs <- MCTwoVars
    EtAls <- MCEtAls
    MaxBump <- MCMaxBump
    EtAlTerm = EtAlTerm
SPECIFICATION Spec
INVARIANT OwnNfaAccepts
\* ref_ir returns and the driver stops cranking: the final states have no successor.
CHECK_DEADLOCK FALSE
