CONSTANTS
    NameIrs <- MCOneVar
    EtAls <- MCEtAls
    MaxBump <- MCMaxBump
    EtAlTerm = EtAlTerm
SPECIFICATION Spec
INVARIANT OwnNfaAccepts
INVARIANT NeverUnreachable
INVARIANT ExhaustedAsTable
PROPERTY Terminates
\* ref_ir returns and the driver stops cranking: the final states have no successor.
CHECK_DEADLOCK FALSE
