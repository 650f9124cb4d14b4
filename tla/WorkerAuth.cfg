\* Three requests, room for two nonces, a window of six seconds.
SPECIFICATION Spec
CONSTANTS
    Nonces = {n1, n2, n3}
    MaxSkew = 3
    MaxEntries = 2
    Fractions = 2
    MaxAhead = 1
    MaxSecond = 7
    MaxAccepted = 4
    MaxEpoch = 2
    None = None
SYMMETRY NonceSymmetry
\* The bound on the clock ends every behaviour.
CHECK_DEADLOCK FALSE
INVARIANTS TypeOK  HeldMeansAdmitted
