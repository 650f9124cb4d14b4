\* Three calls, one malformed and one that the network repeats; losses, one restart.
SPECIFICATION Spec
CONSTANTS
    Calls = {c1, c2, c3}
    Malformed = {c3}
    Repeated = {c1}
    MaxConcurrency = 1
    Threads = 1
    MaxRestarts = 1
\* All calls may have ended.
CHECK_DEADLOCK FALSE
INVARIANTS TypeOK PermitsConserved RunsOnce RefusedNeverRuns ResultMeansEnded
PROPERTIES AdmittedIsAnswered
