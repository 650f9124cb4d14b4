\* Three keys for four variables: all roles apart, or any of them sharing one.
SPECIFICATION Spec
CONSTANTS
    Keys = {k1, k2, k3}
    Stranger = stranger
    Unset = Unset
    Stages = {"production", "staging"}
\* A start that fails is the end of the process.
CHECK_DEADLOCK FALSE
INVARIANTS PrivilegeWasGranted 
