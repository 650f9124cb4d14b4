\* The kernel may kill the child while it writes a large verdict.
SPECIFICATION Spec
CONSTANTS
    Backends = {"process"}
    FaultSets = {{"killed", "large"}}
    MaxRequests = 1
    Values <- MCValues
    Schemas <- MCSchemas
    RawOutputs <- MCRawOutputs
    OutputSchemas <- MCOutputSchemas
    Inputs <- MCInputs
    InputSchemas <- MCInputSchemas
    Histories <- MCHistories
\* The bound on requests ends every behaviour.
CHECK_DEADLOCK FALSE
PROPERTIES RequestAnswered
