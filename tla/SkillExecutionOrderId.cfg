\* The tested answer to an output with an order_id, in the container.
SPECIFICATION Spec
CONSTANTS
    Backends = {"container"}
    FaultSets = {{}}
    MaxRequests = 1
    Values <- MCValues
    Schemas <- MCSchemas
    RawOutputs <- MCRawOutputs
    OutputSchemas <- MCOutputSchemas
    Inputs <- MCInputs
    InputSchemas <- MCInputSchemas
    Histories <- MCHistories
\* The bound on requests ends every behaviour.
CHECK_DEADLOCK FALSE
INVARIANTS OrderIdRejected
