\* Every backend and every setting, two requests; a child may be killed, or
\* write a large verdict, or never end; one dependency may be down.
SPECIFICATION Spec
CONSTANTS
    Backends = {"process", "container", "remote"}
    FaultSets = {{"killed"}, {"large"}}
    MaxRequests = 2
    Values <- MCValues
    Schemas <- MCSchemas
    RawOutputs <- MCRawOutputs
    OutputSchemas <- MCOutputSchemas
    Inputs <- MCInputs
    InputSchemas <- MCInputSchemas
    Histories <- MCHistories
\* The bound on requests ends every behaviour.
CHECK_DEADLOCK FALSE
INVARIANTS TypeOK UncontainedRunsCounted VerdictEndsRuns AnsweredOutputIsValid
INVARIANTS ReadinessForetells  AnswerIsLogged
INVARIANTS CalibrationFollowsEvidence HealthIgnoresUnits
PROPERTIES RequestAnswered
