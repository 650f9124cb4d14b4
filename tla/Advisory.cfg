\* Three skills in every combination of rows, one change by another process
\* during an ensemble.
SPECIFICATION Spec
CONSTANTS
    Catalog <- MCCatalog
    Stages = {"champion", "challenger", "shadow", "retired"}
    RecommendRequests <- MCRecommendRequests
    EnsembleRequests <- MCEnsembleRequests
    PolicyRequests <- MCPolicyRequests
    Scores = {0, 40, 98, 99}
    Outputs <- MCOutputs
    MaxChanges = 1
INVARIANTS RecommendationAccounts EvidenceOrders EnsembleIsDiverse
INVARIANTS TrustedSignalIsBacked  DeltasAccounted
