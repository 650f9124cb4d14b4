\* Two processes on one file.
SPECIFICATION Spec
CONSTANTS
    Procs = {p1, p2}
    SkillIds = {s1, s2}
    Families = {s1, s2}
    Versions = {v1, v2}
    DefaultVersion = v1
    Codes = {safe, unsafe}
    SafeCodes = {safe}
    RegisterStages = {"candidate"}
    PromoteStages = {"champion"}
    SeedId = s1
    SeedCode = safe
    SeedConfigs <- NeverSeeded
    LegacyIds = {}
    Faults = {"crash"}
    MaxRequests = 7
    None = None
    NoRow = NoRow
\* The bound on requests ends every behaviour.
CHECK_DEADLOCK FALSE
INVARIANTS FamilyVersionIdentity LineageSound UnsafeNeverDeployed AuditTrailExplainsState
