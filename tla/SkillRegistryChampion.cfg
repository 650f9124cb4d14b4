\* One process, crashes and failed writes, an approved seed skill.
SPECIFICATION Spec
CONSTANTS
    Procs = {p1}
    SkillIds = {s1, s2}
    Families = {s1, s2}
    Versions = {v1, v2}
    DefaultVersion = v1
    Codes = {safe}
    SafeCodes = {safe}
    RegisterStages = {"candidate"}
    PromoteStages = {"candidate", "shadow", "champion", "retired"}
    SeedId = s1
    SeedCode = safe
    SeedConfigs <- SeededApproved
    LegacyIds = {s2}
    Faults = {"crash", "write"}
    MaxRequests = 6
    None = None
    NoRow = NoRow
\* The bound on requests ends every behaviour.
CHECK_DEADLOCK FALSE
INVARIANTS TypeOK OneChampionPerFamily DeployedImpliesApproved RollbackReportsReplaced
PROPERTIES HistoryIsAppendOnly ImplementsFamilyChampions
