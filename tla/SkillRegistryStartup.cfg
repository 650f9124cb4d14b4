\* One process that is seeded at every start, on a file that may hold old rows
\* of skills other than the seed.
SPECIFICATION Spec
CONSTANTS
    Procs = {p1}
    SkillIds = {s1, s2}
    Families = {s1, s2}
    Versions = {v1, v2}
    DefaultVersion = v1
    Codes = {safe, unsafe}
    SafeCodes = {safe}
    RegisterStages = {"candidate"}
    PromoteStages = {"candidate", "champion"}
    SeedId = s1
    SeedCode = safe
    SeedConfigs <- AlwaysSeeded
    LegacyIds = {s2}
    Faults = {"crash"}
    MaxRequests = 6
    None = None
    NoRow = NoRow
\* The bound on requests ends every behaviour.
CHECK_DEADLOCK FALSE
INVARIANTS SeededServiceStarts 
PROPERTIES PromotionCompletes
