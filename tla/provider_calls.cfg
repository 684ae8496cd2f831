SPECIFICATION Spec
CONSTANTS
    m1 = m1
    m2 = m2
    Threads = {t1, t2}
    Models = {m1, m2}
    Profiled = {m1}
    Rejecting = {m1}
    Cooldown = 2
INVARIANTS
    TypeOK
    OthersKeepTemperature
    RejectionsBounded
    CooldownLimitsFailures
PROPERTIES
    AttributionResumes
