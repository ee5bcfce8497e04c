\* Two clusters compete for one permit, two attempts each.
SPECIFICATION Spec
CONSTANTS
    Tasks = {t1, t2}
    MaxConcurrent = 1
    MaxRetries = 2
    Usages <- MCUsages
INVARIANTS TypeOK PermitConservation CallBudget UsageAccounted
PROPERTIES NoBarging EveryRequestEnds
