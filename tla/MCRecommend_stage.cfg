\* Two clusters share one permit and may retry; any may fail in retrieval.
SPECIFICATION RecommendSpec
CONSTANTS
    Tasks = {t1, t2}
    MaxConcurrent = 1
    MaxRetries = 2
    Usages <- MCUsages
INVARIANTS RecommendTypeOK ProgressExact HonestIncident
PROPERTIES NoCallAfterAbort StageEnds ImplementsStage
