\* Two overlapping runs on one cache directory, crashes, failures, a redeploy.
SPECIFICATION Spec
CONSTANTS
    Runs = {r1, r2}
    Inputs <- MCInputs
    Dim <- MCDim
    BatchSize = 2
    MaxRetries = 2
    TooLong = {"long"}
INVARIANTS TypeOK ResultAligned CacheCoherent NoRecompute RequestBudget
PROPERTY RunEnds
