\* One run after another around a change of the checkpoint.
SPECIFICATION Spec
CONSTANTS
    Runs = {r1, r2}
    Inputs <- MCInputs
    Dim <- MCDim
    BatchSize = 2
    MaxRetries = 1
    TooLong = {"long"}
PROPERTY CheckpointChangeMisses
