\* An embedding and a classification batch, two attempts each, one restart, any deployment.
SPECIFICATION Spec
CONSTANTS
    Embeds = {e1}
    Classifies = {k1}
    MaxRetries = 2
    BatchTexts = 3
    MaxBatchSize = 2
    MaxRestarts = 1
INVARIANTS TypeOK GpuExclusive RetryNeverOvertakes
PROPERTIES ImplementsBatchCall QueueDrains
