\* The same runs, asked whether the JSON report survives.
SPECIFICATION PipelineSpec
CONSTANTS
    Files <- MCFiles
    MaxErrorsStored = 1
    Options <- MCOptions
    MaxTexts = 3
    Labels = {"brute_force", "phishing", "malware"}
    TopClasses = 2
INVARIANT JsonReportWritten
