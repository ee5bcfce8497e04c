\* Seven exports, six command lines, every clustering and classification.
SPECIFICATION PipelineSpec
CONSTANTS
    Files <- MCFiles
    MaxErrorsStored = 1
    Options <- MCOptions
    MaxTexts = 3
    Labels = {"brute_force", "phishing", "malware"}
    TopClasses = 2
INVARIANTS PipelineTypeOK EveryLogAccounted EvidenceWhole DisabledForTheRest WorstLogDecides BarsTrue
PROPERTY CleanRunReports
