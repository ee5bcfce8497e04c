\* Exports of up to four rows, rightly and wrongly told, and rows in any state; two errors are stored.
SPECIFICATION LoaderSpec
CONSTANTS
    Files <- MCFiles
    MaxErrorsStored = 2
INVARIANTS LoaderTypeOK ResultIsFile ErrorsNameSkipped FormatsAgree
