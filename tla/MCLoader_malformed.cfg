\* JSONL of up to three rows, asked whether malformed rows are skipped.
SPECIFICATION LoaderSpec
CONSTANTS
    Files <- MCBroken
    MaxErrorsStored = 2
INVARIANT MalformedRowsSkipped
