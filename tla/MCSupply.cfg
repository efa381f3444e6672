SPECIFICATION Spec
INVARIANTS
    DownloadsSafe
    InstallSafe
    UpdatesSafe
    ModelFilesSafe
    RecordsSafe
CHECK_DEADLOCK FALSE
