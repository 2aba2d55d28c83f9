SPECIFICATION AgentSpec
CONSTANTS
    None = None
    Folders = {f1}
    Contents = {c1}
    Stamps = {t1, t2}
    Months = 2
    MaxDrops = 2
    MaxCrashes = 1
INVARIANT InterruptedArchiveResumes
CHECK_DEADLOCK FALSE
