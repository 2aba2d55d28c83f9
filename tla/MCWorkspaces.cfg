SPECIFICATION WorkspaceSpec
CONSTANTS
    None = None
    MaxSpaces = 3
    MaxEdits = 1
    MaxSaves = 2
INVARIANT ChangesSynced
CHECK_DEADLOCK FALSE
