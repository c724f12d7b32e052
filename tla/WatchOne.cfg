SPECIFICATION Spec
CONSTANTS
    Files = {"a.dip", "notes"}
    DipFiles = {"a.dip"}
    DirTarget = TRUE
    RenameSaves = TRUE
    MaxSaves = 5
PROPERTY EverySaveIsLinted
CHECK_DEADLOCK FALSE
