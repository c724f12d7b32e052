SPECIFICATION Spec
CONSTANTS
    Files = {"a.dip", "b.dip"}
    DipFiles = {"a.dip", "b.dip"}
    DirTarget = TRUE
    RenameSaves = FALSE
    MaxSaves = 3
PROPERTY EverySaveIsLinted
CHECK_DEADLOCK FALSE
