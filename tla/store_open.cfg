\* Three edits by agents of any version, and up to four migrations begun, by 0.7 or this version.
SPECIFICATION Spec
CONSTANTS
    Edit = {e1, e2, e3}
    MaxStamp = 4
SYMMETRY Symmetry
INVARIANTS NothingLost RefusedWithCause Fenced
PROPERTIES BackupFirst
