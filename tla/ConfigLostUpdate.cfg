\* One scoped update and one setMaxHistory, no failures.
SPECIFICATION Spec
CONSTANTS
    Updater = {u1}
    Saver = {s}
    NoOne = NoOne
    MaxRevision = 3
    MaxSave = 1
    MaxFault = 0
INVARIANTS
    NoLostUpdate
CHECK_DEADLOCK FALSE
