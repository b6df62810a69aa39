\* Two processes with scoped updates and one setMaxHistory, two failures; the
\* revision reaches its greatest value.
SPECIFICATION FairSpec
CONSTANTS
    Updater = {u1, u2}
    Saver = {s}
    NoOne = NoOne
    MaxRevision = 3
    MaxSave = 1
    MaxFault = 2
INVARIANTS
    TypeOK
    ScopedUpdatesKeepAll
PROPERTIES
    ImplementsRegister
    WritesLeaveNoTemps
    LockIsReleased
CHECK_DEADLOCK FALSE
