SPECIFICATION Spec
CONSTANTS
    MaxClip = 4
    MaxFault = 2
    MaxPoll = 2
    Pipe = 1
INVARIANTS
    TypeOK
    FramesInOrder
PROPERTIES
    DaemonsAgree
CHECK_DEADLOCK FALSE
