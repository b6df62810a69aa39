\* Publish may run between the two channel operations of the drain.
SPECIFICATION Spec
CONSTANTS
    MaxClip = 3
    MaxSession = 1
    MaxFault = 0
    Poison = {}
    DrainRaces = TRUE
INVARIANTS
    NewestOnItsWay
CHECK_DEADLOCK FALSE
