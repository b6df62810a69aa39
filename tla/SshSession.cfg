\* Outbound sync to one peer, every interleaving of the channel operations:
\* three clips, the first of which the peer refuses, two sessions, two failures.
SPECIFICATION Spec
CONSTANTS
    MaxClip = 3
    MaxSession = 2
    MaxFault = 2
    Poison = {1}
    DrainRaces = TRUE
INVARIANTS
    TypeOK
    SessionOwnership
    NeverLoseLatest
    AckedWasHanded
    NoSequenceGap
PROPERTIES
    StaleSessionInert
CHECK_DEADLOCK FALSE
