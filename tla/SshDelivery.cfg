\* Outbound sync to one peer under fairness, with Publish kept out of the drain
\* window: two clips, the first of which the peer refuses, two failures.
SPECIFICATION FairSpec
CONSTANTS
    MaxClip = 2
    MaxSession = 2
    MaxFault = 2
    Poison = {1}
    DrainRaces = FALSE
INVARIANTS
    PendingIsNewest
    NewestOnItsWay
PROPERTIES
    PendingResolves
    CancelledSessionsEnd
CHECK_DEADLOCK FALSE
