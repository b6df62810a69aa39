\* One daemon with each kind of clipboard: two of the copies, restores and
\* deliveries, to two concurrent handlers, one failing write or mint.
SPECIFICATION FairSpec
CONSTANTS
    None = None
    a = a
    i = i
    j = j
    Texts = {a}
    Images = {i, j}
    Reencoded <- MCReencoded
    Receiver = {"r1", "r2"}
    Inbound <- MCInbound
    Backends = {"image", "path", "headless"}
    SeenCap = 1
    StartClock = 1
    MaxStimulus = 2
    MaxMint = 6
    MaxFault = 1
INVARIANTS
    TypeOK
    ConcealedStaysPut
    AcceptedOnce
PROPERTIES
    AcceptedIsRelayed
    Settles
CHECK_DEADLOCK FALSE
