\* A clip is received while another is received or restored, with a clock that is
\* not behind those of the peers.
SPECIFICATION Spec
CONSTANTS
    None = None
    a = a
    i = i
    j = j
    Texts = {a}
    Images = {i, j}
    Reencoded <- MCReencoded
    Receiver = {"r1", "r2"}
    Inbound <- MCInbound
    Backends = {"headless"}
    SeenCap = 2
    StartClock = 3
    MaxStimulus = 2
    MaxMint = 6
    MaxFault = 0
INVARIANTS
    NewestWins
CHECK_DEADLOCK FALSE
