\* Two handlers and a command on three documents with two peers of one locator.
SPECIFICATION Spec
CONSTANTS
    Peer = {p1, p2}
    NoPeer = NoPeer
    Handler = {h1, h2}
    Command = {c1}
    Target <- OneTarget
    MaxRevision = 3
    MaxRestart = 1
SYMMETRY Alike
INVARIANTS
    TypeOK
    ReadyIsProven
    UpdatesStayInForce
    SecretIsRecorded
