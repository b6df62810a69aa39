\* Three hosts, provisioned and healed by one user again and again; two
\* commands fail or lose their answers, and one peer is edited, one sync key
\* lost or one host key changed meanwhile.
SPECIFICATION Spec
CONSTANTS
    r1 = r1
    Host = {1, 2, 3}
    Direct = {3}
    Runner = {r1}
    Home <- HomeOne
    Again = {r1}
    MaxFault = 2
    MaxUpset = 1
INVARIANTS
    TypeOK
    ReadyWasProbed
    HealthyEdgeAuthenticates
PROPERTIES
    Converges
