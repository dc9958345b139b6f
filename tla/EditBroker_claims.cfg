SPECIFICATION Spec
CONSTANTS
    Sessions = {s1, s2}
    Conns = {c1, c2, c3}
    Files = {f1, f2}
    Paths = {p1}
    Txns = {t1}
    Closed = Closed
    TTL = 1
    MaxRev = 1
    Fates = {"line"}
SYMMETRY BrokerSymmetry
INVARIANT TypeOK
INVARIANT IntentExclusion
INVARIANT OwnersConnected
PROPERTY ImplementsLocks
