SPECIFICATION TaskSpec
CONSTANTS
    Sessions = {s1, s2}
    Conns = {c1, c2}
    Files = {f1}
    Paths = {p1}
    Txns = {t1}
    Closed = Closed
    TTL = 1
    MaxRev = 2
    Fates = {"line", "glued", "cut", "unwritten"}
INVARIANT JournalTells
PROPERTIES
    OwnerReclaimed
    OpenTxnSettles
    RevisionsAdvance
