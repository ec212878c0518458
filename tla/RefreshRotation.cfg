SPECIFICATION SceneSpec
CONSTANTS
    f1 = f1
    f2 = f2
    c1 = c1
    c2 = c2
    u1 = u1
    Family = {f1, f2}
    Client = {c1, c2}
    User = {u1}
    Token = {t1, t2, t3}
    Request = {r1, r2}
    ClientOf <- MCClientOf
    UserOf <- MCUserOf
    Remembers = TRUE
    Events = {"crash", "lease", "lapse", "expiry", "activation"}
    None = None
    Orphan = Orphan
    Ended = Ended
SYMMETRY Interchangeable
INVARIANTS
    TypeOK
    AtMostOneLive
    OneAnswerPerToken
    ReuseMeansTheft
    OnlyOwnTokens
    CleanSweepIsFinal
PROPERTY ImplementsLineage
