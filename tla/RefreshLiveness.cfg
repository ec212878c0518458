SPECIFICATION FairSceneSpec
CONSTANTS
    f1 = f1
    f2 = f2
    c1 = c1
    c2 = c2
    u1 = u1
    Family = {f1, f2}
    Client = {c1}
    User = {u1}
    Token = {t1, t2}
    Request = {r1, r2}
    ClientOf <- BothClientOf
    UserOf <- MCUserOf
    Remembers = TRUE
    Events = {"crash", "lease", "lapse"}
    None = None
    Orphan = Orphan
    Ended = Ended
PROPERTY EveryRequestEnds
