SPECIFICATION SceneSpec
CONSTANTS
    t1 = t1  t2 = t2
    Tab = {t1, t2}
    u1 = u1  u2 = u2
    User = {u1, u2}
    s1 = s1  s2 = s2
    Factor = {"otp", "face"}
    Session = {s1, s2}
    h1 = h1  h2 = h2
    Challenge = {h1, h2}
    None = None
    MaxCodes = 2
    Scope = {"a", "b"}
    Asks <- MCAsks
    Horizon = 4
    Events = {"die", "share", "logout", "withdraw", "enrol", "expire"}
SYMMETRY Symmetry
INVARIANTS NobodyIsAskedTwice SpentOnce WithdrawnStaysWithdrawn
PROPERTIES CodesAnswerTheirRequest CodesAreConsentedTo

