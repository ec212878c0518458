SPECIFICATION Spec
CONSTANTS
    Session = {s1, s2}
    User = {u1, u2}
    Client = {a1}
    Request = {r1, r2}
    Pwd = pwd
    Factor = {otp}
    Ttl = 1
    MaxAge = 0
    Horizon = 1
    Handlers = {"login", "list", "endall"}
    Slow = TRUE
    Obeys = FALSE
    None = None
SYMMETRY Interchangeable
INVARIANTS ListedUntilLapse EndAllEndsAll SignedOutStaysOut
