SPECIFICATION Spec
CONSTANTS
    Session = {s1}
    User = {u1}
    Client = {a1}
    Request = {r1, r2}
    Pwd = pwd
    Factor = {otp}
    Ttl = 2
    MaxAge = 2
    Horizon = 3
    Handlers = {"login", "authorize", "logout"}
    Slow = TRUE
    Obeys = TRUE
    None = None
SYMMETRY Interchangeable
INVARIANT SessionEndsForGood
CHECK_DEADLOCK FALSE
