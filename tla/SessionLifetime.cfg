SPECIFICATION Spec
CONSTANTS
    Session = {s1}
    User = {u1}
    Client = {a1}
    Request = {r1, r2}
    Pwd = pwd
    Factor = {otp}
    Ttl = 1
    MaxAge = 0
    Horizon = 1
    Handlers = {"login", "authorize", "stepup", "logout", "revoke"}
    Slow = TRUE
    Obeys = FALSE
    None = None
SYMMETRY Interchangeable
INVARIANTS StoredMethodsWerePerformed ReachedClientsAreTold
