SPECIFICATION Spec
CONSTANTS
    Users = {u1, u2}
    Passwords = {p1, p2}
    SessionIds = {s1, s2, s3}
    TokenIds = {t1}
    Requests = {r1, r2}
    MaxResets = 2
    NoUser = NoUser
    NoSession = NoSession
SYMMETRY Symmetry
INVARIANTS
    TypeOK
    RotationChain
    NoActiveSessionPredatesReset
    RotationFanOut
    ResetFanOut
PROPERTIES
    ExchangedTokenRefused
    UsedTokenRefused
    ImplementsRegistry
