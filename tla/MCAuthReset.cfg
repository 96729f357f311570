SPECIFICATION Spec
CONSTANTS
    Users = {u1}
    Passwords = {p1, p2}
    SessionIds = {s1, s2}
    TokenIds = {t1}
    Requests = {r1, r2}
    MaxResets = 1
    NoUser = NoUser
    NoSession = NoSession
SYMMETRY Symmetry
PROPERTY ResetInvalidatesSessions
