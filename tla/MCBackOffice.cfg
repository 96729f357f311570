SPECIFICATION Spec
CONSTANTS
    Requests = {r1, r2}
    Orders = {o1}
    Returns = {t1}
    Approvals = {a1}
    Challenges = {c1}
    Approvers = {u1, guest}
    Users = {u1}
    ReturnTexts = {"return_rejected", "text"}
    Drivers = {d1}
    MaxItems = 1
    MaxCalls = 4
INVARIANTS
    TypeOK
    StatusIsLastDecision
    AnsweredIsStored
    TwoFactorFanOut
PROPERTY NothingTakenBack
