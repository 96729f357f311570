SPECIFICATION AdmissionSpec
CONSTANTS
    s1 = s1
    s2 = s2
    client = client
    actor = actor
    TheUser = TheUser
    NoActor = NoActor
    NoSession = NoSession
    SessionIds <- MCSessionIds
    Arrivals <- MCArrivals
    Keys <- MCKeys
    Limit <- MCLimit
    Window <- MCWindow
    Second = 2
    Lifetime = 2
INVARIANTS
    AdmissionTypeOK
    SlidingBound
    BucketAccounts
    RetryAfterHonest
    AccessBounded
PROPERTIES
    FullWindowEnds
