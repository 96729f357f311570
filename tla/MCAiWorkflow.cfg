SPECIFICATION Spec
CONSTANTS
    Chains = {c1, c2, c3}
    Endpoints <- MCEndpoints
    Approvals = {0, 1}
INVARIANTS
    TypeOK
    RecordedInFull
    RowsReferToRows
    RequestsApproved
PROPERTY RecordingEnds
