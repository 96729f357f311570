SPECIFICATION Spec
CONSTANTS
    Packages = {p}
    MaxInFlight = 1
INVARIANTS
    TypeOK
    StatusBacked
    ReadyRowEarned
PROPERTY
    ImplementsChecklist
