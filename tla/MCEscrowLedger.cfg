SPECIFICATION Spec
CONSTANTS
    account = account
    shipment = shipment
    devShipment = devShipment
    Accounts = {account}
    References = {shipment, devShipment}
    DevIds = {devShipment}
    Amounts = {0, 1}
    Releases <- MCReleases
    Disputes = {d1}
    Decisions = {"under_review", "text"}
    DisputeStatus = {"opened", "under_review"}
    MaxEntries = 3
    MaxInFlight = 2
INVARIANTS
    TypeOK
    AuditNamesEntry
    ReversalsMatch
    DecisionBacked
PROPERTY ImplementsBook
