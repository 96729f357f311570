SPECIFICATION Spec
CONSTANTS
    full = full
    photo = photo
    unmarked = unmarked
    nowhere = nowhere
    Shipments = {s1}
    Drivers = {d1, d2}
    Jobs = {j1, j2}
    Refs <- MCRefs
    DeliveryRequests <- MCDeliveryRequests
    PickupRequests <- MCPickupRequests
    MaxInFlight = 2
    MaxAccepted = 3
    NoDriver = NoDriver
    NoShipment = NoShipment
    NoRef = NoRef
SYMMETRY Symmetry
INVARIANTS
    TypeOK
    CustodyAccounted
    ProofTraceable
PROPERTIES
    
    ChangesTraced
    ImplementsCustody
