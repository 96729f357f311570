SPECIFICATION FulfilmentSpec
CONSTANTS
    s1 = s1
    p1 = p1
    Shipments <- MCShipments
    Packages = {p1}
    Contents <- MCContents
    MaxUpdates = 1
    Drivers = {d1}
    Jobs = {j1}
    Refs = {}
    DeliveryRequests = {}
    PickupRequests = {}
    MaxInFlight = 1
    MaxAccepted = 1
    NoDriver = NoDriver
    NoShipment = NoShipment
    NoRef = NoRef
PROPERTY AssignedWhenReady
