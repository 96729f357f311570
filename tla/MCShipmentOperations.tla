------------------------ MODULE MCShipmentOperations ------------------------
(* A small instance of ShipmentOperations.  The delivery requests: one that   *)
(* every tier accepts; one accepted for its override and for its lack of a    *)
(* tier, with a photo only; one that only a development id lets pass; one     *)
(* without location.  Of two drivers one may deliver what the other picked    *)
(* up.  The state tables have constant promises, which are evaluated here.    *)
EXTENDS ShipmentOperations, TLC

Tables == INSTANCE StateTables

ASSUME TablesAssumption == Tables!TablesLeadHome /\ Tables!MilestonesCannotBeSkipped

CONSTANTS full, photo, unmarked, nowhere

MCRefs == {full, photo, unmarked, nowhere}

MCDeliveryRequests ==
    {[tier |-> "high", proof |->
          [ref |-> full, gps |-> "inside", override |-> FALSE, items |-> DeliveryItems]],
     [tier |-> "omitted", proof |->
          [ref |-> photo, gps |-> "outside", override |-> TRUE, items |-> {"photo"}]],
     [tier |-> "low", proof |->
          [ref |-> unmarked, gps |-> "unmarked", override |-> FALSE, items |-> {"scan"}]],
     [tier |-> "low", proof |->
          [ref |-> nowhere, gps |-> "absent", override |-> TRUE, items |-> {"otp"}]]}

MCPickupRequests == {{}, {"scan"}}

Symmetry == Permutations(Drivers) \cup Permutations(Jobs)

=============================================================================
