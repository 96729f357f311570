--------------------------- MODULE CustodyTransfer ---------------------------
(***************************************************************************)
(* What the shipment operations promise about custody, with no statuses,   *)
(* no proofs and no transactions on their way:                             *)
(*                                                                         *)
(*   - a shipment passes only to a party to which a handover was granted;  *)
(*   - the customer has a shipment only with a proof of it on file;        *)
(*   - a proof on file stays on file.                                      *)
(*                                                                         *)
(* ShipmentOperations implements this module.                              *)
(***************************************************************************)
CONSTANTS Shipments, Parties, Nobody, Warehouse, Customer

VARIABLES
    custodian,  \* custodian[s]: who has the shipment, Nobody before it exists
    granted,    \* granted[s]: the parties to which a handover was granted
    proven      \* shipments with a proof of delivery on file

custodyVars == <<custodian, granted, proven>>

CustodyInit ==
    /\ custodian = [s \in Shipments |-> Nobody]
    /\ granted = [s \in Shipments |-> {}]
    /\ proven = {}

TakeIn(s) ==
    /\ custodian[s] = Nobody
    /\ custodian' = [custodian EXCEPT ![s] = Warehouse]
    /\ UNCHANGED <<granted, proven>>

Grant(s, party) ==
    /\ granted' = [granted EXCEPT ![s] = @ \cup {party}]
    /\ UNCHANGED <<custodian, proven>>

HandOver(s, party) ==
    /\ custodian[s] # Nobody
    /\ party \in granted[s]
    /\ custodian' = [custodian EXCEPT ![s] = party]
    /\ proven' = IF party = Customer THEN proven \cup {s} ELSE proven
    /\ UNCHANGED granted

CustodyNext ==
    \E s \in Shipments :
        \/ TakeIn(s)
        \/ \E party \in Parties : Grant(s, party) \/ HandOver(s, party)

CustodySpec == CustodyInit /\ [][CustodyNext]_custodyVars

=============================================================================
