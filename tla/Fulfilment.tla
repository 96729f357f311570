----------------------------- MODULE Fulfilment -----------------------------
(***************************************************************************)
(* From the shelf to the door: the warehouse and the operations on         *)
(* shipments, in one process and on one database.  A package belongs to a  *)
(* shipment (column shipment_id of packages); neither component reads what *)
(* the other keeps.                                                        *)
(***************************************************************************)
EXTENDS ShipmentOperations

CONSTANTS
    Packages,       \* package ids that clients send
    Contents,       \* Contents[s]: the set of packages of the shipment
    MaxUpdates      \* bound: equal UPDATEs of a package under way at the same time

VARIABLES
    devPackages, flow, packageRow, updates, steps, seeded   \* of WarehouseFlow

Warehouse ==
    INSTANCE WarehouseFlow WITH
        MaxInFlight <- MaxUpdates,
        row <- packageRow,
        pending <- updates,
        trail <- steps

warehouseVars == <<devPackages, flow, packageRow, updates, steps, seeded>>

FulfilmentInit == Init /\ Warehouse!Init

\* No request is for both, and neither waits for the other.
FulfilmentNext ==
    \/ Next /\ UNCHANGED warehouseVars
    \/ Warehouse!Next /\ UNCHANGED vars

FulfilmentSpec == FulfilmentInit /\ [][FulfilmentNext]_<<vars, warehouseVars>>

-----------------------------------------------------------------------------
(* Properties.                                                             *)

\* "No driver assignment before package readiness" (docs/STATE_MACHINES.md:49),
\* in the weakest reading: when a driver is given a shipment, each of its packages
\* that are on file has been marked ready at some time before, or was ready in the seed.
AssignedWhenReady ==
    [][\A s \in Shipments :
          row[s].status # "assigned" /\ row'[s].status = "assigned"
              => \A p \in Contents[s] \ seeded :
                     packageRow[p].status # "none" => "readyForDispatch" \in steps[p]]_<<vars, warehouseVars>>

=============================================================================
