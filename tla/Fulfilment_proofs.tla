------------------------- MODULE Fulfilment_proofs -------------------------
(***************************************************************************)
(* Proofs about Fulfilment: beside each other, in one process and on one   *)
(* database, the warehouse and the shipment operations keep what each of   *)
(* them promises alone.  What neither promises, that a package is ready    *)
(* before a driver is given its shipment, the run of Fulfilment refutes.   *)
(***************************************************************************)
EXTENDS Fulfilment, ShipmentOperations_proofs

\* The proofs about the warehouse, for the warehouse of Fulfilment.
Shelf ==
    INSTANCE WarehouseFlow_proofs WITH
        MaxInFlight <- MaxUpdates,
        row <- packageRow,
        pending <- updates,
        trail <- steps

\* They are one warehouse.
LEMMA SameWarehouse ==
    /\ Warehouse!Init <=> Shelf!Init
    /\ Warehouse!Next <=> Shelf!Next
BY DEF Warehouse!Init, Shelf!Init, Warehouse!Next, Shelf!Next, Warehouse!StartPick,
        Shelf!StartPick, Warehouse!ScanItem, Shelf!ScanItem, Warehouse!Pack, Shelf!Pack,
        Warehouse!GenerateLabel, Shelf!GenerateLabel, Warehouse!Stage, Shelf!Stage,
        Warehouse!MarkReady, Shelf!MarkReady, Warehouse!CreatePackage, Shelf!CreatePackage,
        Warehouse!ApplyUpdate, Shelf!ApplyUpdate, Warehouse!DropUpdate, Shelf!DropUpdate,
        Warehouse!Restart, Shelf!Restart, Warehouse!Operate, Shelf!Operate, Warehouse!Persist,
        Shelf!Persist, Warehouse!Settle, Shelf!Settle, Warehouse!Writes, Shelf!Writes,
        Warehouse!Written, Shelf!Written, Warehouse!Steps, Shelf!Steps, Warehouse!Status,
        Shelf!Status, Warehouse!Fresh, Shelf!Fresh, Warehouse!NoRow, Shelf!NoRow,
        Warehouse!SeedRow, Shelf!SeedRow, Warehouse!vars, Shelf!vars

LEMMA FulfilmentSteps ==
    [FulfilmentNext]_<<vars, warehouseVars>> => [Next]_vars /\ [Shelf!Next]_(Shelf!vars)
<1> SUFFICES ASSUME [FulfilmentNext]_<<vars, warehouseVars>>
             PROVE  [Next]_vars /\ [Shelf!Next]_(Shelf!vars)
    OBVIOUS
<1>1. CASE Next /\ UNCHANGED warehouseVars
    BY <1>1 DEF warehouseVars, Shelf!vars
<1>2. CASE Warehouse!Next /\ UNCHANGED vars
    BY <1>2, SameWarehouse
<1>3. CASE UNCHANGED <<vars, warehouseVars>>
    BY <1>3 DEF warehouseVars, Shelf!vars
<1>4. QED
    BY <1>1, <1>2, <1>3 DEF FulfilmentNext

\* A run of both is a run of each: what the one does is no step of the other.
LEMMA FulfilmentRuns == FulfilmentSpec => Spec /\ Shelf!Spec
<1>1. FulfilmentInit => Init /\ Shelf!Init
    BY SameWarehouse DEF FulfilmentInit
<1>2. QED
    BY <1>1, FulfilmentSteps, PTL DEF FulfilmentSpec, Spec, Shelf!Spec

\* Put together, the components still implement both abstract specifications: a
\* shipment passes only to those it was handed over to, and a package is shown as
\* ready only when it was cleared.
THEOREM FulfilmentKeepsPromises ==
    ASSUME MaxUpdates \in Nat
    PROVE  FulfilmentSpec => ImplementsCustody /\ Shelf!ImplementsChecklist
<1>1. Spec => ImplementsCustody
    BY Implementation
<1>2. Shelf!Spec => Shelf!ImplementsChecklist
    BY Shelf!Implementation
<1>3. QED
    BY <1>1, <1>2, FulfilmentRuns, PTL

\* And the rows and records of both are accounted for at the same time: who has a
\* shipment by the handovers on file, and a row that says readyForDispatch by the
\* operations that came before it.
THEOREM FulfilmentAccounted ==
    ASSUME MaxUpdates \in Nat
    PROVE  FulfilmentSpec => [](CustodyAccounted /\ ProofTraceable /\ Shelf!ReadyRowEarned)
<1>1. Spec => []CustodyAccounted
    BY CustodyAccountedHolds
<1>2. Spec => []ProofTraceable
    BY ProofTraceableHolds
<1>3. Shelf!Spec => []Shelf!ReadyRowEarned
    BY Shelf!ReadyRowEarnedHolds
<1>4. QED
    BY <1>1, <1>2, <1>3, FulfilmentRuns, PTL

=============================================================================
