------------------------- MODULE ShipmentOperations -------------------------
(***************************************************************************)
(* The life of a shipment: ShipmentsController and the transport part of   *)
(* OperationsService (modules/shipments), the driver, dispatch and         *)
(* disponent controllers, and the policies they ask (LogisticsPolicy-      *)
(* Service).                                                               *)
(*                                                                         *)
(* Assignment, pickup and delivery are checked against what the request    *)
(* carries, never against the stored shipment.  What they write is one     *)
(* transaction each, sent without waiting for it and with its failure      *)
(* dropped: transactions commit in any order, or never.                    *)
(***************************************************************************)
EXTENDS Naturals, FiniteSets

CONSTANTS
    Shipments,          \* rows of shipments that can come to exist
    Drivers,            \* drivers, and the users with the role of one
    Jobs,               \* rows of dispatch_assignments that can come to exist
    Refs,               \* what tells one delivery submission from another
    DeliveryRequests,   \* bodies of delivery requests that clients send
    PickupRequests,     \* bodies of pickup requests: the kinds of proof in them
    MaxInFlight,        \* bound: transactions under way at the same time
    MaxAccepted,        \* bound: different operations accepted
    NoDriver, NoShipment, NoRef

Tiers == {"low", "medium", "high", "disputed"}
PickupItems == {"scan", "otp", "photo"}
DeliveryItems == {"scan", "otp", "photo", "signature", "idCheck"}

\* gps: absent, inside or outside the tolerance, or without that mark; override
\* stands for disponentOverrideApprovalId.
DeliveryProof ==
    [ref: Refs, gps: {"absent", "inside", "outside", "unmarked"}, override: BOOLEAN,
     items: SUBSET DeliveryItems]

ASSUME NoDriverAssumption == NoDriver \notin Drivers
ASSUME NamesAssumption == Drivers \cap {"none", "warehouse", "customer"} = {}
ASSUME NoShipmentAssumption == NoShipment \notin Shipments
ASSUME NoRefAssumption == NoRef \notin Refs
ASSUME BoundAssumption == MaxInFlight \in Nat /\ MaxAccepted \in Nat
ASSUME DeliveryRequestsAssumption ==
    DeliveryRequests \subseteq [tier: Tiers \cup {"omitted"}, proof: DeliveryProof]
ASSUME PickupRequestsAssumption == PickupRequests \subseteq SUBSET PickupItems

VARIABLES
    devShipments,   \* the ids that isSafeDevId recognises; it never changes
    row,            \* shipments
    job,            \* dispatch_assignments
    attempts,       \* pickup_attempts and delivery_attempts, each with its tracking event
    proof,          \* proof_of_delivery, one row at most for a shipment
    pending,        \* transactions sent and not yet settled
    trail           \* entries given to audit.create, of every run of the process

vars == <<devShipments, row, job, attempts, proof, pending, trail>>

Pickup == [kind: {"pickup"}, shipment: Shipments, driver: Drivers, items: SUBSET PickupItems]
Delivery == [kind: {"delivery"}, shipment: Shipments, driver: Drivers, proof: DeliveryProof]
Assignment == [kind: {"assignment"}, shipment: Shipments, driver: Drivers]
Operation == Assignment \cup Pickup \cup Delivery

NoRow == [status |-> "none", custody |-> "none", holder |-> NoDriver, responsibility |-> "none"]
NoJob == [shipment |-> NoShipment, driver |-> NoDriver, status |-> "none"]
NoProof ==
    [driver |-> NoDriver, gps |-> NoRef, photo |-> NoRef, signature |-> NoRef, scan |-> NoRef]

ShipmentRow ==
    [status: {"awaitingDispatch", "assigned", "pickedUp", "delivered"},
     custody: {"warehouse", "driver", "customer"}, holder: Drivers \cup {NoDriver},
     responsibility: {"warehouse_staff", "driver", "customer"}]

JobRow ==
    [shipment: Shipments, driver: Drivers \cup {NoDriver},
     status: {"assigned", "accepted", "rejected"}]

ProofRow ==
    [driver: Drivers, gps: Refs, photo: Refs \cup {NoRef}, signature: Refs \cup {NoRef},
     scan: Refs \cup {NoRef}]

TypeOK ==
    /\ devShipments \subseteq Shipments
    /\ row \in [Shipments -> ShipmentRow \cup {NoRow}]
    /\ job \in [Jobs -> JobRow \cup {NoJob}]
    /\ attempts \subseteq Pickup \cup Delivery
    /\ proof \in [Shipments -> ProofRow \cup {NoProof}]
    /\ pending \subseteq Operation
    /\ trail \subseteq Operation

Init ==
    /\ devShipments \in SUBSET Shipments
    /\ row = [s \in Shipments |-> NoRow]
    /\ job = [j \in Jobs |-> NoJob]
    /\ attempts = {}
    /\ proof = [s \in Shipments |-> NoProof]
    /\ pending = {}
    /\ trail = {}

-----------------------------------------------------------------------------
(* The policies.                                                           *)

PickupProofAccepted(items) == items # {}

Located(p) == p.gps = "inside" \/ p.override

\* Mutant: the override is enough, the location may be missing.
DeliveryProofAnyGps(tier, p) == Located(p)

\* A request without tier, and the tier disputed, meet none of the conditions.
DeliveryProofAccepted(tier, p) ==
    /\ p.gps # "absent"
    /\ Located(p)
    /\ tier = "low" => p.items \cap {"otp", "signature"} # {}
    /\ tier = "medium" => {"otp", "photo"} \subseteq p.items
    /\ tier = "high" => {"otp", "photo", "signature", "idCheck"} \subseteq p.items

-----------------------------------------------------------------------------
(* The operations.  An accepted one sends its transaction, hands its entry *)
(* to the audit log and answers.                                           *)

Send(operation) ==
    /\ operation \notin pending
    /\ Cardinality(pending) < MaxInFlight
    /\ Cardinality(trail \cup {operation}) <= MaxAccepted
    /\ pending' = pending \cup {operation}
    /\ trail' = trail \cup {operation}
    /\ UNCHANGED <<devShipments, row, job, attempts, proof>>

\* POST /shipments waits for its row.
CreateShipment(s) ==
    /\ row[s] = NoRow
    /\ row' = [row EXCEPT ![s] =
                  [status |-> "awaitingDispatch", custody |-> "warehouse", holder |-> NoDriver,
                   responsibility |-> "warehouse_staff"]]
    /\ UNCHANGED <<devShipments, job, attempts, proof, pending, trail>>

\* assign-driver of dispatch and disponent, and reassign-driver: the status of the
\* package is the one in the body, readyForDispatch when there is none.
AssignDriver(s, d, claimed) ==
    /\ claimed \in {"readyForDispatch", "omitted"}
    /\ Send([kind |-> "assignment", shipment |-> s, driver |-> d])

CompletePickup(s, d, items) ==
    /\ PickupProofAccepted(items)
    /\ Send([kind |-> "pickup", shipment |-> s, driver |-> d, items |-> items])

\* POST /driver(s)/delivery/:shipmentId/complete: the tier as it comes.
CompleteDelivery(s, d, request) ==
    /\ DeliveryProofAccepted(request.tier, request.proof)
    /\ Send([kind |-> "delivery", shipment |-> s, driver |-> d, proof |-> request.proof])

\* normalizedProof of ShipmentsController: development ids need no mark and no code.
Normalized(s, p) ==
    IF s \in devShipments
    THEN [p EXCEPT !.gps = IF @ = "unmarked" THEN "inside" ELSE @,
                   !.items = IF @ \cap {"otp", "signature"} = {} THEN @ \cup {"otp"} ELSE @]
    ELSE p

\* POST /shipments/:id/deliver: the lowest tier when there is none.
Deliver(s, d, request) ==
    LET tier == IF request.tier = "omitted" THEN "low" ELSE request.tier
        p == Normalized(s, request.proof)
    IN  /\ DeliveryProofAccepted(tier, p)
        /\ Send([kind |-> "delivery", shipment |-> s, driver |-> d, proof |-> p])

-----------------------------------------------------------------------------
(* dispatch_assignments, written by requests that wait.                    *)

NewJob(j, s, d) ==
    /\ job[j] = NoJob
    /\ row[s] # NoRow
    /\ job' = [job EXCEPT ![j] = [shipment |-> s, driver |-> d, status |-> "assigned"]]

\* Mutant: the assignment also moves the shipment.
CreateAssignmentAndMove(j, s, d) ==
    /\ NewJob(j, s, d)
    /\ row' = [row EXCEPT ![s].status = "assigned", ![s].custody = "driver", ![s].holder = d]
    /\ UNCHANGED <<devShipments, attempts, proof, pending, trail>>

\* POST /dispatch/assignments: the row alone, with or without a driver.
CreateAssignment(j, s, d) ==
    /\ NewJob(j, s, d)
    /\ UNCHANGED <<devShipments, row, attempts, proof, pending, trail>>

\* accept and reject: whatever the status, whoever asks.
AnswerJob(j, answer) ==
    /\ job[j] # NoJob
    /\ job' = [job EXCEPT ![j].status = answer]
    /\ UNCHANGED <<devShipments, row, attempts, proof, pending, trail>>

-----------------------------------------------------------------------------
(* The database.  The update of a missing shipment fails the transaction.  *)

Commit(operation) ==
    /\ operation \in pending
    /\ row[operation.shipment] # NoRow
    /\ pending' = pending \ {operation}
    /\ UNCHANGED <<devShipments, trail>>

\* Mutant: the assignment is written without its driver.
CommitAssignmentUnnamed(operation, j) ==
    LET s == operation.shipment
    IN  /\ Commit(operation)
        /\ NewJob(j, s, NoDriver)
        /\ row' = [row EXCEPT ![s] = [status |-> "assigned", custody |-> "driver",
                                      holder |-> operation.driver, responsibility |-> "driver"]]
        /\ UNCHANGED <<attempts, proof>>

CommitAssignment(operation, j) ==
    LET s == operation.shipment
    IN  /\ Commit(operation)
        /\ NewJob(j, s, operation.driver)
        /\ row' = [row EXCEPT ![s] = [status |-> "assigned", custody |-> "driver",
                                      holder |-> operation.driver, responsibility |-> "driver"]]
        /\ UNCHANGED <<attempts, proof>>

\* The responsibility stays as it was.
CommitPickup(operation) ==
    /\ Commit(operation)
    /\ attempts' = attempts \cup {operation}
    /\ row' = [row EXCEPT ![operation.shipment].status = "pickedUp",
                          ![operation.shipment].custody = "driver",
                          ![operation.shipment].holder = operation.driver]
    /\ UNCHANGED <<job, proof>>

\* A column of the upsert that has a value only when the submission has the item.
Column(item, p, stored) == IF item \in p.items THEN p.ref ELSE stored

\* Mutant: the location is left out.
UpsertWithoutLocation(stored, d, p) ==
    [driver |-> d, gps |-> stored.gps, photo |-> Column("photo", p, stored.photo),
     signature |-> Column("signature", p, stored.signature),
     scan |-> Column("scan", p, stored.scan)]

\* Mutant: an update empties the columns for which the submission has no value.
UpsertReplacing(stored, d, p) ==
    [driver |-> IF stored = NoProof THEN d ELSE stored.driver,
     gps |-> p.ref, photo |-> Column("photo", p, NoRef),
     signature |-> Column("signature", p, NoRef), scan |-> Column("scan", p, NoRef)]

\* The upsert: an update keeps the driver of the row and every column for which
\* the submission has no value.  The code and the ID check are not stored.
Upsert(stored, d, p) ==
    [driver |-> IF stored = NoProof THEN d ELSE stored.driver,
     gps |-> p.ref,
     photo |-> Column("photo", p, stored.photo),
     signature |-> Column("signature", p, stored.signature),
     scan |-> Column("scan", p, stored.scan)]

\* Mutant: the upsert is left out of the transaction.
CommitDeliveryWithoutProof(operation) ==
    LET s == operation.shipment
    IN  /\ Commit(operation)
        /\ attempts' = attempts \cup {operation}
        /\ row' = [row EXCEPT ![s].status = "delivered", ![s].custody = "customer",
                              ![s].responsibility = "customer"]
        /\ UNCHANGED <<job, proof>>

\* The holder stays as it was.
CommitDelivery(operation) ==
    LET s == operation.shipment
    IN  /\ Commit(operation)
        /\ attempts' = attempts \cup {operation}
        /\ proof' = [proof EXCEPT ![s] = Upsert(@, operation.driver, operation.proof)]
        /\ row' = [row EXCEPT ![s].status = "delivered", ![s].custody = "customer",
                              ![s].responsibility = "customer"]
        /\ UNCHANGED job

\* A failed transaction leaves nothing behind: the catch drops the error.
DropTransaction(operation) ==
    /\ operation \in pending
    /\ pending' = pending \ {operation}
    /\ UNCHANGED <<devShipments, row, job, attempts, proof, trail>>

-----------------------------------------------------------------------------
ClaimedStatus == {"readyForDispatch", "omitted", "notReady"}

Next ==
    \/ \E s \in Shipments :
         \/ CreateShipment(s)
         \/ \E d \in Drivers :
              \/ \E claimed \in ClaimedStatus : AssignDriver(s, d, claimed)
              \/ \E items \in PickupRequests : CompletePickup(s, d, items)
              \/ \E request \in DeliveryRequests :
                   CompleteDelivery(s, d, request) \/ Deliver(s, d, request)
    \/ \E j \in Jobs :
         \/ \E s \in Shipments, d \in Drivers \cup {NoDriver} : CreateAssignment(j, s, d)
         \/ \E answer \in {"accepted", "rejected"} : AnswerJob(j, answer)
    \/ \E operation \in pending :
         \/ /\ operation.kind = "assignment"
            /\ \E j \in Jobs : CommitAssignment(operation, j)
         \/ operation.kind = "pickup" /\ CommitPickup(operation)
         \/ operation.kind = "delivery" /\ CommitDelivery(operation)
         \/ DropTransaction(operation)

Spec == Init /\ [][Next]_vars

-----------------------------------------------------------------------------
(* Properties.                                                             *)

\* Whatever order the transactions commit in, the state of a shipment is
\* accounted for by rows that stay: the holder of an assigned shipment has an
\* assignment for it, the holder of one picked up a pickup with a proof, and a
\* delivered one a delivery whose location is the one on file.
CustodyAccounted ==
    \A s \in Shipments :
        /\ row[s].status = "assigned" =>
               \E j \in Jobs : job[j].shipment = s /\ job[j].driver = row[s].holder
        /\ row[s].status = "pickedUp" =>
               \E a \in attempts : /\ a.kind = "pickup"
                                   /\ a.shipment = s
                                   /\ a.driver = row[s].holder
                                   /\ a.items # {}
        /\ row[s].status = "delivered" =>
               \E a \in attempts : /\ a.kind = "delivery"
                                   /\ a.shipment = s
                                   /\ a.proof.ref = proof[s].gps

\* A proof of delivery may mix several attempts, since an update keeps columns;
\* but each column was submitted for this shipment, in an attempt that had a
\* location within tolerance or an override.
ProofTraceable ==
    \A s \in Shipments :
        LET accepted == {a \in attempts : /\ a.kind = "delivery"
                                          /\ a.shipment = s
                                          /\ a.proof.gps # "absent"
                                          /\ Located(a.proof)}
        IN  proof[s] # NoProof =>
              /\ \E a \in accepted : a.driver = proof[s].driver
              /\ \E a \in accepted : a.proof.ref = proof[s].gps
              /\ proof[s].photo # NoRef =>
                     \E a \in accepted : a.proof.ref = proof[s].photo /\ "photo" \in a.proof.items
              /\ proof[s].signature # NoRef =>
                     \E a \in accepted :
                         a.proof.ref = proof[s].signature /\ "signature" \in a.proof.items
              /\ proof[s].scan # NoRef =>
                     \E a \in accepted : a.proof.ref = proof[s].scan /\ "scan" \in a.proof.items

\* Attempts and audit entries are only added; a proof keeps its driver, and no
\* column of it is emptied.
RecordsGrow ==
    /\ attempts \subseteq attempts' /\ trail \subseteq trail'
    /\ \A s \in Shipments : proof[s] # NoProof =>
           /\ proof'[s] # NoProof
           /\ proof'[s].driver = proof[s].driver
           /\ proof[s].photo # NoRef => proof'[s].photo # NoRef
           /\ proof[s].signature # NoRef => proof'[s].signature # NoRef
           /\ proof[s].scan # NoRef => proof'[s].scan # NoRef

\* What the code keeps of "treated as immutable" (README.md:93): submissions of
\* any content that commit in any order take nothing off the records.
RecordsKept == [][RecordsGrow]_vars

\* A proof changes with a delivery that commits and takes its location; a delivered
\* shipment is taken back only by an assignment or a pickup that commits.
ChangesAccounted ==
    \A s \in Shipments :
        /\ proof'[s] # proof[s] =>
               \E o \in pending \ pending' : /\ o.kind = "delivery" /\ o.shipment = s
                                             /\ o \in attempts'
                                             /\ proof'[s].gps = o.proof.ref
        /\ row[s].status = "delivered" /\ row'[s].status # "delivered" =>
               /\ \E o \in pending \ pending' : o.kind # "delivery" /\ o.shipment = s
               /\ proof'[s] = proof[s]

\* What the code keeps of "delivered" as the last status (docs/STATE_MACHINES.md:13):
\* only a late transaction of an accepted request takes a delivery back, one that
\* was refused or dropped never does, and the proof on file stays as it was.
ChangesTraced == [][ChangesAccounted]_vars

\* The operations keep the promises of CustodyTransfer, though the checks are
\* made when a request comes and custody moves when its transaction commits.
Custodian(s) == IF row[s].custody = "driver" THEN row[s].holder ELSE row[s].custody
Recipient(operation) == IF operation.kind = "delivery" THEN "customer" ELSE operation.driver

Transfer ==
    INSTANCE CustodyTransfer WITH
        Parties <- Drivers \cup {"customer"},
        Nobody <- "none",
        Warehouse <- "warehouse",
        Customer <- "customer",
        custodian <- [s \in Shipments |-> Custodian(s)],
        granted <- [s \in Shipments |-> {Recipient(o) : o \in {o \in trail : o.shipment = s}}],
        proven <- {s \in Shipments : proof[s] # NoProof}

ImplementsCustody == Transfer!CustodySpec

\* "Audit logs, tracking events, proof records, and ledger entries are treated
\* as immutable" (README.md:93): a proof on file is not written again.
ProofImmutable ==
    [][\A s \in Shipments : proof[s] # NoProof => proof'[s] = proof[s]]_vars

\* "... -> out_for_delivery -> delivered" (docs/STATE_MACHINES.md:13) and the
\* table of the code, where delivered has no successor.
DeliveredIsFinal ==
    [][\A s \in Shipments : row[s].status = "delivered" => row'[s].status = "delivered"]_vars

=============================================================================
