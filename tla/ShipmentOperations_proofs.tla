---------------------- MODULE ShipmentOperations_proofs ----------------------
(***************************************************************************)
(* Proofs about ShipmentOperations, for every set of shipments, drivers    *)
(* and requests and every bound.                                           *)
(***************************************************************************)
EXTENDS ShipmentOperations, TLAPS

\* What is on its way was accepted and handed to the audit log.
PendingAccepted ==
    /\ pending \subseteq trail
    /\ \A o \in pending :
         /\ o.kind = "pickup" => o.items # {}
         /\ o.kind = "delivery" => o.proof.gps # "absent" /\ Located(o.proof)

\* Custody is with a named driver, or not with a driver; a delivered shipment
\* has its proof.
RowShape ==
    \A s \in Shipments :
        /\ row[s].custody = "driver" => row[s].holder \in Drivers
        /\ row[s].status = "delivered" => proof[s] # NoProof

IInv == TypeOK /\ PendingAccepted /\ RowShape /\ CustodyAccounted /\ ProofTraceable

-----------------------------------------------------------------------------
LEMMA OperationKind ==
    ASSUME NEW o \in Operation
    PROVE  /\ o.shipment \in Shipments
           /\ o.driver \in Drivers
           /\ o.kind = "assignment" => o \in Assignment
           /\ o.kind = "pickup" => o \in Pickup /\ o.items \in SUBSET PickupItems
           /\ o.kind = "delivery" => o \in Delivery /\ o.proof \in DeliveryProof
           /\ o.kind \in {"assignment", "pickup", "delivery"}
BY DEF Operation, Assignment, Pickup, Delivery

LEMMA NormalizedType ==
    ASSUME NEW s \in Shipments, NEW p \in DeliveryProof
    PROVE  /\ Normalized(s, p) \in DeliveryProof
           /\ Normalized(s, p).ref = p.ref
BY DEF Normalized, DeliveryProof, DeliveryItems

LEMMA InitIInv == Init => IInv
<1> SUFFICES ASSUME Init PROVE IInv
    OBVIOUS
<1>1. TypeOK
    BY DEF Init, TypeOK
<1>2. PendingAccepted /\ RowShape
    BY DEF Init, PendingAccepted, RowShape, NoRow
<1>3. CustodyAccounted /\ ProofTraceable
    BY DEF Init, CustodyAccounted, ProofTraceable, NoRow
<1>4. QED
    BY <1>1, <1>2, <1>3 DEF IInv

\* An accepted operation only waits.
LEMMA SendIInv ==
    ASSUME IInv, NEW o \in Operation, Send(o),
           o.kind = "pickup" => o.items # {},
           o.kind = "delivery" => o.proof.gps # "absent" /\ Located(o.proof)
    PROVE  IInv'
<1>1. TypeOK'
    BY DEF IInv, TypeOK, Send
<1>2. PendingAccepted'
    BY DEF IInv, PendingAccepted, Send, Located
<1>3. RowShape'
    BY DEF IInv, RowShape, Send
<1>4. CustodyAccounted'
    BY DEF IInv, CustodyAccounted, Send
<1>5. ProofTraceable'
    BY DEF IInv, ProofTraceable, Send, Located
<1>6. QED
    BY <1>1, <1>2, <1>3, <1>4, <1>5 DEF IInv

LEMMA RequestIInv ==
    ASSUME IInv, NEW s \in Shipments, NEW d \in Drivers,
           \/ \E claimed \in ClaimedStatus : AssignDriver(s, d, claimed)
           \/ \E items \in PickupRequests : CompletePickup(s, d, items)
           \/ \E request \in DeliveryRequests :
                CompleteDelivery(s, d, request) \/ Deliver(s, d, request)
    PROVE  IInv'
<1>1. CASE \E claimed \in ClaimedStatus : AssignDriver(s, d, claimed)
  <2> DEFINE o == [kind |-> "assignment", shipment |-> s, driver |-> d]
  <2>1. o \in Operation /\ o.kind = "assignment"
      BY DEF Operation, Assignment
  <2>2. Send(o)
      BY <1>1 DEF AssignDriver
  <2> HIDE DEF o
  <2>3. QED
      BY <2>1, <2>2, SendIInv
<1>2. CASE \E items \in PickupRequests : CompletePickup(s, d, items)
  <2>1. PICK items \in PickupRequests : CompletePickup(s, d, items)
      BY <1>2
  <2> DEFINE o == [kind |-> "pickup", shipment |-> s, driver |-> d, items |-> items]
  <2>2. o \in Operation /\ o.kind = "pickup" /\ o.items = items
      BY PickupRequestsAssumption DEF Operation, Pickup
  <2>3. Send(o) /\ items # {}
      BY <2>1 DEF CompletePickup, PickupProofAccepted
  <2> HIDE DEF o
  <2>4. QED
      BY <2>2, <2>3, SendIInv
<1>3. ASSUME NEW request \in DeliveryRequests,
             CompleteDelivery(s, d, request) \/ Deliver(s, d, request)
      PROVE  IInv'
  <2>1. PICK p \in DeliveryProof, tier \in Tiers \cup {"omitted"} :
            /\ DeliveryProofAccepted(tier, p)
            /\ Send([kind |-> "delivery", shipment |-> s, driver |-> d, proof |-> p])
    <3>1. request.proof \in DeliveryProof /\ request.tier \in Tiers \cup {"omitted"}
        BY DeliveryRequestsAssumption
    <3>2. CASE CompleteDelivery(s, d, request)
        BY <3>1, <3>2 DEF CompleteDelivery
    <3>3. CASE Deliver(s, d, request)
      <4> DEFINE t == IF request.tier = "omitted" THEN "low" ELSE request.tier
                 q == Normalized(s, request.proof)
      <4>1. q \in DeliveryProof /\ t \in Tiers \cup {"omitted"}
          BY <3>1, NormalizedType DEF Tiers
      <4>2. /\ DeliveryProofAccepted(t, q)
            /\ Send([kind |-> "delivery", shipment |-> s, driver |-> d, proof |-> q])
          BY <3>3 DEF Deliver
      <4> HIDE DEF t, q
      <4>3. QED
          BY <4>1, <4>2
    <3>4. QED
        BY <1>3, <3>2, <3>3
  <2> DEFINE o == [kind |-> "delivery", shipment |-> s, driver |-> d, proof |-> p]
  <2>2. o \in Operation /\ o.kind = "delivery" /\ o.proof = p
      BY DEF Operation, Delivery
  <2>3. Send(o)
      BY <2>1
  <2>4. p.gps # "absent" /\ Located(p)
      BY <2>1 DEF DeliveryProofAccepted
  <2> HIDE DEF o
  <2>5. QED
      BY <2>2, <2>3, <2>4, SendIInv
<1>4. QED
    BY <1>1, <1>2, <1>3

\* A new row, a new job and an answer to a job take nothing away.
LEMMA CreateShipmentIInv ==
    ASSUME IInv, NEW s \in Shipments, CreateShipment(s)
    PROVE  IInv'
<1>1. TypeOK'
    BY DEF IInv, TypeOK, CreateShipment, ShipmentRow
<1>2. PendingAccepted'
    BY DEF IInv, PendingAccepted, CreateShipment, Located
<1>3. RowShape' /\ CustodyAccounted'
    BY DEF IInv, TypeOK, RowShape, CustodyAccounted, CreateShipment
<1>4. ProofTraceable'
    BY DEF IInv, ProofTraceable, CreateShipment, Located
<1>5. QED
    BY <1>1, <1>2, <1>3, <1>4 DEF IInv

LEMMA JobIInv ==
    ASSUME IInv, NEW j \in Jobs,
           \/ \E s \in Shipments, d \in Drivers \cup {NoDriver} : CreateAssignment(j, s, d)
           \/ \E answer \in {"accepted", "rejected"} : AnswerJob(j, answer)
    PROVE  IInv'
<1>1. /\ job[j] # NoJob => /\ job'[j].shipment = job[j].shipment
                           /\ job'[j].driver = job[j].driver
      /\ \A i \in Jobs \ {j} : job'[i] = job[i]
      /\ job' \in [Jobs -> JobRow \cup {NoJob}]
      /\ UNCHANGED <<devShipments, row, attempts, proof, pending, trail>>
    BY DEF IInv, TypeOK, CreateAssignment, AnswerJob, NewJob, JobRow
<1>2. TypeOK'
    BY <1>1 DEF IInv, TypeOK
<1>3. PendingAccepted' /\ RowShape'
    BY <1>1 DEF IInv, PendingAccepted, RowShape, Located
<1>4. CustodyAccounted'
    BY <1>1, NoShipmentAssumption DEF IInv, CustodyAccounted, NoJob
<1>5. ProofTraceable'
    BY <1>1 DEF IInv, ProofTraceable, Located
<1>6. QED
    BY <1>2, <1>3, <1>4, <1>5 DEF IInv

LEMMA CommitAssignmentIInv ==
    ASSUME IInv, NEW o \in pending, NEW j \in Jobs, CommitAssignment(o, j)
    PROVE  IInv'
<1> DEFINE s == o.shipment
           d == o.driver
<1>1. s \in Shipments /\ d \in Drivers
    BY OperationKind DEF IInv, TypeOK
<1>2. /\ row' = [row EXCEPT ![s] = [status |-> "assigned", custody |-> "driver",
                                    holder |-> d, responsibility |-> "driver"]]
      /\ job[j] = NoJob
      /\ job' = [job EXCEPT ![j] = [shipment |-> s, driver |-> d, status |-> "assigned"]]
      /\ pending' = pending \ {o}
      /\ UNCHANGED <<devShipments, attempts, proof, trail>>
    BY DEF CommitAssignment, Commit, NewJob
<1> HIDE DEF s, d
<1>3. TypeOK'
    BY <1>1, <1>2 DEF IInv, TypeOK, ShipmentRow, JobRow
<1>4. PendingAccepted'
    BY <1>2 DEF IInv, PendingAccepted, Located
<1>5. RowShape'
    BY <1>1, <1>2 DEF IInv, TypeOK, RowShape
<1>6. CustodyAccounted'
  <2>1. job'[j].shipment = s /\ job'[j].driver = d
      BY <1>2 DEF IInv, TypeOK
  <2>2. \A i \in Jobs : job[i].shipment \in Shipments => job'[i] = job[i]
      BY <1>2, NoShipmentAssumption DEF IInv, TypeOK, NoJob
  <2>3. row'[s].status = "assigned" /\ row'[s].holder = d
      BY <1>1, <1>2 DEF IInv, TypeOK
  <2>4. \A r \in Shipments \ {s} : row'[r] = row[r]
      BY <1>2 DEF IInv, TypeOK
  <2>5. QED
      BY <1>2, <2>1, <2>2, <2>3, <2>4 DEF IInv, CustodyAccounted
<1>7. ProofTraceable'
    BY <1>2 DEF IInv, ProofTraceable, Located
<1>8. QED
    BY <1>3, <1>4, <1>5, <1>6, <1>7 DEF IInv

\* A transaction of another shipment takes no row away.
LEMMA OtherShipment ==
    ASSUME IInv, NEW r \in Shipments,
           row'[r] = row[r], proof'[r] = proof[r], job' = job, attempts \subseteq attempts'
    PROVE  CustodyAccounted!(r)'
<1>1. row[r].status = "assigned" =>
          \E j \in Jobs : job'[j].shipment = r /\ job'[j].driver = row[r].holder
    BY DEF IInv, CustodyAccounted
<1>2. row[r].status = "pickedUp" =>
          \E a \in attempts' : /\ a.kind = "pickup"
                               /\ a.shipment = r
                               /\ a.driver = row[r].holder
                               /\ a.items # {}
    BY DEF IInv, CustodyAccounted
<1>3. row[r].status = "delivered" =>
          \E a \in attempts' : /\ a.kind = "delivery"
                               /\ a.shipment = r
                               /\ a.proof.ref = proof'[r].gps
    BY DEF IInv, CustodyAccounted
<1>4. QED
    BY <1>1, <1>2, <1>3

LEMMA CommitPickupIInv ==
    ASSUME IInv, NEW o \in pending, o.kind = "pickup", CommitPickup(o)
    PROVE  IInv'
<1> DEFINE s == o.shipment
           d == o.driver
<1>1. s \in Shipments /\ d \in Drivers /\ o \in Pickup
    BY OperationKind DEF IInv, TypeOK
<1>2. /\ row' = [row EXCEPT ![s].status = "pickedUp", ![s].custody = "driver", ![s].holder = d]
      /\ row[s] # NoRow
      /\ attempts' = attempts \cup {o}
      /\ pending' = pending \ {o}
      /\ UNCHANGED <<devShipments, job, proof, trail>>
    BY DEF CommitPickup, Commit
<1>3. o.shipment = s /\ o.driver = d /\ o.items # {}
    BY DEF IInv, PendingAccepted
<1> HIDE DEF s, d
<1>4. /\ row[s] \in ShipmentRow
      /\ row'[s] = [status |-> "pickedUp", custody |-> "driver", holder |-> d,
                    responsibility |-> row[s].responsibility]
      /\ \A r \in Shipments \ {s} : row'[r] = row[r]
    BY <1>1, <1>2 DEF IInv, TypeOK, ShipmentRow
<1>5. TypeOK'
  <2>1. row'[s] \in ShipmentRow
      BY <1>1, <1>4 DEF ShipmentRow
  <2>2. row' \in [Shipments -> ShipmentRow \cup {NoRow}]
      BY <1>2, <1>4, <2>1 DEF IInv, TypeOK
  <2>3. QED
      BY <1>1, <1>2, <2>2 DEF IInv, TypeOK
<1>6. PendingAccepted'
    BY <1>2 DEF IInv, PendingAccepted, Located
<1>7. RowShape'
  <2>1. proof' = proof /\ row'[s].custody = "driver" /\ row'[s].holder \in Drivers
      BY <1>1, <1>2, <1>4
  <2>2. row'[s].status # "delivered"
      BY <1>4
  <2>3. QED
      BY <1>4, <2>1, <2>2 DEF IInv, RowShape
<1>8. CustodyAccounted'
  <2>1. o \in attempts' /\ attempts \subseteq attempts' /\ job' = job /\ proof' = proof
      BY <1>2
  <2> SUFFICES ASSUME NEW r \in Shipments
               PROVE  CustodyAccounted!(r)'
      BY DEF CustodyAccounted
  <2>2. CASE r = s
      BY <1>3, <1>4, <2>1, <2>2
  <2>3. CASE r # s
      BY <1>4, <2>1, <2>3, OtherShipment
  <2>4. QED
      BY <2>2, <2>3
<1>9. ProofTraceable'
    BY <1>2 DEF IInv, ProofTraceable, Located
<1>10. QED
    BY <1>5, <1>6, <1>7, <1>8, <1>9 DEF IInv

LEMMA CommitDeliveryIInv ==
    ASSUME IInv, NEW o \in pending, o.kind = "delivery", CommitDelivery(o)
    PROVE  IInv'
<1> DEFINE s == o.shipment
           d == o.driver
           p == o.proof
<1>1. s \in Shipments /\ d \in Drivers /\ p \in DeliveryProof /\ o \in Delivery
    BY OperationKind DEF IInv, TypeOK
<1>2. /\ row' = [row EXCEPT ![s].status = "delivered", ![s].custody = "customer",
                            ![s].responsibility = "customer"]
      /\ row[s] # NoRow
      /\ attempts' = attempts \cup {o}
      /\ proof' = [proof EXCEPT ![s] = Upsert(@, d, p)]
      /\ pending' = pending \ {o}
      /\ UNCHANGED <<devShipments, job, trail>>
    BY DEF CommitDelivery, Commit
<1>3. /\ o.shipment = s /\ o.driver = d /\ o.proof = p
      /\ p.gps # "absent" /\ Located(p)
    BY DEF IInv, PendingAccepted
<1> HIDE DEF s, d, p
<1>4. /\ row[s] \in ShipmentRow
      /\ row'[s] = [status |-> "delivered", custody |-> "customer", holder |-> row[s].holder,
                    responsibility |-> "customer"]
      /\ \A r \in Shipments \ {s} : row'[r] = row[r]
    BY <1>1, <1>2 DEF IInv, TypeOK, ShipmentRow
<1>5. /\ proof'[s] = Upsert(proof[s], d, p)
      /\ \A r \in Shipments \ {s} : proof'[r] = proof[r]
    BY <1>1, <1>2 DEF IInv, TypeOK
<1>6. proof'[s] \in ProofRow /\ proof'[s].gps = p.ref /\ p.ref \in Refs
    BY <1>1, <1>5 DEF IInv, TypeOK, Upsert, Column, ProofRow, NoProof, DeliveryProof
<1>7. proof'[s] # NoProof
    BY <1>6, NoRefAssumption DEF NoProof
<1>8. TypeOK'
  <2>1. row'[s] \in ShipmentRow
      BY <1>4 DEF ShipmentRow
  <2>2. row' \in [Shipments -> ShipmentRow \cup {NoRow}]
      BY <1>2, <1>4, <2>1 DEF IInv, TypeOK
  <2>3. proof' \in [Shipments -> ProofRow \cup {NoProof}]
      BY <1>2, <1>5, <1>6 DEF IInv, TypeOK
  <2>4. QED
      BY <1>1, <1>2, <2>2, <2>3 DEF IInv, TypeOK
<1>9. PendingAccepted'
    BY <1>2 DEF IInv, PendingAccepted, Located
<1>10. RowShape'
    BY <1>4, <1>5, <1>7 DEF IInv, RowShape
<1>11. CustodyAccounted'
  <2> SUFFICES ASSUME NEW r \in Shipments
               PROVE  CustodyAccounted!(r)'
      BY DEF CustodyAccounted
  <2>1. o \in attempts' /\ attempts \subseteq attempts' /\ job' = job
      BY <1>2
  <2>2. CASE r = s
      BY <1>3, <1>4, <1>6, <2>1, <2>2
  <2>3. CASE r # s
      BY <1>4, <1>5, <2>1, <2>3, OtherShipment
  <2>4. QED
      BY <2>2, <2>3
<1>12. ProofTraceable'
  <2> SUFFICES ASSUME NEW r \in Shipments, proof'[r] # NoProof
               PROVE  LET accepted == {a \in attempts' : /\ a.kind = "delivery"
                                                         /\ a.shipment = r
                                                         /\ a.proof.gps # "absent"
                                                         /\ Located(a.proof)}
                      IN  /\ \E a \in accepted : a.driver = proof'[r].driver
                          /\ \E a \in accepted : a.proof.ref = proof'[r].gps
                          /\ proof'[r].photo # NoRef =>
                               \E a \in accepted :
                                 a.proof.ref = proof'[r].photo /\ "photo" \in a.proof.items
                          /\ proof'[r].signature # NoRef =>
                               \E a \in accepted :
                                 a.proof.ref = proof'[r].signature /\ "signature" \in a.proof.items
                          /\ proof'[r].scan # NoRef =>
                               \E a \in accepted :
                                 a.proof.ref = proof'[r].scan /\ "scan" \in a.proof.items
      BY DEF ProofTraceable, Located
  <2>1. CASE r # s
      BY <1>2, <1>5, <2>1 DEF IInv, ProofTraceable
  <2>2. CASE r = s
    <3>1. o \in attempts'
        BY <1>2
    <3>2. CASE proof[s] = NoProof
        BY <1>1, <1>3, <1>5, <2>2, <3>1, <3>2 DEF Upsert, Column, NoProof
    <3>3. CASE proof[s] # NoProof
        BY <1>1, <1>2, <1>3, <1>5, <2>2, <3>1, <3>3 DEF IInv, ProofTraceable, Upsert, Column
    <3>4. QED
        BY <3>2, <3>3
  <2>3. QED
      BY <2>1, <2>2
<1>13. QED
    BY <1>8, <1>9, <1>10, <1>11, <1>12 DEF IInv

LEMMA DropIInv ==
    ASSUME IInv, NEW o \in pending, DropTransaction(o)
    PROVE  IInv'
<1>1. pending' = pending \ {o} /\ UNCHANGED <<devShipments, row, job, attempts, proof, trail>>
    BY DEF DropTransaction
<1>2. TypeOK' /\ PendingAccepted' /\ RowShape'
    BY <1>1 DEF IInv, TypeOK, PendingAccepted, RowShape, Located
<1>3. CustodyAccounted'
    BY <1>1 DEF IInv, CustodyAccounted
<1>4. ProofTraceable'
    BY <1>1 DEF IInv, ProofTraceable, Located
<1>5. QED
    BY <1>2, <1>3, <1>4 DEF IInv

-----------------------------------------------------------------------------
(* The theorems.                                                           *)

LEMMA NextIInv == IInv /\ [Next]_vars => IInv'
<1> SUFFICES ASSUME IInv, [Next]_vars PROVE IInv'
    OBVIOUS
<1>1. ASSUME NEW s \in Shipments, CreateShipment(s) PROVE IInv'
    BY <1>1, CreateShipmentIInv
<1>2. ASSUME NEW s \in Shipments, NEW d \in Drivers,
             \/ \E claimed \in ClaimedStatus : AssignDriver(s, d, claimed)
             \/ \E items \in PickupRequests : CompletePickup(s, d, items)
             \/ \E request \in DeliveryRequests :
                  CompleteDelivery(s, d, request) \/ Deliver(s, d, request)
      PROVE  IInv'
    BY <1>2, RequestIInv
<1>3. ASSUME NEW j \in Jobs,
             \/ \E s \in Shipments, d \in Drivers \cup {NoDriver} : CreateAssignment(j, s, d)
             \/ \E answer \in {"accepted", "rejected"} : AnswerJob(j, answer)
      PROVE  IInv'
    BY <1>3, JobIInv
<1>4. ASSUME NEW o \in pending,
             \/ \E j \in Jobs : CommitAssignment(o, j)
             \/ o.kind = "pickup" /\ CommitPickup(o)
             \/ o.kind = "delivery" /\ CommitDelivery(o)
             \/ DropTransaction(o)
      PROVE  IInv'
    BY <1>4, CommitAssignmentIInv, CommitPickupIInv, CommitDeliveryIInv, DropIInv
<1>5. CASE UNCHANGED vars
  <2>1. TypeOK' /\ PendingAccepted' /\ RowShape'
      BY <1>5 DEF IInv, TypeOK, PendingAccepted, RowShape, Located, vars
  <2>2. CustodyAccounted' /\ ProofTraceable'
      BY <1>5 DEF IInv, CustodyAccounted, ProofTraceable, Located, vars
  <2>3. QED
      BY <2>1, <2>2 DEF IInv
<1>6. QED
    BY <1>1, <1>2, <1>3, <1>4, <1>5 DEF Next

\* The inductive invariant: what is under way was accepted and is on the trail,
\* which is what makes a late commit harmless to the properties.
THEOREM InvariantHolds == Spec => []IInv
BY InitIInv, NextIInv, PTL DEF Spec

\* The tables keep their columns' types in every interleaving.
THEOREM TypeCorrect == Spec => []TypeOK
<1>1. IInv => TypeOK
    BY DEF IInv
<1>2. QED
    BY <1>1, InvariantHolds, PTL

\* The state of a shipment always has the rows that account for it.
THEOREM CustodyAccountedHolds == Spec => []CustodyAccounted
<1>1. IInv => CustodyAccounted
    BY DEF IInv
<1>2. QED
    BY <1>1, InvariantHolds, PTL

\* Every column of a proof on file was submitted in an accepted attempt.
THEOREM ProofTraceableHolds == Spec => []ProofTraceable
<1>1. IInv => ProofTraceable
    BY DEF IInv
<1>2. QED
    BY <1>1, InvariantHolds, PTL

-----------------------------------------------------------------------------
(* The refinement.                                                         *)

Granted(s) == {Recipient(o) : o \in {o \in trail : o.shipment = s}}

LEMMA InitMaps == Init => Transfer!CustodyInit
BY DEF Init, Transfer!CustodyInit, Custodian, NoRow

\* Steps that touch neither rows, nor proofs, nor the trail.
LEMMA StutterMaps ==
    ASSUME UNCHANGED <<row, proof, trail>>
    PROVE  UNCHANGED Transfer!custodyVars
BY DEF Transfer!custodyVars, Custodian

LEMMA SendMaps ==
    ASSUME NEW o \in Operation, Send(o)
    PROVE  Transfer!CustodyNext
<1> DEFINE s == o.shipment
           party == Recipient(o)
<1>1. s \in Shipments /\ party \in Drivers \cup {"customer"}
    BY OperationKind DEF Recipient
<1>2. trail' = trail \cup {o} /\ UNCHANGED <<row, proof>>
    BY DEF Send
<1>3. \A r \in Shipments : Granted(r)' = IF r = s THEN Granted(r) \cup {party} ELSE Granted(r)
    BY <1>2 DEF Granted, Recipient
<1>4. Transfer!Grant(s, party)
    BY <1>1, <1>2, <1>3 DEF Transfer!Grant, Granted, Custodian
<1>5. QED
    BY <1>1, <1>4 DEF Transfer!CustodyNext

LEMMA TakeInMaps ==
    ASSUME IInv, NEW s \in Shipments, CreateShipment(s)
    PROVE  Transfer!CustodyNext
<1>1. UNCHANGED <<proof, trail>> /\ Custodian(s) = "none" /\ Custodian(s)' = "warehouse"
    BY DEF CreateShipment, Custodian, NoRow, IInv, TypeOK
<1>2. \A r \in Shipments \ {s} : Custodian(r)' = Custodian(r)
    BY DEF CreateShipment, Custodian, IInv, TypeOK
<1>3. Transfer!TakeIn(s)
    BY <1>1, <1>2 DEF Transfer!TakeIn
<1>4. QED
    BY <1>3 DEF Transfer!CustodyNext

\* A commit hands the shipment over to the recipient of its operation.
LEMMA HandOverMaps ==
    ASSUME IInv, NEW o \in pending, UNCHANGED trail,
           row[o.shipment] # NoRow,
           Custodian(o.shipment)' = Recipient(o),
           \A r \in Shipments \ {o.shipment} : Custodian(r)' = Custodian(r),
           \A r \in Shipments :
               (proof'[r] # NoProof) <=>
                   (proof[r] # NoProof \/ (r = o.shipment /\ o.kind = "delivery"))
    PROVE  Transfer!CustodyNext
<1> DEFINE s == o.shipment
           party == Recipient(o)
<1>1. /\ o \in Operation
      /\ s \in Shipments
      /\ party \in Drivers \cup {"customer"}
      /\ (party = "customer") <=> (o.kind = "delivery")
    BY OperationKind, NamesAssumption DEF IInv, TypeOK, Recipient
<1>2. party \in Granted(s)
    BY DEF Granted, IInv, PendingAccepted
<1>3. Custodian(s) # "none"
  <2>1. row[s] \in ShipmentRow
      BY <1>1 DEF IInv, TypeOK
  <2>2. CASE row[s].custody = "driver"
      BY <1>1, <2>2, NamesAssumption DEF Custodian, IInv, RowShape
  <2>3. CASE row[s].custody # "driver"
      BY <2>1, <2>3 DEF Custodian, ShipmentRow
  <2>4. QED
      BY <2>2, <2>3
<1>4. {r \in Shipments : proof'[r] # NoProof} =
          IF party = "customer" THEN {r \in Shipments : proof[r] # NoProof} \cup {s}
                                ELSE {r \in Shipments : proof[r] # NoProof}
    BY <1>1
<1>5. Transfer!HandOver(s, party)
    BY <1>1, <1>2, <1>3, <1>4 DEF Transfer!HandOver, Granted
<1>6. QED
    BY <1>1, <1>5 DEF Transfer!CustodyNext

LEMMA CommitMaps ==
    ASSUME IInv, NEW o \in pending,
           \/ \E j \in Jobs : CommitAssignment(o, j) /\ o.kind = "assignment"
           \/ o.kind = "pickup" /\ CommitPickup(o)
           \/ o.kind = "delivery" /\ CommitDelivery(o)
    PROVE  Transfer!CustodyNext
<1> DEFINE s == o.shipment
<1>1. /\ o \in Operation /\ s \in Shipments /\ o.driver \in Drivers
      /\ o.kind = "delivery" => o.proof \in DeliveryProof
    BY OperationKind DEF IInv, TypeOK
<1>2. UNCHANGED trail /\ row[s] # NoRow
    BY DEF CommitAssignment, CommitPickup, CommitDelivery, Commit
<1>3. row[s] \in ShipmentRow
    BY <1>1, <1>2 DEF IInv, TypeOK
<1>4. \A r \in Shipments \ {s} : row'[r] = row[r]
    BY DEF CommitAssignment, CommitPickup, CommitDelivery, IInv, TypeOK
<1>5. CASE o.kind # "delivery"
  <2>1. row'[s].custody = "driver" /\ row'[s].holder = o.driver
      BY <1>1, <1>3, <1>5 DEF CommitAssignment, CommitPickup, IInv, TypeOK, ShipmentRow
  <2>2. UNCHANGED proof
      BY <1>5 DEF CommitAssignment, CommitPickup
  <2>3. Custodian(s)' = Recipient(o)
      BY <1>5, <2>1 DEF Custodian, Recipient
  <2>4. \A r \in Shipments \ {s} : Custodian(r)' = Custodian(r)
      BY <1>4 DEF Custodian
  <2>5. QED
      BY <1>2, <1>5, <2>2, <2>3, <2>4, HandOverMaps
<1>6. CASE o.kind = "delivery"
  <2>1. CommitDelivery(o)
      BY <1>6
  <2>2. row'[s].custody = "customer"
      BY <1>1, <1>3, <2>1 DEF CommitDelivery, IInv, TypeOK, ShipmentRow
  <2>3. Custodian(s)' = Recipient(o)
      BY <1>6, <2>2 DEF Custodian, Recipient
  <2>4. \A r \in Shipments \ {s} : Custodian(r)' = Custodian(r)
      BY <1>4 DEF Custodian
  <2>5. proof'[s] = Upsert(proof[s], o.driver, o.proof)
      BY <1>1, <2>1 DEF CommitDelivery, IInv, TypeOK
  <2>6. proof'[s].gps \in Refs
      BY <1>1, <1>6, <2>5 DEF Upsert, Column, DeliveryProof
  <2>7. proof'[s] # NoProof
      BY <2>6, NoRefAssumption DEF NoProof
  <2>8. \A r \in Shipments \ {s} : proof'[r] = proof[r]
      BY <2>1 DEF CommitDelivery, IInv, TypeOK
  <2>9. QED
      BY <1>2, <1>6, <2>3, <2>4, <2>7, <2>8, HandOverMaps
<1>7. QED
    BY <1>5, <1>6

LEMMA RequestMaps ==
    ASSUME NEW s \in Shipments, NEW d \in Drivers,
           \/ \E claimed \in ClaimedStatus : AssignDriver(s, d, claimed)
           \/ \E items \in PickupRequests : CompletePickup(s, d, items)
           \/ \E request \in DeliveryRequests :
                CompleteDelivery(s, d, request) \/ Deliver(s, d, request)
    PROVE  Transfer!CustodyNext
<1>1. CASE \E claimed \in ClaimedStatus : AssignDriver(s, d, claimed)
  <2> DEFINE o == [kind |-> "assignment", shipment |-> s, driver |-> d]
  <2>1. o \in Operation /\ Send(o)
      BY <1>1 DEF AssignDriver, Operation, Assignment
  <2> HIDE DEF o
  <2>2. QED
      BY <2>1, SendMaps
<1>2. ASSUME NEW items \in PickupRequests, CompletePickup(s, d, items)
      PROVE  Transfer!CustodyNext
  <2> DEFINE o == [kind |-> "pickup", shipment |-> s, driver |-> d, items |-> items]
  <2>1. o \in Operation /\ Send(o)
      BY <1>2, PickupRequestsAssumption DEF CompletePickup, Operation, Pickup
  <2> HIDE DEF o
  <2>2. QED
      BY <2>1, SendMaps
<1>3. ASSUME NEW request \in DeliveryRequests,
             CompleteDelivery(s, d, request) \/ Deliver(s, d, request)
      PROVE  Transfer!CustodyNext
  <2>1. request.proof \in DeliveryProof
      BY DeliveryRequestsAssumption
  <2>2. Normalized(s, request.proof) \in DeliveryProof
      BY <2>1, NormalizedType
  <2>3. ASSUME NEW p \in DeliveryProof,
               Send([kind |-> "delivery", shipment |-> s, driver |-> d, proof |-> p])
        PROVE  Transfer!CustodyNext
    <3> DEFINE o == [kind |-> "delivery", shipment |-> s, driver |-> d, proof |-> p]
    <3>1. o \in Operation /\ Send(o)
        BY <2>3 DEF Operation, Delivery
    <3> HIDE DEF o
    <3>2. QED
        BY <3>1, SendMaps
  <2>4. QED
      BY <1>3, <2>1, <2>2, <2>3 DEF CompleteDelivery, Deliver
<1>4. QED
    BY <1>1, <1>2, <1>3

LEMMA NextMaps ==
    IInv /\ [Next]_vars => [Transfer!CustodyNext]_(Transfer!custodyVars)
<1> SUFFICES ASSUME IInv, [Next]_vars
             PROVE  Transfer!CustodyNext \/ UNCHANGED Transfer!custodyVars
    OBVIOUS
<1>1. ASSUME NEW s \in Shipments, CreateShipment(s) PROVE Transfer!CustodyNext
    BY <1>1, TakeInMaps
<1>2. ASSUME NEW s \in Shipments, NEW d \in Drivers,
             \/ \E claimed \in ClaimedStatus : AssignDriver(s, d, claimed)
             \/ \E items \in PickupRequests : CompletePickup(s, d, items)
             \/ \E request \in DeliveryRequests :
                  CompleteDelivery(s, d, request) \/ Deliver(s, d, request)
      PROVE  Transfer!CustodyNext
    BY <1>2, RequestMaps
<1>3. ASSUME NEW j \in Jobs,
             \/ \E s \in Shipments, d \in Drivers \cup {NoDriver} : CreateAssignment(j, s, d)
             \/ \E answer \in {"accepted", "rejected"} : AnswerJob(j, answer)
      PROVE  UNCHANGED Transfer!custodyVars
    BY <1>3, StutterMaps DEF CreateAssignment, AnswerJob
<1>4. ASSUME NEW o \in pending,
             \/ o.kind = "assignment" /\ \E j \in Jobs : CommitAssignment(o, j)
             \/ o.kind = "pickup" /\ CommitPickup(o)
             \/ o.kind = "delivery" /\ CommitDelivery(o)
      PROVE  Transfer!CustodyNext
    BY <1>4, CommitMaps
<1>5. ASSUME NEW o \in pending, DropTransaction(o) PROVE UNCHANGED Transfer!custodyVars
    BY <1>5, StutterMaps DEF DropTransaction
<1>6. CASE UNCHANGED vars
    BY <1>6, StutterMaps DEF vars
<1>7. QED
    BY <1>1, <1>2, <1>3, <1>4, <1>5, <1>6 DEF Next

\* The operations implement the custody promises, for every interleaving of
\* requests and commits.
THEOREM Implementation == Spec => ImplementsCustody
<1>1. Init => Transfer!CustodyInit
    BY InitMaps
<1>2. IInv /\ [Next]_vars => [Transfer!CustodyNext]_(Transfer!custodyVars)
    BY NextMaps
<1>3. QED
    BY <1>1, <1>2, InvariantHolds, PTL DEF Spec, ImplementsCustody, Transfer!CustodySpec

-----------------------------------------------------------------------------
(* What a step may do to the records.  Neither are proofs immutable nor is *)
(* delivered final; this is what the code keeps of both.                   *)

LEMMA RecordsQuiet ==
    ASSUME UNCHANGED <<attempts, proof>>, trail \subseteq trail',
           \A s \in Shipments : row[s].status = "delivered" => row'[s] = row[s]
    PROVE  RecordsGrow /\ ChangesAccounted
BY DEF RecordsGrow, ChangesAccounted

LEMMA CommitRecords ==
    ASSUME IInv, NEW o \in pending,
           \/ \E j \in Jobs : CommitAssignment(o, j) /\ o.kind = "assignment"
           \/ o.kind = "pickup" /\ CommitPickup(o)
           \/ o.kind = "delivery" /\ CommitDelivery(o)
    PROVE  RecordsGrow /\ ChangesAccounted
<1> DEFINE s == o.shipment
<1>1. /\ o \in Operation /\ s \in Shipments /\ o.driver \in Drivers
      /\ o.kind = "delivery" => o.proof.ref \in Refs
    BY OperationKind DEF IInv, TypeOK, DeliveryProof
<1>2. o \in pending \ pending' /\ UNCHANGED trail /\ row[s] \in ShipmentRow
    BY <1>1 DEF CommitAssignment, CommitPickup, CommitDelivery, Commit, IInv, TypeOK
<1>3. \A r \in Shipments \ {s} : row'[r] = row[r]
    BY DEF CommitAssignment, CommitPickup, CommitDelivery, IInv, TypeOK
<1>4. CASE o.kind # "delivery"
  <2>1. attempts \subseteq attempts' /\ UNCHANGED proof
      BY <1>4 DEF CommitAssignment, CommitPickup
  <2>2. QED
      BY <1>2, <1>3, <1>4, <2>1 DEF RecordsGrow, ChangesAccounted
<1>5. CASE o.kind = "delivery"
  <2>1. CommitDelivery(o)
      BY <1>5
  <2>2. /\ attempts' = attempts \cup {o}
        /\ proof'[s] = Upsert(proof[s], o.driver, o.proof)
        /\ \A r \in Shipments \ {s} : proof'[r] = proof[r]
      BY <1>1, <2>1 DEF CommitDelivery, IInv, TypeOK
  <2>3. row'[s].status = "delivered"
      BY <1>1, <1>2, <2>1 DEF CommitDelivery, IInv, TypeOK, ShipmentRow
  <2>4. /\ proof'[s].gps = o.proof.ref /\ proof'[s].gps # NoRef
        /\ proof[s] # NoProof => proof'[s].driver = proof[s].driver
        /\ proof[s].photo # NoRef => proof'[s].photo # NoRef
        /\ proof[s].signature # NoRef => proof'[s].signature # NoRef
        /\ proof[s].scan # NoRef => proof'[s].scan # NoRef
      BY <1>1, <1>5, <2>2, NoRefAssumption DEF Upsert, Column
  <2>5. proof'[s] # NoProof
      BY <2>4 DEF NoProof
  <2>6. RecordsGrow
      BY <1>2, <2>2, <2>4, <2>5 DEF RecordsGrow
  <2>7. ChangesAccounted
      BY <1>2, <1>3, <1>5, <2>2, <2>3, <2>4 DEF ChangesAccounted
  <2>8. QED
      BY <2>6, <2>7
<1>6. QED
    BY <1>4, <1>5

LEMMA NextRecords == IInv /\ [Next]_vars => RecordsGrow /\ ChangesAccounted
<1> SUFFICES ASSUME IInv, [Next]_vars PROVE RecordsGrow /\ ChangesAccounted
    OBVIOUS
<1>1. ASSUME NEW s \in Shipments, CreateShipment(s) PROVE RecordsGrow /\ ChangesAccounted
  <2>1. UNCHANGED <<attempts, proof, trail>>
      BY <1>1 DEF CreateShipment
  <2>2. \A r \in Shipments : row[r].status = "delivered" => row'[r] = row[r]
      BY <1>1 DEF CreateShipment, NoRow, IInv, TypeOK
  <2>3. QED
      BY <2>1, <2>2, RecordsQuiet
<1>2. ASSUME NEW s \in Shipments, NEW d \in Drivers,
             \/ \E claimed \in ClaimedStatus : AssignDriver(s, d, claimed)
             \/ \E items \in PickupRequests : CompletePickup(s, d, items)
             \/ \E request \in DeliveryRequests :
                  CompleteDelivery(s, d, request) \/ Deliver(s, d, request)
      PROVE  RecordsGrow /\ ChangesAccounted
    BY <1>2, RecordsQuiet DEF AssignDriver, CompletePickup, CompleteDelivery, Deliver, Send
<1>3. ASSUME NEW j \in Jobs,
             \/ \E s \in Shipments, d \in Drivers \cup {NoDriver} : CreateAssignment(j, s, d)
             \/ \E answer \in {"accepted", "rejected"} : AnswerJob(j, answer)
      PROVE  RecordsGrow /\ ChangesAccounted
    BY <1>3, RecordsQuiet DEF CreateAssignment, AnswerJob
<1>4. ASSUME NEW o \in pending,
             \/ o.kind = "assignment" /\ \E j \in Jobs : CommitAssignment(o, j)
             \/ o.kind = "pickup" /\ CommitPickup(o)
             \/ o.kind = "delivery" /\ CommitDelivery(o)
      PROVE  RecordsGrow /\ ChangesAccounted
    BY <1>4, CommitRecords
<1>5. ASSUME NEW o \in pending, DropTransaction(o) PROVE RecordsGrow /\ ChangesAccounted
    BY <1>5, RecordsQuiet DEF DropTransaction
<1>6. CASE UNCHANGED vars
    BY <1>6, RecordsQuiet DEF vars
<1>7. QED
    BY <1>1, <1>2, <1>3, <1>4, <1>5, <1>6 DEF Next

\* What stays of "proof records are immutable": nothing on file about a pickup or a
\* delivery is removed, no column of a proof is emptied, whatever commits later.
THEOREM RecordsStay == Spec => RecordsKept
<1>1. IInv /\ [Next]_vars => [RecordsGrow]_vars
    BY NextRecords
<1>2. QED
    BY <1>1, InvariantHolds, PTL DEF Spec, RecordsKept

\* What stays of "delivered is last": only an operation that was under way takes a
\* delivered shipment back, and then its proof stays as it was.
THEOREM ChangesStayAccounted == Spec => ChangesTraced
<1>1. IInv /\ [Next]_vars => [ChangesAccounted]_vars
    BY NextRecords
<1>2. QED
    BY <1>1, InvariantHolds, PTL DEF Spec, ChangesTraced

=============================================================================
