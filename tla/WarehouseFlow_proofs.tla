------------------------ MODULE WarehouseFlow_proofs ------------------------
(***************************************************************************)
(* Proofs about WarehouseFlow, for every set of packages and every bound   *)
(* on the UPDATEs in flight.                                               *)
(***************************************************************************)
EXTENDS WarehouseFlow, TLAPS

\* An UPDATE to readyForDispatch, sent or applied, comes from an accepted markReady.
ReadyWritesTrailed ==
    \A p \in Packages :
        (\/ row[p].status = "readyForDispatch" /\ p \notin seeded
         \/ pending[[package |-> p, status |-> "readyForDispatch"]] > 0)
            => "readyForDispatch" \in trail[p]

\* Without the development shortcut every completed step has its entry, and
\* markReady has found all of them.
StepsTrailed ==
    \A p \in Packages \ devPackages :
        /\ flow[p].done \subseteq trail[p]
        /\ "readyForDispatch" \in trail[p] => Steps \subseteq trail[p]

IInv == TypeOK /\ StatusBacked /\ ReadyWritesTrailed /\ StepsTrailed

-----------------------------------------------------------------------------
LEMMA InitIInv == Init => IInv
BY MaxInFlightAssumption
DEF Init, IInv, TypeOK, StatusBacked, ReadyWritesTrailed, StepsTrailed, Fresh, NoRow, SeedRow,
    Required, Status, Written, Steps, Writes

\* An accepted operation keeps the invariant when it leaves the entry with what
\* the new status and the completed steps presuppose.
LEMMA OperateIInv ==
    ASSUME IInv, NEW p \in Packages, NEW status \in Written, NEW done \in SUBSET Steps,
           Operate(p, status, done),
           Required(status) \subseteq done,
           \A step \in done : Before(step) \subseteq done,
           p \notin devPackages => done \subseteq flow[p].done \cup {status},
           (p \notin devPackages /\ status = "readyForDispatch") => flow[p].done = Steps
    PROVE  IInv'
<1> USE MaxInFlightAssumption
<1> DEFINE w == [package |-> p, status |-> status]
<1>1. /\ flow' = [flow EXCEPT ![p] = [status |-> status, done |-> done]]
      /\ pending[w] < MaxInFlight
      /\ pending' = [pending EXCEPT ![w] = @ + 1]
      /\ trail' = [trail EXCEPT ![p] = @ \cup {status}]
      /\ UNCHANGED <<devPackages, row, seeded>>
      /\ w \in Writes
    BY DEF Operate, Persist, Writes
<1>2. w.package = p /\ w.status = status
    OBVIOUS
<1> HIDE DEF w
<1>3. TypeOK'
    BY <1>1 DEF IInv, TypeOK, Status
<1>4. StatusBacked'
    BY <1>1 DEF IInv, TypeOK, StatusBacked
<1>5. ReadyWritesTrailed'
  <2> SUFFICES ASSUME NEW q \in Packages,
                      \/ row'[q].status = "readyForDispatch" /\ q \notin seeded'
                      \/ pending'[[package |-> q, status |-> "readyForDispatch"]] > 0
               PROVE  "readyForDispatch" \in trail'[q]
      BY DEF ReadyWritesTrailed
  <2> DEFINE v == [package |-> q, status |-> "readyForDispatch"]
  <2>1. trail[q] \subseteq trail'[q]
      BY <1>1 DEF IInv, TypeOK
  <2>2. CASE v = w
      BY <1>1, <1>2, <2>2 DEF IInv, TypeOK
  <2>3. CASE v # w
    <3>1. v \in Writes
        BY DEF Writes, Written
    <3>2. pending'[v] = pending[v]
        BY <1>1, <2>3, <3>1 DEF IInv, TypeOK
    <3>3. QED
        BY <1>1, <2>1, <3>2 DEF IInv, ReadyWritesTrailed
  <2>4. QED
      BY <2>2, <2>3
<1>6. StepsTrailed'
    BY <1>1 DEF IInv, TypeOK, StepsTrailed
<1>7. QED
    BY <1>3, <1>4, <1>5, <1>6 DEF IInv

\* The operations of the service.
LEMMA OperationIInv ==
    ASSUME IInv, NEW p \in Packages,
           \/ StartPick(p) \/ ScanItem(p) \/ Pack(p)
           \/ GenerateLabel(p) \/ Stage(p) \/ MarkReady(p)
    PROVE  IInv'
<1> DEFINE done == flow[p].done
<1>1. /\ done \in SUBSET Steps
      /\ \A step \in done : Before(step) \subseteq done
    BY DEF IInv, TypeOK, StatusBacked
<1>2. CASE StartPick(p)
  <2>1. "picking" \in Written /\ Required("picking") = {}
      BY DEF Written, Required, Steps
  <2>2. QED
      BY <1>1, <1>2, <2>1, OperateIInv DEF StartPick
<1>3. CASE ScanItem(p)
  <2> DEFINE new == done \cup {"scanned"}
  <2>1. /\ "scanned" \in Written
        /\ new \in SUBSET Steps
        /\ Required("scanned") \subseteq new
        /\ \A step \in new : Before(step) \subseteq new
      BY <1>1 DEF Written, Required, Steps, Before
  <2>2. Operate(p, "scanned", new)
      BY <1>3 DEF ScanItem
  <2>3. QED
      BY <2>1, <2>2, OperateIInv
<1>4. CASE Pack(p)
  <2> DEFINE new == done \cup {"packed"}
  <2>1. /\ "packed" \in Written
        /\ new \in SUBSET Steps
        /\ Required("packed") \subseteq new
        /\ \A step \in new : Before(step) \subseteq new
      BY <1>1, <1>4 DEF Pack, Written, Required, Steps, Before
  <2>2. Operate(p, "packed", new)
      BY <1>4 DEF Pack
  <2>3. QED
      BY <2>1, <2>2, OperateIInv
<1>5. CASE GenerateLabel(p)
  <2> DEFINE base == IF p \in devPackages THEN done \cup {"scanned", "packed"} ELSE done
             new == base \cup {"labelGenerated"}
  <2>1. "packed" \in base /\ Operate(p, "labelGenerated", new)
      BY <1>5 DEF GenerateLabel
  <2>2. /\ base \in SUBSET Steps
        /\ \A step \in base : Before(step) \subseteq base
        /\ p \notin devPackages => base = done
      BY <1>1 DEF Steps, Before
  <2> HIDE DEF base
  <2>3. /\ "labelGenerated" \in Written
        /\ new \in SUBSET Steps
        /\ Required("labelGenerated") \subseteq new
        /\ \A step \in new : Before(step) \subseteq new
      BY <2>1, <2>2 DEF Written, Required, Steps, Before
  <2>4. QED
      BY <2>1, <2>2, <2>3, OperateIInv
<1>6. CASE Stage(p)
  <2> DEFINE new == done \cup {"staged"}
  <2>1. /\ "staged" \in Written
        /\ new \in SUBSET Steps
        /\ Required("staged") \subseteq new
        /\ \A step \in new : Before(step) \subseteq new
      BY <1>1, <1>6 DEF Stage, Written, Required, Steps, Before
  <2>2. Operate(p, "staged", new)
      BY <1>6 DEF Stage
  <2>3. QED
      BY <2>1, <2>2, OperateIInv
<1>7. CASE MarkReady(p)
  <2>1. /\ "readyForDispatch" \in Written
        /\ Required("readyForDispatch") = Steps
        /\ \A step \in Steps : Before(step) \subseteq Steps
      BY DEF Written, Required, Steps, Before
  <2>2. /\ Operate(p, "readyForDispatch", Steps)
        /\ p \notin devPackages => done = Steps
      BY <1>7 DEF MarkReady
  <2>3. QED
      BY <2>1, <2>2, OperateIInv
<1>8. QED
    BY <1>2, <1>3, <1>4, <1>5, <1>6, <1>7

LEMMA ApplyUpdateIInv ==
    ASSUME IInv, NEW w \in Writes, ApplyUpdate(w)
    PROVE  IInv'
<1> USE MaxInFlightAssumption
<1>1. w \in [package: Packages, status: Written]
    BY DEF Writes
<1>2. /\ pending[w] > 0
      /\ pending' = [pending EXCEPT ![w] = @ - 1]
      /\ row' = [row EXCEPT ![w.package] =
                    [status |-> w.status,
                     stamped |-> @.stamped \cup ({w.status} \cap {"scanned", "packed", "staged"})]]
      /\ seeded' = seeded \ {w.package}
      /\ UNCHANGED <<devPackages, flow, trail>>
    BY DEF ApplyUpdate, Settle
<1>3. TypeOK'
  <2>1. pending' \in [Writes -> 0..MaxInFlight]
      BY <1>2 DEF IInv, TypeOK
  <2>2. {w.status} \cap {"scanned", "packed", "staged"} \subseteq Steps
      BY DEF Steps
  <2>3. row[w.package].stamped \subseteq Steps
      BY <1>1 DEF IInv, TypeOK
  <2>4. row' \in [Packages -> [status: Status \cup {"none"}, stamped: SUBSET Steps]]
      BY <1>1, <1>2, <2>2, <2>3 DEF IInv, TypeOK, Status
  <2>5. QED
      BY <1>2, <2>1, <2>4 DEF IInv, TypeOK
<1>4. StatusBacked' /\ StepsTrailed'
    BY <1>2 DEF IInv, StatusBacked, StepsTrailed
<1>5. ReadyWritesTrailed'
  <2> SUFFICES ASSUME NEW q \in Packages,
                      \/ row'[q].status = "readyForDispatch" /\ q \notin seeded'
                      \/ pending'[[package |-> q, status |-> "readyForDispatch"]] > 0
               PROVE  "readyForDispatch" \in trail[q]
      BY <1>2 DEF ReadyWritesTrailed
  <2> DEFINE v == [package |-> q, status |-> "readyForDispatch"]
  <2>1. v \in Writes /\ v.package = q /\ v.status = "readyForDispatch"
      BY DEF Writes, Written
  <2>2. pending[v] > 0 => "readyForDispatch" \in trail[q]
      BY DEF IInv, ReadyWritesTrailed
  <2>3. pending'[v] > 0 => pending[v] > 0
      BY <1>2, <2>1 DEF IInv, TypeOK
  <2>4. CASE pending'[v] > 0
      BY <2>2, <2>3, <2>4
  <2>5. CASE row'[q].status = "readyForDispatch" /\ q \notin seeded'
    <3>1. CASE q # w.package
        BY <1>2, <2>5, <3>1 DEF IInv, TypeOK, ReadyWritesTrailed
    <3>2. CASE q = w.package
      <4>1. w.status = "readyForDispatch"
          BY <1>1, <1>2, <2>5, <3>2 DEF IInv, TypeOK
      <4>2. w = v
          BY <1>1, <3>2, <4>1
      <4>3. QED
          BY <1>2, <2>2, <4>2
    <3>3. QED
        BY <3>1, <3>2
  <2>6. QED
      BY <2>4, <2>5
<1>6. QED
    BY <1>3, <1>4, <1>5 DEF IInv

LEMMA StepIInv == IInv /\ [Next]_vars => IInv'
<1> SUFFICES ASSUME IInv, [Next]_vars PROVE IInv'
    OBVIOUS
<1> USE MaxInFlightAssumption
<1>1. CASE UNCHANGED vars
    BY <1>1 DEF vars, IInv, TypeOK, StatusBacked, ReadyWritesTrailed, StepsTrailed
<1>2. ASSUME NEW p \in Packages, CreatePackage(p)
      PROVE  IInv'
    BY <1>2 DEF CreatePackage, NoRow, Status, IInv, TypeOK, StatusBacked, ReadyWritesTrailed,
                StepsTrailed
<1>3. ASSUME NEW w \in Writes, DropUpdate(w)
      PROVE  IInv'
  <2>1. /\ pending' \in [Writes -> 0..MaxInFlight]
        /\ \A v \in Writes : pending'[v] > 0 => pending[v] > 0
      BY <1>3 DEF DropUpdate, Settle, IInv, TypeOK
  <2>2. \A p \in Packages : [package |-> p, status |-> "readyForDispatch"] \in Writes
      BY DEF Writes, Written
  <2>3. UNCHANGED <<devPackages, flow, row, trail, seeded>>
      BY <1>3 DEF DropUpdate
  <2>4. QED
      BY <2>1, <2>2, <2>3 DEF IInv, TypeOK, StatusBacked, ReadyWritesTrailed, StepsTrailed
<1>4. CASE Restart
    BY <1>4 DEF Restart, Fresh, Status, Required, Steps, IInv, TypeOK, StatusBacked,
                ReadyWritesTrailed, StepsTrailed
<1>5. QED
    BY <1>1, <1>2, <1>3, <1>4, OperationIInv, ApplyUpdateIInv DEF Next

\* The inductive invariant: what the Map, the writes in flight, the table and the
\* trail of accepted operations say of each other.
THEOREM InvariantHolds == Spec => []IInv
BY InitIInv, StepIInv, PTL DEF Spec

-----------------------------------------------------------------------------
\* The Map, the table and the writes in flight always have the shape the code gives them.
THEOREM TypeCorrect == Spec => []TypeOK
<1>1. IInv => TypeOK
    BY DEF IInv
<1>2. QED
    BY <1>1, InvariantHolds, PTL

\* No call order, repetition or restart leaves a package of the Map in a status
\* whose steps it has not completed.
THEOREM StatusBackedHolds == Spec => []StatusBacked
<1>1. IInv => StatusBacked
    BY DEF IInv
<1>2. QED
    BY <1>1, InvariantHolds, PTL

\* A row shown as ready for dispatch was earned by all the operations before,
\* whatever UPDATEs were late or lost and however often the process restarted.
THEOREM ReadyRowEarnedHolds == Spec => []ReadyRowEarned
<1>1. IInv => ReadyRowEarned
    BY DEF IInv, ReadyWritesTrailed, StepsTrailed, ReadyRowEarned
<1>2. QED
    BY <1>1, InvariantHolds, PTL

-----------------------------------------------------------------------------
(* WarehouseFlow implements PackageChecklist.                              *)

\* What an accepted operation other than markReady does to the checklists.
LEMMA OperateMaps ==
    ASSUME IInv, NEW p \in Packages, NEW status \in Written, NEW done \in SUBSET Steps,
           Operate(p, status, done), status # "readyForDispatch"
    PROVE  /\ [q \in Packages |-> flow'[q].done]
                 = [[q \in Packages |-> flow[q].done] EXCEPT ![p] = done]
           /\ {q \in Packages : "readyForDispatch" \in trail'[q]}
                 = {q \in Packages : "readyForDispatch" \in trail[q]}
           /\ UNCHANGED <<devPackages, row, seeded>>
BY DEF Operate, Persist, IInv, TypeOK

\* The service implements the abstract checklist: steps in order unless waived,
\* cleared only when complete, published only when cleared.
THEOREM Implementation == Spec => ImplementsChecklist
<1>1. Init => Checklist!ChecklistInit
    BY DEF Init, Checklist!ChecklistInit, Fresh, NoRow, SeedRow
<1>2. IInv /\ [Next]_vars => [Checklist!ChecklistNext]_(Checklist!checklistVars)
  <2> SUFFICES ASSUME IInv, [Next]_vars
               PROVE  Checklist!ChecklistNext \/ UNCHANGED Checklist!checklistVars
      OBVIOUS
  <2>1. ASSUME NEW p \in Packages, StartPick(p)
        PROVE  UNCHANGED Checklist!checklistVars
    <3>1. /\ UNCHANGED <<devPackages, row, seeded>>
          /\ \A q \in Packages :
                /\ flow'[q].done = flow[q].done
                /\ "readyForDispatch" \in trail'[q] <=> "readyForDispatch" \in trail[q]
        BY <2>1 DEF StartPick, Operate, Persist, IInv, TypeOK
    <3>2. QED
        BY <3>1 DEF Checklist!checklistVars
  <2>2. ASSUME NEW p \in Packages, NEW step \in Steps,
               Operate(p, step, flow[p].done \cup {step}), Before(step) \subseteq flow[p].done
        PROVE  Checklist!Tick(p, step)
    <3>1. /\ step \in Written /\ step # "readyForDispatch"
          /\ flow[p].done \cup {step} \in SUBSET Steps
        BY DEF Written, Steps, IInv, TypeOK
    <3>2. QED
        BY <2>2, <3>1, OperateMaps DEF Checklist!Tick
  <2>3. ASSUME NEW p \in Packages, ScanItem(p) \/ Pack(p) \/ Stage(p)
        PROVE  Checklist!ChecklistNext
    <3>1. \A step \in flow[p].done : Before(step) \subseteq flow[p].done
        BY DEF IInv, StatusBacked
    <3>2. CASE ScanItem(p)
        BY <2>2, <3>2 DEF ScanItem, Before, Steps, Checklist!ChecklistNext
    <3>3. CASE Pack(p)
        BY <2>2, <3>1, <3>3 DEF Pack, Before, Steps, Checklist!ChecklistNext
    <3>4. CASE Stage(p)
        BY <2>2, <3>1, <3>4 DEF Stage, Before, Steps, Checklist!ChecklistNext
    <3>5. QED
        BY <2>3, <3>2, <3>3, <3>4
  <2>4. ASSUME NEW p \in Packages, GenerateLabel(p)
        PROVE  Checklist!ChecklistNext
    <3>1. \A step \in flow[p].done : Before(step) \subseteq flow[p].done
        BY DEF IInv, StatusBacked
    <3>2. CASE p \notin devPackages
      <4>1. /\ "packed" \in flow[p].done
            /\ Operate(p, "labelGenerated", flow[p].done \cup {"labelGenerated"})
          BY <2>4, <3>2 DEF GenerateLabel
      <4>2. Before("labelGenerated") \subseteq flow[p].done
          BY <3>1, <4>1 DEF Before
      <4>3. QED
          BY <2>2, <4>1, <4>2 DEF Steps, Checklist!ChecklistNext
    <3>3. CASE p \in devPackages
      <4> DEFINE done == flow[p].done \cup Before("labelGenerated") \cup {"labelGenerated"}
      <4>1. done \in SUBSET Steps /\ "labelGenerated" \in Written
          BY DEF Before, Steps, Written, IInv, TypeOK
      <4>2. done = (flow[p].done \cup {"scanned", "packed"}) \cup {"labelGenerated"}
          BY DEF Before
      <4>3. Operate(p, "labelGenerated", done)
          BY <2>4, <3>3, <4>2 DEF GenerateLabel
      <4> HIDE DEF done
      <4>4. /\ [q \in Packages |-> flow'[q].done]
                  = [[q \in Packages |-> flow[q].done] EXCEPT ![p] = done]
            /\ {q \in Packages : "readyForDispatch" \in trail'[q]}
                  = {q \in Packages : "readyForDispatch" \in trail[q]}
            /\ UNCHANGED <<devPackages, row, seeded>>
          BY <4>1, <4>3, OperateMaps
      <4>5. Checklist!Waive(p, "labelGenerated")
          BY <3>3, <4>4 DEF Checklist!Waive, done
      <4>6. QED
          BY <4>5 DEF Checklist!ChecklistNext, Steps
    <3>4. QED
        BY <3>2, <3>3
  <2>5. ASSUME NEW p \in Packages, MarkReady(p)
        PROVE  Checklist!Clear(p)
    <3>1. /\ flow' = [flow EXCEPT ![p] = [status |-> "readyForDispatch", done |-> Steps]]
          /\ trail' = [trail EXCEPT ![p] = @ \cup {"readyForDispatch"}]
          /\ UNCHANGED <<devPackages, row, seeded>>
          /\ p \in devPackages \/ flow[p].done = Steps
        BY <2>5 DEF MarkReady, Operate, Persist
    <3>2. QED
        BY <3>1 DEF Checklist!Clear, IInv, TypeOK
  <2>6. ASSUME NEW w \in Writes, ApplyUpdate(w)
        PROVE  Checklist!Publish(w.package) \/ Checklist!Retract(w.package)
    <3>1. w.package \in Packages /\ w = [package |-> w.package, status |-> w.status]
        BY DEF Writes
    <3>2. /\ pending[w] > 0
          /\ UNCHANGED <<devPackages, flow, trail>>
          /\ seeded' = seeded \ {w.package}
          /\ \A q \in Packages : q # w.package => row'[q] = row[q]
          /\ row'[w.package].status = w.status
        BY <2>6, <3>1 DEF ApplyUpdate, IInv, TypeOK
    <3>3. CASE w.status = "readyForDispatch"
        BY <3>1, <3>2, <3>3 DEF Checklist!Publish, IInv, ReadyWritesTrailed
    <3>4. CASE w.status # "readyForDispatch"
        BY <3>1, <3>2, <3>4 DEF Checklist!Retract
    <3>5. QED
        BY <3>3, <3>4
  <2>7. ASSUME NEW p \in Packages, CreatePackage(p)
        PROVE  UNCHANGED Checklist!checklistVars
      BY <2>7 DEF CreatePackage, NoRow, Checklist!checklistVars, IInv, TypeOK
  <2>8. CASE Restart
      BY <2>8 DEF Restart, Fresh, Checklist!Forget, Checklist!ChecklistNext
  <2>9. ASSUME (\E w \in Writes : DropUpdate(w)) \/ UNCHANGED vars
        PROVE  UNCHANGED Checklist!checklistVars
      BY <2>9 DEF DropUpdate, vars, Checklist!checklistVars
  <2>10. \A w \in Writes : w.package \in Packages
      BY DEF Writes
  <2>11. QED
      BY <2>1, <2>3, <2>4, <2>5, <2>6, <2>7, <2>8, <2>9, <2>10 DEF Next, Checklist!ChecklistNext
<1>3. QED
    BY <1>1, <1>2, InvariantHolds, PTL DEF Spec, ImplementsChecklist, Checklist!ChecklistSpec

=============================================================================
