--------------------------- MODULE WarehouseFlow ---------------------------
(***************************************************************************)
(* WarehouseFlowService (modules/warehouse/warehouse-flow.service.ts).     *)
(*                                                                         *)
(* The checks run on a Map in the memory of the process.  Each accepted    *)
(* operation also sends an UPDATE of the packages row and an INSERT into   *)
(* package_events without waiting for them and with their errors dropped:  *)
(* they reach the database in any order, or never.  A restart loses the    *)
(* Map, which is not read back from the database.                          *)
(***************************************************************************)
EXTENDS Naturals, FiniteSets

CONSTANTS
    Packages,       \* package ids that clients send
    MaxInFlight     \* bound: equal UPDATEs under way at the same time

ASSUME MaxInFlightAssumption == MaxInFlight \in Nat

VARIABLES
    devPackages, \* the ids that isSafeDevPackage recognises; it never changes
    flow,        \* the Map: status and completed steps of each package
    row,         \* the packages table
    pending,     \* UPDATEs of packages sent and not yet settled
    trail,       \* entries given to audit.create and package_events, of every run of the process
    seeded       \* history: packages whose row is still the one that the seed inserted

vars == <<devPackages, flow, row, pending, trail, seeded>>

(***************************************************************************)
(* The steps are the four booleans of PackageFlowState; Before is the      *)
(* order in which the operations ask for them.                             *)
(***************************************************************************)
Steps == {"scanned", "packed", "labelGenerated", "staged"}

Before(step) ==
    CASE step = "scanned" -> {}
      [] step = "packed" -> {"scanned"}
      [] step = "labelGenerated" -> {"scanned", "packed"}
      [] step = "staged" -> {"scanned", "packed", "labelGenerated"}

\* The statuses an operation sets; it writes the same one to the database.
Written == {"picking", "scanned", "packed", "labelGenerated", "staged", "readyForDispatch"}
Status == Written \cup {"created"}

Writes == [package: Packages, status: Written]

Fresh == [status |-> "created", done |-> {}]
NoRow == [status |-> "none", stamped |-> {}]

\* The seed inserts packages that no operation has touched as ready for dispatch.
SeedRow == [status |-> "readyForDispatch", stamped |-> {"scanned", "packed", "staged"}]

TypeOK ==
    /\ devPackages \subseteq Packages
    /\ flow \in [Packages -> [status: Status, done: SUBSET Steps]]
    /\ row \in [Packages -> [status: Status \cup {"none"}, stamped: SUBSET Steps]]
    /\ pending \in [Writes -> 0..MaxInFlight]
    /\ trail \in [Packages -> SUBSET Written]
    /\ seeded \subseteq Packages

\* ensure creates a missing entry with the values of Fresh, so that an absent
\* entry and a fresh one are the same.
Init ==
    /\ devPackages \in SUBSET Packages
    /\ flow = [p \in Packages |-> Fresh]
    /\ seeded \in SUBSET Packages
    /\ row = [p \in Packages |-> IF p \in seeded THEN SeedRow ELSE NoRow]
    /\ pending = [w \in Writes |-> 0]
    /\ trail = [p \in Packages |-> {}]

-----------------------------------------------------------------------------
(* The operations.                                                         *)

\* persistPackage, persistPackageEvent and audit.create: the UPDATE is on its
\* way, the two records of the operation are written and never read here.
Persist(p, status) ==
    LET w == [package |-> p, status |-> status]
    IN  /\ pending[w] < MaxInFlight
        /\ pending' = [pending EXCEPT ![w] = @ + 1]
        /\ trail' = [trail EXCEPT ![p] = @ \cup {status}]

\* An accepted operation: the entry of the Map changes and is persisted.
Operate(p, status, done) ==
    /\ flow' = [flow EXCEPT ![p] = [status |-> status, done |-> done]]
    /\ Persist(p, status)
    /\ UNCHANGED <<devPackages, row, seeded>>

\* A pick starts over from any status and keeps the completed steps.
StartPick(p) == Operate(p, "picking", flow[p].done)

\* RESERVED, the third status scanItem accepts, is never set in the Map.
ScanItem(p) ==
    /\ flow[p].status \in {"created", "picking"}
    /\ Operate(p, "scanned", flow[p].done \cup {"scanned"})

\* Mutant: the check of state.scanned is gone.
PackUnscanned(p) == Operate(p, "packed", flow[p].done \cup {"packed"})

Pack(p) ==
    /\ "scanned" \in flow[p].done
    /\ Operate(p, "packed", flow[p].done \cup {"packed"})

\* Mutant: every id passes for a development id.
GenerateLabelUnpacked(p) ==
    Operate(p, "labelGenerated", flow[p].done \cup {"scanned", "packed", "labelGenerated"})

GenerateLabel(p) ==
    LET done == IF p \in devPackages THEN flow[p].done \cup {"scanned", "packed"} ELSE flow[p].done
    IN  /\ "packed" \in done
        /\ Operate(p, "labelGenerated", done \cup {"labelGenerated"})

Stage(p) ==
    /\ "labelGenerated" \in flow[p].done
    /\ Operate(p, "staged", flow[p].done \cup {"staged"})

\* Mutant: the four booleans are joined by || instead of &&.
MarkReadyOnAny(p) ==
    /\ p \in devPackages \/ flow[p].done # {}
    /\ Operate(p, "readyForDispatch", IF p \in devPackages THEN Steps ELSE flow[p].done)

MarkReady(p) ==
    /\ p \in devPackages \/ flow[p].done = Steps
    /\ Operate(p, "readyForDispatch", Steps)

-----------------------------------------------------------------------------
(* The database.                                                           *)

\* POST /packages, modules/packages/packages.controller.ts.
CreatePackage(p) ==
    /\ row[p] = NoRow
    /\ row' = [row EXCEPT ![p].status = "created"]
    /\ UNCHANGED <<devPackages, flow, pending, trail, seeded>>

Settle(w) == pending' = [pending EXCEPT ![w] = @ - 1]

\* The UPDATE overwrites the status; three statuses come with a timestamp.
ApplyUpdate(w) ==
    /\ pending[w] > 0
    /\ row[w.package] # NoRow
    /\ Settle(w)
    /\ row' = [row EXCEPT ![w.package] =
                  [status |-> w.status,
                   stamped |-> @.stamped \cup ({w.status} \cap {"scanned", "packed", "staged"})]]
    /\ seeded' = seeded \ {w.package}
    /\ UNCHANGED <<devPackages, flow, trail>>

\* No such row, a barcode that is taken, a lost connection: the catch drops it.
DropUpdate(w) ==
    /\ pending[w] > 0
    /\ Settle(w)
    /\ UNCHANGED <<devPackages, flow, row, trail, seeded>>

\* Mutant: the Map is filled from the table without looking for a missing row.
RestartFromRow ==
    /\ flow' = [p \in Packages |-> [status |-> row[p].status, done |-> row[p].stamped]]
    /\ UNCHANGED <<devPackages, row, pending, trail, seeded>>

\* UPDATEs that had been sent may still arrive.
Restart ==
    /\ flow' = [p \in Packages |-> Fresh]
    /\ UNCHANGED <<devPackages, row, pending, trail, seeded>>

Next ==
    \/ \E p \in Packages :
         \/ StartPick(p)
         \/ ScanItem(p)
         \/ Pack(p)
         \/ GenerateLabel(p)
         \/ Stage(p)
         \/ MarkReady(p)
         \/ CreatePackage(p)
    \/ \E w \in Writes : ApplyUpdate(w) \/ DropUpdate(w)
    \/ Restart

Spec == Init /\ [][Next]_vars

-----------------------------------------------------------------------------
(* Properties.                                                             *)

\* The steps a status presupposes.
Required(status) ==
    IF status = "readyForDispatch" THEN Steps
    ELSE IF status \in Steps THEN Before(status) \cup {status}
    ELSE {}

\* Whatever order the operations are called in, and however often, a package
\* of the Map has completed every step that its status and its other steps
\* presuppose: none is packed before its scan, none is ready without all four.
StatusBacked ==
    \A p \in Packages :
        /\ Required(flow[p].status) \subseteq flow[p].done
        /\ \A step \in flow[p].done : Before(step) \subseteq flow[p].done

\* A row that says readyForDispatch was earned, unless it is still as the seed left it:
\* all the operations before were accepted for that package at some time, though late,
\* lost and reordered UPDATEs and restarts leave the row otherwise unrelated to the Map.
ReadyRowEarned ==
    \A p \in Packages \ (devPackages \cup seeded) :
        row[p].status = "readyForDispatch" =>
            Steps \cup {"readyForDispatch"} \subseteq trail[p]

\* The warehouse keeps the promises of PackageChecklist; what it shows as ready are
\* the rows that its own UPDATEs have made so.
Checklist ==
    INSTANCE PackageChecklist WITH
        waived <- devPackages,
        checklist <- [p \in Packages |-> flow[p].done],
        cleared <- {p \in Packages : "readyForDispatch" \in trail[p]},
        published <- {p \in Packages \ seeded : row[p].status = "readyForDispatch"}

ImplementsChecklist == Checklist!ChecklistSpec

=============================================================================
