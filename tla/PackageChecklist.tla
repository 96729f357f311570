-------------------------- MODULE PackageChecklist --------------------------
(***************************************************************************)
(* What the warehouse promises about a package before dispatch, with no    *)
(* statuses, no asynchronous writes and no restarts:                       *)
(*                                                                         *)
(*   - the steps are ticked off in their order, unless the package is one  *)
(*     for which they are waived;                                          *)
(*   - a package is cleared only when its checklist is complete;           *)
(*   - the outside world is shown as ready only what has been cleared.     *)
(*                                                                         *)
(* WarehouseFlow implements this module.                                   *)
(***************************************************************************)
CONSTANTS Packages, Steps, Before(_)

VARIABLES
    waived,      \* packages whose steps may be waived; it never changes
    checklist,   \* checklist[p]: the steps ticked off
    cleared,     \* packages that were complete when a manager cleared them
    published    \* packages shown as ready for dispatch

checklistVars == <<waived, checklist, cleared, published>>

ChecklistInit ==
    /\ waived \subseteq Packages
    /\ checklist = [p \in Packages |-> {}]
    /\ cleared = {}
    /\ published = {}

\* A step is ticked off after the steps before it.
Tick(p, step) ==
    /\ Before(step) \subseteq checklist[p]
    /\ checklist' = [checklist EXCEPT ![p] = @ \cup {step}]
    /\ UNCHANGED <<waived, cleared, published>>

\* Steps are waived together with all that come before them.
Waive(p, step) ==
    /\ p \in waived
    /\ checklist' = [checklist EXCEPT ![p] = @ \cup Before(step) \cup {step}]
    /\ UNCHANGED <<waived, cleared, published>>

Clear(p) ==
    /\ p \in waived \/ checklist[p] = Steps
    /\ checklist' = [checklist EXCEPT ![p] = Steps]
    /\ cleared' = cleared \cup {p}
    /\ UNCHANGED <<waived, published>>

\* The process forgets the checklists, never what it has cleared.
Forget ==
    /\ checklist' = [p \in Packages |-> {}]
    /\ UNCHANGED <<waived, cleared, published>>

Publish(p) ==
    /\ p \in cleared
    /\ published' = published \cup {p}
    /\ UNCHANGED <<waived, checklist, cleared>>

Retract(p) ==
    /\ published' = published \ {p}
    /\ UNCHANGED <<waived, checklist, cleared>>

ChecklistNext ==
    \/ \E p \in Packages, step \in Steps : Tick(p, step) \/ Waive(p, step)
    \/ \E p \in Packages : Clear(p) \/ Publish(p) \/ Retract(p)
    \/ Forget

ChecklistSpec == ChecklistInit /\ [][ChecklistNext]_checklistVars

=============================================================================
