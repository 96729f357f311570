---------------------------- MODULE StateTables ----------------------------
(***************************************************************************)
(* The tables of StateMachineService (shipments/state-machine.service.ts)  *)
(* as sets of pairs <<from, to>>.  Statuses have the values of the enums.  *)
(***************************************************************************)
EXTENDS Naturals, Sequences, FiniteSets

\* The steps along a path of statuses.
Along(path) == {<<path[i], path[i + 1]>> : i \in 1 .. Len(path) - 1}

orderTransitions ==
    Along(<<"draft", "quoted", "booked", "payment_pending", "payment_authorized",
            "inventory_reserved", "warehouse_processing", "ready_for_dispatch",
            "transport_planned", "driver_assigned", "picked_up", "in_transit",
            "out_for_delivery", "delivered", "proof_accepted", "settlement_pending",
            "completed">>)
    \cup Along(<<"out_for_delivery", "delivery_attempted", "out_for_delivery">>)
    \cup {"draft", "quoted", "booked", "payment_pending", "delivery_attempted"} \X {"cancelled"}

shipmentTransitions ==
    Along(<<"created", "awaiting_dispatch", "planned", "assigned", "pickup_scheduled",
            "picked_up", "in_transit", "at_hub", "sorted", "out_for_delivery", "delivered">>)
    \cup {"in_transit"} \X {"out_for_delivery", "failed", "lost", "damaged"}
    \cup {"pickup_scheduled", "out_for_delivery"} \X {"failed"}
    \cup {"failed", "out_for_delivery", "damaged"} \X {"returned"}
    \cup {<<"failed", "planned">>}

paymentTransitions ==
    Along(<<"pending", "authorized", "captured", "held_in_escrow", "partially_released",
            "released", "chargeback">>)
    \cup {"pending", "authorized"} \X {"failed"}
    \cup {"captured", "held_in_escrow"} \X {"refunded", "chargeback"}
    \cup {"held_in_escrow"} \X {"released", "partially_refunded"}
    \cup Along(<<"partially_released", "partially_refunded", "refunded">>)

Resolutions == {"resolved_customer", "resolved_merchant", "resolved_driver", "resolved_platform"}

disputeTransitions ==
    Along(<<"none", "opened", "evidence_collecting", "under_review", "decision_pending">>)
    \cup {"decision_pending"} \X Resolutions
    \cup Resolutions \X {"closed"}

returnTransitions ==
    Along(<<"return_requested", "return_approved", "return_pickup_planned", "return_picked_up",
            "return_received", "inspection_pending", "refund_pending", "refund_completed",
            "closed">>)
    \cup Along(<<"return_requested", "return_rejected", "closed">>)
    \cup {"inspection_pending"} \X {"restocked", "discarded"}
    \cup {"restocked", "discarded"} \X {"closed"}

-----------------------------------------------------------------------------
\* The statuses a table mentions; not_required of the payments is in no pair.
Statuses(table) == {pair[1] : pair \in table} \cup {pair[2] : pair \in table}

OrderStatus == Statuses(orderTransitions)
ReturnStatus == Statuses(returnTransitions)

\* assertTransition: one of the successors that the table lists.
Allowed(table, from, to) == <<from, to>> \in table

Final(table) == {s \in Statuses(table) : \A pair \in table : pair[1] # s}

\* Two steps of a relation in one.
Twice(steps) ==
    {<<two[1][1], two[2][2]>> : two \in {pair \in steps \X steps : pair[1][2] = pair[2][1]}}

\* What can become what in any number of allowed steps: 32 are more than any of
\* the tables has statuses.
LeadsTo(table) ==
    Twice(Twice(Twice(Twice(Twice(table \cup {<<s, s>> : s \in Statuses(table)})))))

Reachable(table, from) == {s \in Statuses(table) : <<from, s>> \in LeadsTo(table)}

Without(table, status) == {pair \in table : status \notin {pair[1], pair[2]}}

-----------------------------------------------------------------------------
(* What the tables promise; constant, so that an ASSUME of MCShipment-      *)
(* Operations has them evaluated.                                          *)

\* Every status of the five tables can come up, and none is a dead end but those
\* in which a case is over, which can be reached from everywhere.
TablesLeadHome ==
    \A t \in {[table |-> orderTransitions, first |-> "draft", over |-> {"completed", "cancelled"}],
              [table |-> shipmentTransitions, first |-> "created",
               over |-> {"delivered", "returned", "lost"}],
              [table |-> paymentTransitions, first |-> "pending",
               over |-> {"refunded", "chargeback", "failed"}],
              [table |-> disputeTransitions, first |-> "none", over |-> {"closed"}],
              [table |-> returnTransitions, first |-> "return_requested", over |-> {"closed"}]} :
        /\ Final(t.table) = t.over
        /\ Reachable(t.table, t.first) = Statuses(t.table)
        /\ \A s \in Statuses(t.table) : Reachable(t.table, s) \cap t.over # {}

\* No way through a table goes around a milestone: no order is completed without
\* an authorised payment, a pickup and an accepted proof, none is cancelled once
\* it was delivered; no payment is released without having been held in escrow;
\* no dispute is closed without a review; no return is refunded uninspected.
MilestonesCannotBeSkipped ==
    /\ \A milestone \in {"payment_authorized", "picked_up", "proof_accepted"} :
           "completed" \notin Reachable(Without(orderTransitions, milestone), "draft")
    /\ "cancelled" \notin Reachable(orderTransitions, "delivered")
    /\ "released" \notin Reachable(Without(paymentTransitions, "held_in_escrow"), "pending")
    /\ "closed" \notin Reachable(Without(disputeTransitions, "under_review"), "none")
    /\ "refund_pending" \notin
           Reachable(Without(returnTransitions, "inspection_pending"), "return_requested")

=============================================================================
