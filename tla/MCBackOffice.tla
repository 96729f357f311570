---------------------------- MODULE MCBackOffice ----------------------------
(* A small instance of BackOffice: two requests at the same time, one row of  *)
(* each table, an approver who is a user and one who is not; four calls, so   *)
(* that a challenge can be made and asked for three times.  The statuses      *)
(* asked for a return: one that ends it early, and a text that is none.       *)
EXTENDS BackOffice

=============================================================================
