--------------------------- MODULE MCEscrowLedger ---------------------------
(* A small instance of EscrowLedger.  The releases: one that is in order, one *)
(* during a dispute, and one that only a development id lets pass.  A         *)
(* decision may be a text that is no status.                                  *)
EXTENDS EscrowLedger

CONSTANTS shipment, devShipment, account

MCReleases ==
    {[account |-> account, shipment |-> shipment, amount |-> 1, proofAccepted |-> TRUE,
      dispute |-> "none", windowPassed |-> TRUE, payment |-> "held"],
     [account |-> account, shipment |-> shipment, amount |-> 1, proofAccepted |-> TRUE,
      dispute |-> "active", windowPassed |-> TRUE, payment |-> "held"],
     [account |-> account, shipment |-> devShipment, amount |-> 1, proofAccepted |-> FALSE,
      dispute |-> "closed", windowPassed |-> FALSE, payment |-> "notRequired"]}

=============================================================================
