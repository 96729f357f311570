---------------------------- MODULE MCFulfilment ----------------------------
(* A small instance of Fulfilment: one shipment with one package.            *)
EXTENDS Fulfilment, TLC

CONSTANTS s1, p1

MCShipments == {s1}
MCContents == s1 :> {p1}

=============================================================================
