--------------------------- MODULE MCWarehouseFlow ---------------------------
(* A small instance of WarehouseFlow: one package, ordinary or one that       *)
(* isSafeDevPackage lets skip its steps.  Packages share nothing but the      *)
(* restart of the process.                                                    *)
EXTENDS WarehouseFlow

=============================================================================
