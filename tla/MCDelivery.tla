----------------------------- MODULE MCDelivery -----------------------------
(* Instances of OperationDelivery for TLC; the configurations differ in the  *)
(* failures they allow.                                                      *)
EXTENDS OperationDelivery
=============================================================================
