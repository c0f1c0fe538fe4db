------------------------------ MODULE MCCard -------------------------------
(* Instances of Card.                                                      *)
EXTENDS Card
=============================================================================
