------------------------------- MODULE MCSs80 -------------------------------
(* Instances of Ss80: blocks of two bytes, a disk of three blocks.         *)
EXTENDS Ss80
=============================================================================
