---------------------------- MODULE MCHandshake ------------------------------
(* Instances of Handshake: who talks.                                      *)
EXTENDS Handshake, TLC

CONSTANTS ctl, d1, d2

(* The controller sends every byte: commands, or data for the devices.     *)
CtlTalks == [n \in Bytes |-> ctl]

(* The controller addresses d1, d1 answers, the controller goes on.        *)
DeviceAnswers == [n \in Bytes |-> IF n = 2 THEN d1 ELSE ctl]
==============================================================================
