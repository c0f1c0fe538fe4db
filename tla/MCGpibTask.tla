----------------------------- MODULE MCGpibTask -----------------------------
(* Instances of GpibTask: disks on three poll lines, a printer, and *)
(* the controller.                                                          *)
EXTENDS GpibTask, TLC

CONSTANTS s1, s2, a1, pr, ctl

PprOf == s1 :> 0 @@ s2 :> 2 @@ a1 :> 1
=============================================================================
