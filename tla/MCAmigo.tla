------------------------------- MODULE MCAmigo -------------------------------
(* Instances of Amigo: two cylinders, two heads, two sectors per track.     *)
EXTENDS Amigo

(* The first sector, one the overflow check carries into the next head,    *)
(* one it carries into the next cylinder, the last, and one past the end.  *)
Somewhere ==
  {[cyl |-> 0, head |-> 0, sector |-> 0], [cyl |-> 1, head |-> 0, sector |-> 2],
   [cyl |-> 0, head |-> 1, sector |-> 2], [cyl |-> 1, head |-> 1, sector |-> 1],
   [cyl |-> 1, head |-> 1, sector |-> 2]}

(* What the theorems assume; the last product is just IntMax.              *)
ASSUME FitsExactly ==
  GeometryFitsBytes /\ ProductsFit /\ Cylinder * (Cylinders - 1) = IntMax

(* A head the disk has not, in a sector it has.                            *)
Beyond == {[cyl |-> 1, head |-> 2, sector |-> 0]}
=============================================================================
