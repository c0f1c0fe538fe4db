----------------------------- MODULE SectorDisk ------------------------------
(***************************************************************************)
(* What an AMIGO disk promises its host: the sectors are one line, a seek  *)
(* goes to any of them, and each transfer moves one sector at the current  *)
(* position and goes on to the next.  A transfer that fails, or runs off   *)
(* the last sector, raises a fault that stays until the host is told of    *)
(* it, or starts afresh.                                                   *)
(***************************************************************************)
EXTENDS Integers

CONSTANTS Total,  \* the number of sectors
          Data,   \* what a sector can hold
          Blank   \* what it holds at first

Sectors == 0 .. Total - 1

VARIABLES at,       \* the current sector
          content,  \* content[s]: what sector s holds
          fault     \* the host has to ask what went wrong

vars == <<at, content, fault>>

Init ==
  /\ at = 0
  /\ content = [s \in Sectors |-> Blank]
  /\ fault = TRUE

Seek ==
  /\ at' \in Sectors
  /\ fault' \in {fault, FALSE}
  /\ UNCHANGED content

Advance ==
  \/ at + 1 \in Sectors /\ at' = at + 1 /\ UNCHANGED fault
  \/ at + 1 \notin Sectors /\ at' = at /\ fault' = TRUE

Read == Advance /\ UNCHANGED content

Put(d) == content' = [content EXCEPT ![at] = d]

Write == Advance /\ \E d \in Data : Put(d)

(* Formatting writes the sectors one after the other and ends at the first. *)
FormatSector ==
  /\ \E d \in Data : Put(d)
  /\ \/ at + 1 \in Sectors /\ at' = at + 1 /\ UNCHANGED fault
     \/ at + 1 \notin Sectors /\ at' = 0 /\ fault' = FALSE

(* A failure may leave the current sector half written.                    *)
Fail ==
  /\ fault' = TRUE
  /\ at' = at
  /\ UNCHANGED content \/ \E d \in Data : Put(d)

Restart ==
  /\ at' = 0
  /\ fault' \in BOOLEAN
  /\ UNCHANGED content \/ \E d \in Data : Put(d)

Told == fault' = FALSE /\ UNCHANGED <<at, content>>

Next == Seek \/ Read \/ Write \/ FormatSector \/ Fail \/ Restart \/ Told

Spec == Init /\ [][Next]_vars
=============================================================================
