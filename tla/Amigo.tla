-------------------------------- MODULE Amigo --------------------------------
(***************************************************************************)
(* One emulated AMIGO disk, gpib/amigo.c, as the host sees it through the  *)
(* secondary commands: a message (68H to 6CH, listening) seeks, verifies,  *)
(* formats, or says what the next Execute (60H, or 68H talking) shall do;  *)
(* 70H, talking, sends the DSJ byte.                                       *)
(*                                                                         *)
(* The sectors of a verify and of a format are steps of their own; every   *)
(* other handler is one step.  The bus and the image file are the          *)
(* environment, as in Ss80.  What a status or an address message says is   *)
(* left out, but for its effect on DSJ and Errors.                         *)
(***************************************************************************)
EXTENDS Integers

CONSTANTS
  Cylinders, Heads, SectorsPerTrack,  \* AMIGOp->GEOMETRY
  Byte,         \* 256: where a uint8_t wraps
  IntMax,       \* 32767: the largest int, and what an int16_t can hold
  Reach,        \* 2^24: the sectors whose bytes a DWORD can count
  Targets,      \* the positions the host may seek to
  Counts,       \* how many sectors the host may verify
  Units,        \* the unit numbers the host may name
  HostData,     \* what the host may write into a sector
  Torn,         \* what a write leaves that fails, or that a key cuts short
  Blank,        \* what the sectors hold at first
  DiskFaults,   \* may an access to the image file fail, or the card be full?
  Timeouts,     \* may a bus transfer time out?
  Resets        \* may the host pull IFC, or a key be hit?

Bytes == 0 .. Byte - 1
Positions == [cyl : Bytes, head : Bytes, sector : Bytes]
Geometry == [cyl : 0 .. Cylinders - 1, head : 0 .. Heads - 1,
             sector : 0 .. SectorsPerTrack - 1]

ASSUME AmigoAssumption ==
  /\ IntMax \in Nat /\ Reach \in Nat /\ 4 * (IntMax + 1) <= Reach
  /\ {Cylinders, Heads, SectorsPerTrack} \subseteq 1 .. IntMax
  /\ Byte \in Nat \ {0}
  /\ Targets \subseteq Positions
  /\ Counts \subseteq Nat
  /\ Units \subseteq 0 .. Byte - 1
  /\ {DiskFaults, Timeouts, Resets} \subseteq BOOLEAN

VARIABLES
  phase,   \* "task": in gpib_task; else the loop that is running
  left,    \* sectors: what is left to verify
  state,   \* what the next Execute does: AMIGOs->state
  pos,     \* AMIGOs->cyl, head and sector
  unitNO,
  dsj,     \* 0 fine, 1 a fault, 2 power-on
  errors,  \* AMIGOs->Errors
  ppr,     \* the device has asked for its parallel poll response
  size,    \* how many sectors the image file holds
  image,   \* image[s]: what sector s of the disk holds
  owed     \* a transfer has failed since the host last asked for DSJ or status

file == <<size, image>>
vars == <<phase, left, state, pos, unitNO, dsj, errors, ppr, file, owed>>

Track == SectorsPerTrack
Cylinder == SectorsPerTrack * Heads
Total == Cylinder * Cylinders
Disk == 0 .. Total - 1
Data == HostData \cup {Torn}

(* What an int keeps of a product, when the compiler lets it wrap.         *)
Wrapped(n) == ((n + IntMax + 1) % (2 * (IntMax + 1))) - (IntMax + 1)

(* amigo_chs_to_logical, in sectors: the products are ints, which are cast *)
(* to long too late, and the sum is a DWORD.                               *)
Lba(p) ==
  (Wrapped(Track * p.head) + Wrapped(Wrapped(Cylinder) * p.cyl) + p.sector) % Reach

Larger(m, n) == IF m < n THEN n ELSE m

(***************************************************************************)
(* amigo_overflow_check: only a sector beyond its track carries.           *)
(***************************************************************************)
NormalKeepsHead(p) ==  \* mutant: no carry into the head
  IF p.sector < Track THEN p
  ELSE [cyl |-> p.cyl, head |-> p.head, sector |-> 0]

Normal(p) ==
  LET head == (p.head + 1) % Byte
  IN IF p.sector < Track THEN p
     ELSE IF head < Heads
       THEN [cyl |-> p.cyl, head |-> head, sector |-> 0]
       ELSE [cyl |-> (p.cyl + 1) % Byte, head |-> 0, sector |-> 0]

Overflows(p) ==
  /\ p.sector >= Track
  /\ (p.head + 1) % Byte >= Heads
  /\ (p.cyl + 1) % Byte >= Cylinders

NextSector(p) ==
  [cyl |-> p.cyl, head |-> p.head, sector |-> (p.sector + 1) % Byte]

AtEnd == Overflows(NextSector(pos))

AdvanceAnyway ==  \* mutant: an overflowing position is kept
  pos' = Normal(NextSector(pos))

Advance ==  \* amigo_increment
  pos' = IF AtEnd THEN pos ELSE Normal(NextSector(pos))

(***************************************************************************)
(* amigo_init at power-on, and from gpib_init_devices on IFC or a key.     *)
(***************************************************************************)
Start == [cyl |-> 0, head |-> 0, sector |-> 0]

Init ==
  /\ phase = "task" /\ left = 0
  /\ state = "IDLE"
  /\ pos = Start
  /\ unitNO = 0 /\ dsj = 2 /\ errors = {} /\ ppr = FALSE
  /\ size = Total
  /\ image = [s \in Disk |-> Blank]
  /\ owed = FALSE

Restarted ==
  /\ Resets
  /\ phase = "task"
  /\ state' = "IDLE"
  /\ pos' = Start
  /\ unitNO' = 0 /\ dsj' = 2 /\ errors' = {} /\ ppr' = FALSE
  /\ owed' = FALSE
  /\ UNCHANGED <<phase, left>>

Restart == Restarted /\ UNCHANGED file

(* What a handler that runs between two bytes of gpib_task leaves alone.   *)
AtTask == phase = "task" /\ UNCHANGED <<phase, left>>

Quiet == UNCHANGED <<state, pos, unitNO, dsj, errors, file, owed>>

Fault(e) == dsj' = 1 /\ errors' = e
Forgotten == dsj' = 0 /\ errors' = {} /\ owed' = FALSE

(* amigo_check_unit; 15 names the unit in use.                             *)
UnitChecked(u) == IF u = 15 THEN unitNO ELSE u
UnitError(u) == IF UnitChecked(u) = 0 THEN {} ELSE {"UNIT"}

(***************************************************************************)
(* Messages (Amigo_Command).                                               *)
(***************************************************************************)
(* The message cannot be read, or is empty: the poll response stays off.   *)
MessageFails ==
  /\ AtTask
  /\ Timeouts
  /\ Fault(errors \cup {"GPIB"})
  /\ ppr' = FALSE
  /\ owed' = TRUE
  /\ UNCHANGED <<state, pos, unitNO, file>>

(* amigo_seek, with what dsj and Errors are before it.                     *)
SeekTo(p, d, e, o) ==
  /\ ppr' = TRUE
  /\ \/ Overflows(p) /\ Fault(e \cup {"SEEK"}) /\ owed' = TRUE /\ UNCHANGED pos
     \/ /\ ~Overflows(p)
        /\ pos' = Normal(p)
        /\ dsj' = d /\ errors' = e /\ owed' = o

Seek ==  \* 02H
  /\ AtTask
  /\ \E u \in Units, p \in Targets :
       /\ unitNO' = UnitChecked(u)
       /\ SeekTo(p, dsj, errors \cup UnitError(u), owed)
  /\ UNCHANGED <<state, file>>

ColdLoad ==  \* 00H
  /\ AtTask
  /\ unitNO' = 0
  /\ \E p \in Targets : p.cyl = 0 /\ SeekTo(p, 0, {}, FALSE)
  /\ state' = "COLD_LOAD_READ"
  /\ UNCHANGED file

Named(u) == unitNO' = UnitChecked(u) /\ errors' = errors \cup UnitError(u)

SetsState ==  \* 03H, 05H, 08H, 0BH and 2BH
  /\ AtTask
  /\ \E u \in Units : Named(u)
  /\ state' \in {"REQUEST_STATUS", "READ", "WRITE"}
  /\ ppr' = TRUE
  /\ UNCHANGED <<pos, dsj, file, owed>>

RequestLogicalAddress ==  \* 14H
  /\ AtTask
  /\ state' = "REQUEST_LOGICAL_ADDRESS"
  /\ ppr' = TRUE
  /\ UNCHANGED <<pos, unitNO, dsj, errors, file, owed>>

Todo ==  \* an opcode, or an Execute, nobody has written code for
  /\ AtTask
  /\ ppr' = TRUE
  /\ Quiet

(***************************************************************************)
(* amigo_verify and amigo_format, sector by sector.                        *)
(***************************************************************************)
VerifyBegins ==
  /\ phase = "task"
  /\ \E u \in Units : Named(u)
  /\ left' \in Counts
  /\ phase' = "verify"
  /\ ppr' = FALSE
  /\ UNCHANGED <<state, pos, dsj, file, owed>>

LoopEndsUnheard ==  \* mutant: the poll response stays as it is
  phase' = "task" /\ left' = 0 /\ UNCHANGED ppr

LoopEnds == phase' = "task" /\ left' = 0 /\ ppr' = TRUE

(* What dbf_open_read and dbf_open_write leave in Errors when they fail.   *)
DiskErrors == {{"DISK", "READ"}, {"SEEK", "READ"}, {"READ"}, {"DISK"}}

(* f_lseek makes a file that is too short as long as it has to be, or as   *)
(* there is room for it on the card.                                       *)
LseekGrows == size' \in size .. Larger(size, Lba(pos))

ReadFails(e) ==
  /\ \/ DiskFaults /\ e \in DiskErrors
     \/ Lba(pos) >= size /\ e = {"READ"}
  /\ LseekGrows
  /\ UNCHANGED image

VerifySector ==
  /\ phase = "verify" /\ left > 0 /\ Lba(pos) < size /\ ~AtEnd
  /\ Advance
  /\ left' = left - 1
  /\ UNCHANGED <<phase, state, unitNO, dsj, errors, ppr, file, owed>>

VerifyFails ==
  /\ phase = "verify" /\ left > 0
  /\ \E e \in DiskErrors : ReadFails(e) /\ Fault(e \cup {"READ"})
  /\ owed' = TRUE
  /\ LoopEnds
  /\ UNCHANGED <<state, pos, unitNO>>

(* All is verified, or the last sector is: neither dsj nor Errors tells.   *)
VerifyEnds ==
  /\ phase = "verify"
  /\ left = 0 \/ (AtEnd /\ Lba(pos) < size)
  /\ LoopEnds
  /\ Quiet

FormatBegins ==
  /\ phase = "task"
  /\ \E u \in Units : Named(u)
  /\ phase' = "format"
  /\ pos' = Start
  /\ ppr' = FALSE
  /\ UNCHANGED <<left, state, dsj, file, owed>>

(* The sector at pos is written, beyond the end of the disk or not.        *)
Store(d) ==
  /\ size' = Larger(size, Lba(pos) + 1)
  /\ image' = [image EXCEPT ![Lba(pos)] = d]

FormatSector ==
  /\ phase = "format" /\ ~AtEnd
  /\ \E d \in HostData : Store(d)
  /\ Advance
  /\ UNCHANGED <<phase, left, state, unitNO, dsj, errors, ppr, owed>>

FormatEnds ==  \* the overflow after the last sector; Errors stays
  /\ phase = "format" /\ AtEnd
  /\ \E d \in HostData : Store(d)
  /\ pos' = Start
  /\ dsj' = 0 /\ owed' = FALSE
  /\ LoopEnds
  /\ UNCHANGED <<state, unitNO, errors>>

WriteFails(e) ==
  /\ DiskFaults
  /\ e \in DiskErrors
  /\ (LseekGrows /\ UNCHANGED image) \/ Store(Torn)

FormatFails ==
  /\ phase = "format"
  /\ \E e \in DiskErrors : WriteFails(e) /\ Fault(e \cup {"WRITE"})
  /\ owed' = TRUE
  /\ LoopEnds
  /\ UNCHANGED <<state, pos, unitNO>>

(***************************************************************************)
(* Amigo_Execute.  The assignments that would set the state back to IDLE   *)
(* are never reached: every case returns.                                  *)
(***************************************************************************)
Execute(states) ==
  /\ AtTask
  /\ state \in states
  /\ UNCHANGED <<state, unitNO>>

Reads == {"COLD_LOAD_READ", "READ"}
Writes == {"WRITE"}

ExecuteIdle ==  \* the poll response stays off
  /\ Execute({"IDLE"})
  /\ ppr' = FALSE
  /\ UNCHANGED <<pos, dsj, errors, file, owed>>

(* A transfer is done: the position moves on, or has run off the disk.     *)
MovesOn ==
  /\ Advance
  /\ \/ AtEnd /\ Fault(errors \cup {"SEEK"})
     \/ ~AtEnd /\ UNCHANGED <<dsj, errors>>
  /\ ppr' = TRUE
  /\ UNCHANGED owed

BufferedRead ==
  /\ Execute(Reads)
  /\ Lba(pos) < size
  /\ MovesOn
  /\ UNCHANGED file

BufferedWrite ==
  /\ Execute(Writes)
  /\ \E d \in HostData : Store(d)
  /\ MovesOn

(* The bus fails, the last byte included, or the host's data is too short. *)
TransferTimesOut ==
  /\ Timeouts
  /\ Execute(Reads \cup Writes)
  /\ Fault(errors \cup {"GPIB"})
  /\ owed' = TRUE
  /\ ppr' = TRUE
  /\ \/ state \in Writes /\ UNCHANGED file
     \/ state \in Reads /\ Lba(pos) < size /\ UNCHANGED file
  /\ UNCHANGED pos

DiskFailsSilently ==  \* mutant: dsj is not set
  /\ Execute(Reads \cup Writes)
  /\ \E e \in DiskErrors :
       /\ \/ state \in Reads /\ ReadFails(e)
          \/ state \in Writes /\ WriteFails(e)
       /\ errors' = e
  /\ owed' = TRUE
  /\ ppr' = FALSE
  /\ UNCHANGED <<pos, dsj>>

DiskFails ==  \* the poll response stays off
  /\ Execute(Reads \cup Writes)
  /\ \E e \in DiskErrors :
       /\ \/ state \in Reads /\ ReadFails(e)
          \/ state \in Writes /\ WriteFails(e)
       /\ Fault(e)
  /\ owed' = TRUE
  /\ ppr' = FALSE
  /\ UNCHANGED pos

(* A key during a write: the bytes not waited for are stored as zeros, and *)
(* gpib_error_test resets the device.                                      *)
KeyDuringWrite ==
  /\ state \in Writes
  /\ Restarted
  /\ Store(Torn)

StatusKeepsDsj ==  \* mutant: Errors is cleared, dsj is not
  /\ Execute({"REQUEST_STATUS"})
  /\ errors' = {} /\ owed' = FALSE
  /\ ppr' = TRUE
  /\ UNCHANGED <<pos, dsj, file>>

(* amigo_send_status; the status is the one of the request.  A timeout on  *)
(* the last byte goes unnoticed: gpib_write_str counts the byte that fails. *)
SendStatus ==
  /\ Execute({"REQUEST_STATUS"})
  /\ \/ Forgotten
     \/ Timeouts /\ Fault(errors \cup {"GPIB"}) /\ UNCHANGED owed
  /\ ppr' = TRUE
  /\ UNCHANGED <<pos, file>>

SendLogicalAddress ==
  /\ Execute({"REQUEST_LOGICAL_ADDRESS"})
  /\ \/ UNCHANGED <<dsj, errors>>
     \/ Timeouts /\ errors' = errors \cup {"GPIB"} /\ dsj' \in {dsj, 1}
  /\ ppr' = TRUE
  /\ UNCHANGED <<pos, file, owed>>

(* amigo_cmd_dsj: the one byte looks sent even when nobody took it.  The   *)
(* poll response stays off.                                                *)
SendDsj ==
  /\ AtTask
  /\ Forgotten
  /\ ppr' = FALSE
  /\ UNCHANGED <<state, pos, unitNO, file>>

CmdClear ==  \* SDC and DCL
  /\ AtTask
  /\ pos' = Start
  /\ Forgotten
  /\ ppr' = TRUE
  /\ UNCHANGED <<state, unitNO, file>>

Identify ==  \* GPIB_SECONDARY_ADDRESS
  /\ AtTask
  /\ ppr' = FALSE
  /\ Quiet

Message ==
  \/ MessageFails \/ Seek \/ ColdLoad \/ SetsState \/ RequestLogicalAddress
  \/ Todo

Loop ==
  \/ VerifyBegins \/ VerifySector \/ VerifyFails \/ VerifyEnds
  \/ FormatBegins \/ FormatSector \/ FormatFails \/ FormatEnds

Transfer ==
  \/ ExecuteIdle \/ BufferedRead \/ BufferedWrite \/ TransferTimesOut
  \/ DiskFails \/ SendStatus \/ SendLogicalAddress \/ SendDsj

Next ==
  \/ Message \/ Loop \/ Transfer
  \/ CmdClear \/ Identify \/ Restart \/ KeyDuringWrite

Spec == Init /\ [][Next]_vars

(***************************************************************************)
(* Correctness.                                                            *)
(***************************************************************************)
States == {"IDLE", "REQUEST_STATUS", "REQUEST_LOGICAL_ADDRESS"}
            \cup Reads \cup Writes
ErrorNames == {"READ", "WRITE", "SEEK", "DISK", "GPIB", "UNIT"}

TypeOK ==
  /\ phase \in {"task", "verify", "format"}
  /\ left \in Nat
  /\ state \in States
  /\ pos \in Positions
  /\ unitNO \in Bytes
  /\ dsj \in 0 .. 2
  /\ errors \subseteq ErrorNames
  /\ ppr \in BOOLEAN /\ owed \in BOOLEAN
  /\ size \in Nat
  /\ image \in [Disk -> Data \cup {Blank}]

(* The host seeks to cylinders and heads the disk has; the sector may lie  *)
(* beyond its track, amigo_overflow_check carries it.                      *)
HostInGeometry ==
  \A p \in Targets : p.cyl < Cylinders /\ p.head < Heads

(* No uint8_t wraps on the way from one position of the disk to the next.  *)
GeometryFitsBytes ==
  SectorsPerTrack < Byte /\ Heads < Byte /\ Cylinders < Byte

(* Nor does a product for a position the disk can be at wrap as an int.    *)
ProductsFit ==
  \A p \in Geometry \cap Positions :
     Track * p.head <= IntMax /\ Cylinder * p.cyl <= IntMax

(* The position is one of the disk's, and no access makes the image file   *)
(* longer than the disk: a bad seek is not committed, and a transfer of    *)
(* the last sector does not move past it.                                  *)
InGeometry == pos \in Geometry /\ size = Total

(* A transfer that failed is not forgotten: DSJ is not 0 until the host    *)
(* has asked for it or for the status (whether the answer reached it or    *)
(* not), or has cleared, formatted or cold loaded the disk.                *)
FailureIsKept == owed => dsj # 0

(* The host learns by parallel poll that a verify or a format is over: the *)
(* disk does not answer while it is at work, and answers when the work     *)
(* ends, done, off the disk or broken off by a failure.                    *)
PollFollowsWork ==
  [][/\ phase' # "task" => ~ppr'
     /\ phase # "task" /\ phase' = "task" => ppr']_vars

(* A fault has a cause: the host that reads DSJ 1 and asks for the status  *)
(* finds an error there.                                                   *)
FaultHasCause == dsj = 1 => errors # {}

(* Cylinder, head and sector are no more than a way to write down where on *)
(* one line of sectors the disk is: the disk implements SectorDisk.        *)
Line == INSTANCE SectorDisk WITH
  at <- Lba(pos), content <- image, fault <- dsj # 0

ImplementsDisk == Line!Spec
=============================================================================
