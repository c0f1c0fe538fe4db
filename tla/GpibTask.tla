------------------------------ MODULE GpibTask ------------------------------
(***************************************************************************)
(* The dispatcher, gpib/gpib_task.c, with what it drives: the printer      *)
(* capture of gpib/printer.c and the parallel poll register of             *)
(* gpib/gpib_hal.c.  Each action is one byte from the bus, handled to the  *)
(* end.  What a disk does when it is called is in Ss80 and Amigo; here it  *)
(* turns its parallel poll response off, and perhaps on again.             *)
(***************************************************************************)
EXTENDS Integers, Sequences

CONSTANTS
  SS80s, AMIGOs, Printers,  \* the emulated devices, by address
  Others,          \* the addresses of everybody else, the controller included
  FirstSs80, FirstAmigo,    \* the first of each in Devices[]
  Ppr,             \* Ppr[d]: the poll bit of disk d
  REVERSE,         \* PPR_REVERSE_BITS
  Secondaries,     \* the secondary commands the host sends
  BufSize,         \* 512: plot.size
  MaxPrinted,      \* a bound on the bytes printed
  Orderly,         \* does the host name the talker before the printer is to
                   \* listen, and leave talker and devices alone until it unlistens?
  FileFaults,      \* may opening or writing a capture file fail?
  None, UNT        \* no address; the untalk address

Disks == SS80s \cup AMIGOs
Devices == Disks \cup Printers
Addresses == Devices \cup Others
Bits == 0 .. 7

ASSUME GpibTaskAssumption ==
  /\ SS80s \cap AMIGOs = {} /\ Disks \cap Printers = {}
  /\ Others \cap Devices = {}
  /\ {None, UNT} \cap Addresses = {} /\ None # UNT
  /\ FirstSs80 \in SS80s /\ FirstAmigo \in AMIGOs
  /\ Ppr \in [Disks -> Bits]
  /\ \A c, d \in Disks : Ppr[c] = Ppr[d] => c = d
  /\ None \notin Secondaries
  /\ BufSize \in Nat \ {0} /\ MaxPrinted \in Nat
  /\ {REVERSE, Orderly, FileFaults} \subseteq BOOLEAN

VARIABLES
  talking, listening,
  secondary,   \* the secondary command not yet served, or None
  spoll,
  lastcmd,     \* was the byte before this one UNT?
  ss80, amigo, \* SS80s and AMIGOs: the disks last made active
  ppr,         \* _ppr_reg: its set bits
  asked,       \* the disks whose response is on, as the disks see it
  served,      \* how often the last secondary command was carried out
  plot,        \* the capture of the printer
  printed      \* how many bytes the host has sent to the printer

address == <<talking, listening, secondary, spoll, lastcmd>>
disk == <<ss80, amigo, ppr, asked, served>>
vars == <<address, disk, plot, printed>>

(***************************************************************************)
(* The poll register: ppr_set reverses what ppr_bit_set and ppr_bit_clr    *)
(* make of the register, which is reversed already.                        *)
(***************************************************************************)
Reversed(bits) == IF REVERSE THEN {7 - b : b \in bits} ELSE bits

BitSet(reg, d) == Reversed(reg \cup {Ppr[d]})

BitClrAll(reg, d) == Reversed({})  \* mutant: the other disks' responses go too

BitClr(reg, d) == Reversed(reg \ {Ppr[d]})

TurnsOff(d) == ppr' = BitClr(ppr, d) /\ asked' = asked \ {d}

TurnsOn(d) == ppr' = BitSet(ppr, d) /\ asked' = asked \cup {d}

(* A disk at work: off, and on again unless it fails or is a query.        *)
Works(d) ==
  \/ TurnsOff(d)
  \/ ppr' = BitSet(BitClr(ppr, d), d) /\ asked' = asked \cup {d}

(***************************************************************************)
(* The capture: what each call can make of the plot structure.             *)
(***************************************************************************)
NoPlot ==
  [file |-> FALSE,     \* is plot.fp a file?
   handles |-> 0,      \* how many capture files are open, lost ones included
   buf |-> << >>,      \* the first plot.ind bytes of plot.buf, 0 for a lost one
   alloc |-> FALSE,    \* is plot.buf allocated?
   size |-> 0,
   paper |-> << >>,    \* all that was written to capture files
   failed |-> FALSE]   \* has the file system or the heap failed?

Zeros(n) == [i \in 1 .. n |-> 0]

(* receive_plot_flush; a write that fails may have written some of it.     *)
Flushed(p, bytes) ==
  IF ~p.file \/ bytes = << >> THEN {p}
  ELSE {[p EXCEPT !.paper = @ \o bytes]} \cup
       {[p EXCEPT !.paper = @ \o SubSeq(bytes, 1, n), !.failed = TRUE] :
          n \in IF FileFaults THEN 0 .. Len(bytes) - 1 ELSE {}}

Closed(p) ==  \* printer_close
  {[q EXCEPT !.file = FALSE, !.buf = << >>, !.alloc = FALSE,
             !.handles = IF p.file THEN @ - 1 ELSE @] : q \in Flushed(p, p.buf)}

(* printer_open: the handle and the buffer of an open capture are lost,    *)
(* but plot.ind is not reset.                                              *)
Opened(p) ==
  LET fopen == [p EXCEPT !.file = TRUE, !.handles = @ + 1,
                         !.buf = Zeros(Len(p.buf))]
  IN {[fopen EXCEPT !.alloc = TRUE, !.size = BufSize]} \cup
     IF FileFaults
       THEN {[p EXCEPT !.file = FALSE, !.failed = TRUE]} \cup
            {[q EXCEPT !.size = BufSize, !.failed = TRUE] : q \in Closed(fopen)}
       ELSE {}

StoredKeepsInd(p, val) ==  \* mutant: a flush does not reset plot.ind
  LET full == Append(p.buf, val)
  IN IF Len(full) < p.size THEN {[p EXCEPT !.buf = full]}
     ELSE {[q EXCEPT !.buf = full] : q \in Flushed(p, full)}

(* printer_buffer.  Without a buffer the byte goes where a null pointer    *)
(* points: it is lost.                                                     *)
Stored(p, val) ==
  LET full == Append(p.buf, IF p.alloc THEN val ELSE 0)
  IN IF Len(full) < p.size THEN {[p EXCEPT !.buf = full]}
     ELSE {[q EXCEPT !.buf = << >>] : q \in Flushed(p, full)}

(***************************************************************************)
(* gpib_init_devices: at the start, on IFC, and when a key ends gpib_task  *)
(* (the console calls it again).                                           *)
(***************************************************************************)
Init ==
  /\ talking = None /\ listening = None /\ secondary = None
  /\ spoll = FALSE /\ lastcmd = FALSE
  /\ ss80 = FirstSs80 /\ amigo = FirstAmigo
  /\ ppr = {} /\ asked = {} /\ served = 0
  /\ plot = NoPlot /\ printed = 0

Reset ==
  /\ talking' = None /\ listening' = None /\ secondary' = None
  /\ spoll' = FALSE /\ lastcmd' = FALSE
  /\ ss80' = FirstSs80 /\ amigo' = FirstAmigo
  /\ ppr' = {} /\ asked' = {} /\ served' = 0
  /\ plot' \in Closed(plot)
  /\ UNCHANGED printed

(* X_is_MLA and X_is_MTA: a disk that finds itself addressed is active.    *)
Activate(a) ==
  /\ ss80' = IF a \in SS80s THEN a ELSE ss80
  /\ amigo' = IF a \in AMIGOs THEN a ELSE amigo

Unpolled == UNCHANGED <<ppr, asked>>
Unprinted == UNCHANGED <<plot, printed>>

(***************************************************************************)
(* GPIB_LISTEN and GPIB_TALK.                                              *)
(***************************************************************************)
(* listen_cleanup looks at the address that was listening until now.       *)
Cleaned == IF listening \in Printers THEN Closed(plot) ELSE {plot}

Unlisten ==
  /\ listening' = None
  /\ plot' \in Cleaned
  /\ lastcmd' = FALSE
  /\ UNCHANGED <<talking, secondary, spoll, disk, printed>>

ListenWithoutCleanup(a) ==  \* mutant: listen_cleanup only on UNL
  /\ listening' = a
  /\ Activate(a)
  /\ plot' \in IF a \in Printers /\ talking # UNT THEN Opened(plot) ELSE {plot}
  /\ lastcmd' = FALSE
  /\ UNCHANGED <<talking, secondary, spoll, served, printed>>
  /\ Unpolled

Listen(a) ==
  /\ listening' = a
  /\ Activate(a)
  /\ plot' \in IF a \in Printers /\ talking # UNT
                 THEN UNION {Opened(p) : p \in Cleaned} ELSE Cleaned
  /\ lastcmd' = FALSE
  /\ UNCHANGED <<talking, secondary, spoll, served, printed>>
  /\ Unpolled

Printing == listening \in Printers

Untalk ==
  /\ Orderly => ~Printing
  /\ talking' = UNT
  /\ lastcmd' = TRUE
  /\ UNCHANGED <<listening, secondary, spoll, disk, plot, printed>>

Talk(a) ==
  /\ Orderly /\ Printing => talking = UNT /\ a \in Others
  /\ talking' = a
  /\ Activate(a)
  /\ plot' \in IF a \in Others /\ Printing THEN Opened(plot) ELSE {plot}
  /\ lastcmd' = FALSE
  /\ UNCHANGED <<listening, secondary, spoll, served, printed>>
  /\ Unpolled

(***************************************************************************)
(* GPIB: the commands below 20H.                                           *)
(***************************************************************************)
SerialPollEnable ==  \* an SS80 that talks reports at once
  /\ spoll' = TRUE /\ lastcmd' = FALSE
  /\ ss80' = IF talking \in SS80s THEN talking ELSE ss80
  /\ UNCHANGED <<talking, listening, secondary, amigo, served>>
  /\ Unpolled /\ Unprinted

SerialPollDisable ==  \* PPC and PPU do the same
  /\ spoll' = FALSE /\ lastcmd' = FALSE
  /\ UNCHANGED <<talking, listening, secondary, disk>>
  /\ Unprinted

SelectedDeviceClear ==
  /\ Activate(listening)
  /\ IF listening \in Disks THEN TurnsOn(listening) ELSE Unpolled
  /\ lastcmd' = FALSE
  /\ UNCHANGED <<talking, listening, secondary, spoll, served>>
  /\ Unprinted

DeviceClear ==  \* only the active disks are cleared
  /\ Orderly => ~Printing
  /\ ppr' = BitSet(BitSet(ppr, ss80), amigo)
  /\ asked' = asked \cup {ss80, amigo}
  /\ plot' \in Closed(plot)
  /\ lastcmd' = FALSE
  /\ UNCHANGED <<talking, listening, secondary, spoll, ss80, amigo, served,
                 printed>>

(***************************************************************************)
(* GPIB_COMMANDS: the secondary command goes to the listener, if anybody   *)
(* is to talk, or else to the talker.                                      *)
(***************************************************************************)
Both(devs) == (listening \in devs /\ talking # UNT) \/
              (talking \in devs /\ ~(listening \in Devices /\ talking # UNT))

(* Amigo_COMMANDS: Execute and messages; a disk that is both is a talker.  *)
AmigoCommands(s, n) ==
  LET talks == talking \in AMIGOs
      d == IF talks THEN talking ELSE listening
      runs == \/ s \in {"60H", "68H"}
              \/ s \in {"69H", "6AH", "6CH"} /\ ~talks
              \/ s = "70H" /\ talks
  IN /\ amigo' = d
     /\ served' = IF runs THEN n + 1 ELSE n
     /\ IF runs THEN Works(d) ELSE Unpolled
     /\ UNCHANGED ss80

(* SS80_COMMANDS: Command and Transparent are for listeners, Execute for   *)
(* whoever it is, 70H is a report of a talker and a clear of a listener.   *)
Ss80Commands(s, n) ==
  LET listens == listening \in SS80s
      talks == talking \in SS80s
      d == IF talks /\ (~listens \/ s \notin {"65H", "6EH", "72H"})
             THEN talking ELSE listening
      runs == s \in {"6EH", "70H"} \/ (s \in {"65H", "72H"} /\ listens)
  IN /\ ss80' = d
     /\ served' = IF runs THEN n + 1 ELSE n
     /\ IF ~runs \/ (s = "70H" /\ talks) THEN Unpolled ELSE Works(d)
     /\ UNCHANGED amigo

CommandsKeepSecondary(s, n) ==  \* mutant: secondary stays
  /\ secondary' = s
  /\ \/ Both(AMIGOs) /\ AmigoCommands(s, n)
     \/ Both(SS80s) /\ Ss80Commands(s, n)
     \/ ~Both(Disks) /\ served' = n /\ UNCHANGED <<ss80, amigo>> /\ Unpolled

GpibCommands(s, n) ==
  /\ secondary' = IF Both(Devices) THEN None ELSE s
  /\ \/ Both(AMIGOs) /\ AmigoCommands(s, n)
     \/ Both(SS80s) /\ Ss80Commands(s, n)
     \/ ~Both(Disks) /\ served' = n /\ UNCHANGED <<ss80, amigo>> /\ Unpolled

(***************************************************************************)
(* The secondary commands, and the data bytes.                             *)
(***************************************************************************)
Identifies == listening # None /\ lastcmd

Secondary(s) ==
  /\ ~Identifies
  /\ GpibCommands(s, 0)
  /\ lastcmd' = FALSE
  /\ UNCHANGED <<talking, listening, spoll>>
  /\ Unprinted

(* GPIB_SECONDARY_ADDRESS: right after UNT the byte is an address.         *)
SecondaryAddress(a) ==
  /\ Identifies
  /\ secondary' = None
  /\ Activate(a)
  /\ IF a \in Disks THEN TurnsOff(a) ELSE Unpolled
  /\ lastcmd' = FALSE
  /\ UNCHANGED <<talking, listening, spoll, served>>
  /\ Unprinted

(* A byte for the printer.                                                 *)
PrinterData ==
  /\ Printing
  /\ Orderly => talking \in Others \cup {None}
  /\ printed < MaxPrinted
  /\ printed' = printed + 1
  /\ plot' \in Stored(plot, printed')
  /\ lastcmd' = FALSE
  /\ UNCHANGED <<talking, listening, secondary, spoll, disk>>

(* A byte for a command that waits for it: it is put back, and the command *)
(* carried out.                                                            *)
Data ==
  /\ ~Printing
  /\ secondary # None
  /\ GpibCommands(secondary, served)
  /\ lastcmd' = FALSE
  /\ UNCHANGED <<talking, listening, spoll>>
  /\ Unprinted

Skip ==  \* nobody wants the byte
  /\ ~Printing
  /\ secondary = None
  /\ lastcmd' = FALSE
  /\ UNCHANGED <<talking, listening, secondary, spoll, disk>>
  /\ Unprinted

Next ==
  \/ Reset \/ Unlisten \/ Untalk
  \/ \E a \in Addresses : Listen(a) \/ Talk(a) \/ SecondaryAddress(a)
  \/ SerialPollEnable \/ SerialPollDisable
  \/ SelectedDeviceClear \/ DeviceClear
  \/ \E s \in Secondaries : Secondary(s)
  \/ PrinterData \/ Data \/ Skip

Spec == Init /\ [][Next]_vars

(***************************************************************************)
(* Correctness.                                                            *)
(***************************************************************************)
Plots ==
  [file : BOOLEAN, handles : Nat, buf : Seq(0 .. MaxPrinted), alloc : BOOLEAN,
   size : {0, BufSize}, paper : Seq(0 .. MaxPrinted), failed : BOOLEAN]

TypeOK ==
  /\ talking \in Addresses \cup {None, UNT}
  /\ listening \in Addresses \cup {None}
  /\ secondary \in Secondaries \cup {None}
  /\ spoll \in BOOLEAN /\ lastcmd \in BOOLEAN
  /\ ss80 \in SS80s /\ amigo \in AMIGOs
  /\ ppr \subseteq Bits
  /\ asked \subseteq Disks
  /\ served \in Nat
  /\ plot \in Plots
  /\ printed \in 0 .. MaxPrinted

(* A secondary command is carried out at most once, however it, the        *)
(* addresses and the data it needs follow each other.                      *)
ServedOnce == served <= 1

(* A parallel poll is answered by those disks that have turned their       *)
(* response on and not off since, each on its own line.                    *)
PollLines == Reversed(ppr) = {Ppr[d] : d \in asked}

(* Unless the file system or the heap fails, every byte the printer was    *)
(* sent is in a capture file or will be written to it, once and in order.  *)
PrintedIsCaptured ==
  ~plot.failed => plot.paper \o plot.buf = [i \in 1 .. printed |-> i]

(* listen_cleanup closes the capture at the end of any listen transition:  *)
(* no file is open while no printer listens.                               *)
CapturesClosed == ~Printing => plot.handles = 0
=============================================================================
