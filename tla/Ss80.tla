-------------------------------- MODULE Ss80 --------------------------------
(***************************************************************************)
(* One emulated SS80 disk, gpib/ss80.c, as the host sees it through the    *)
(* secondary commands that gpib_task dispatches: Command (65H), Execute    *)
(* (6EH), Report and Amigo Clear (70H), Transparent (72H), Identify, the   *)
(* device clears, and the reset that gpib_error_test does.                 *)
(*                                                                         *)
(* The opcodes of a message and the chunks of a transfer are steps of      *)
(* their own; every other handler is one step.  The bus (what              *)
(* gpib_read_str and gpib_write_str return) and the image file on the SD   *)
(* card (dbf_open_read, dbf_open_write) are the environment.               *)
(***************************************************************************)
EXTENDS Integers

CONSTANTS
  BytesPerBlock,  \* UNIT.BYTES_PER_BLOCK
  MaxBlock,       \* VOLUME.MAX_BLOCK_NUMBER: the last block
  Chunk,          \* 256: bytes per bus transfer and disk access
  Word,           \* 2^32: where a uint32_t wraps
  IntMax,         \* 2^15: where an int of the AVR wraps
  Blocks,         \* the block addresses the host may set
  Lengths,        \* the transfer lengths the host may set
  Units,          \* the unit numbers the host may set
  DiskFaults,     \* may an access to the image file fail?
  Timeouts,       \* may a bus transfer time out?
  LateTimeouts,   \* even on the last byte the device sends?
  IfcPulses,      \* may the host pull IFC?
  AtnAborts,      \* may the host cut a message short with a command?
  KeyHits         \* may a key be hit on the console?

ASSUME Ss80Assumption ==
  /\ {BytesPerBlock, Chunk, Word, IntMax} \subseteq Nat \ {0}
  /\ MaxBlock \in Nat
  /\ Blocks \subseteq 0 .. Word - 1
  /\ Lengths \subseteq 0 .. Word - 1
  /\ Units \subseteq 0 .. 15
  /\ {DiskFaults, Timeouts, LateTimeouts, IfcPulses, AtnAborts, KeyHits}
       \subseteq BOOLEAN

VARIABLES
  phase,          \* "task": in gpib_task; else the handler that is running
  estate, qstat, errors, unitNO, volNO, addressBlocks, length, \* SS80s
  ppr,            \* the device has asked for its parallel poll response
  unread,         \* gpib_unread_f: a command byte was put back
  key,            \* a key has been hit while the host was writing
  address, count, skip, \* Address, count, io_skip of the running transfer
  job,            \* the transfer the host last asked for and knows no end of:
                  \* job.stored are the image bytes that hold what it sent
  invented        \* image bytes overwritten with what no host ever sent

settings == <<estate, qstat, errors, unitNO, volNO, addressBlocks, length>>
locals == <<address, count, skip>>
ghosts == <<job, invented>>
vars == <<phase, settings, ppr, unread, key, locals, ghosts>>

ImageSize == (MaxBlock + 1) * BytesPerBlock
Image == 0 .. ImageSize - 1
NoJob == [op |-> "none", first |-> 0, want |-> 0, sent |-> 0, eoi |-> FALSE,
          stored |-> {}]

Blocks2Bytes(b) == (b * BytesPerBlock) % Word  \* SS80_Blocks_to_Bytes
Bytes2Blocks(n) == n \div BytesPerBlock        \* SS80_Bytes_to_Blocks

(* An int of the AVR has 16 bits.                                          *)
ToInt(n) == ((n + IntMax) % (2 * IntMax)) - IntMax

Smaller(m, n) == IF m < n THEN m ELSE n

(***************************************************************************)
(* Clears and power-on.                                                    *)
(***************************************************************************)
ClearCommon(u) ==
  IF u \in {unitNO, 15}
    THEN /\ unitNO' = IF u = 15 THEN 0 ELSE unitNO
         /\ volNO' = 0
         /\ addressBlocks' = 0
         /\ length' = 0
         /\ estate' = "IDLE"
         /\ errors' = {}
         /\ qstat' = 0
         /\ job' = NoJob
    ELSE UNCHANGED <<settings, job>>

Init ==
  /\ phase = "task"
  /\ estate = "IDLE" /\ qstat = 2 /\ errors = {}
  /\ unitNO = 0 /\ volNO = 0 /\ addressBlocks = 0 /\ length = 0
  /\ ppr = FALSE /\ unread = FALSE /\ key = FALSE
  /\ address = 0 /\ count = 0 /\ skip = FALSE
  /\ job = NoJob /\ invented = {}

LocalsDie == address' = 0 /\ count' = 0 /\ skip' = FALSE

(* gpib_init_devices, seen by one device: gpib_bus_init drops the unread   *)
(* byte, SS80_init clears the device and leaves qstat at 2.                *)
Restart ==
  /\ phase' = "task"
  /\ estate' = "IDLE" /\ qstat' = 2 /\ errors' = {}
  /\ unitNO' = 0 /\ volNO' = 0 /\ addressBlocks' = 0 /\ length' = 0
  /\ ppr' = FALSE /\ unread' = FALSE /\ key' = FALSE
  /\ job' = NoJob
  /\ LocalsDie
  /\ UNCHANGED invented

(* Every wait of every handler tests IFC and gives up; gpib_error_test     *)
(* then resets the devices, whatever the handler has left behind.          *)
BusReset == IfcPulses /\ Restart

(* A key ends every bus transfer at once, as if it had succeeded, and      *)
(* gpib_error_test resets the devices.  What a key does to a write is      *)
(* below: the bytes it does not wait for are stored as zeros.              *)
KeyHit == KeyHits /\ phase # "write" /\ Restart

(* gpib_task is about to read the next byte from the bus / reads the byte  *)
(* a handler has put back.                                                 *)
AtTask == phase = "task" /\ ~unread

ReadUnread ==
  /\ phase = "task" /\ unread
  /\ unread' = FALSE
  /\ UNCHANGED <<phase, settings, ppr, key, locals, ghosts>>

(***************************************************************************)
(* Command state, secondary 65H: the message is read whole, then its       *)
(* opcodes are taken one by one up to the first that ends the message.     *)
(***************************************************************************)
CommandStatePolls ==  \* mutant: no PPR disable on entry
  /\ AtTask
  /\ phase' = "command"
  /\ UNCHANGED <<settings, ppr, unread, key, locals, ghosts>>

CommandState ==
  /\ AtTask
  /\ phase' = "command"
  /\ ppr' = FALSE
  /\ UNCHANGED <<settings, unread, key, locals, ghosts>>

(* The message cannot be read, or holds nothing but the command byte that  *)
(* cuts it short: return with the poll response disabled.                  *)
MessageFails ==
  /\ AtTask
  /\ \/ Timeouts /\ UNCHANGED unread
     \/ AtnAborts /\ unread' = TRUE
  /\ ppr' = FALSE
  /\ UNCHANGED <<phase, settings, key, locals, ghosts>>

Opcode(state) ==
  /\ phase = state
  /\ UNCHANGED <<unread, key, locals, ghosts>>

SetUnit ==  \* SS80_Check_Unit
  /\ Opcode("command") \/ Opcode("transparent")
  /\ \E u \in Units :
       \/ u \in {0, 15} /\ unitNO' = u /\ UNCHANGED errors
       \/ u \notin {0, 15} /\ errors' = errors \cup {"UNIT"} /\ UNCHANGED unitNO
  /\ UNCHANGED <<phase, estate, qstat, volNO, addressBlocks, length, ppr>>

(* SS80_Check_Volume.  48H, 4CH and 4DH (return addressing, door lock) are *)
(* caught here as volumes 8, 12 and 13.                                    *)
SetVolume ==
  /\ Opcode("command")
  /\ \E v \in 0 .. 15 :
       \/ v = 0 /\ volNO' = 0 /\ UNCHANGED errors
       \/ v # 0 /\ errors' = errors \cup {"UNIT"} /\ UNCHANGED volNO
  /\ UNCHANGED <<phase, estate, qstat, unitNO, addressBlocks, length, ppr>>

SetAddress ==  \* 10H: six bytes into a uint32_t
  /\ Opcode("command")
  /\ addressBlocks' \in Blocks
  /\ UNCHANGED <<phase, estate, qstat, errors, unitNO, volNO, length, ppr>>

SetLength ==  \* 18H
  /\ Opcode("command")
  /\ length' \in Lengths
  /\ UNCHANGED <<phase, estate, qstat, errors, unitNO, volNO, addressBlocks, ppr>>

(* The message is at its end, or at an opcode that ends it: one of the     *)
(* four that set estate, or one that is ignored or unknown.                *)
CommandEnds ==
  /\ Opcode("command")
  /\ phase' = "task"
  /\ ppr' = TRUE
  /\ estate' \in {estate, "LOCATE_AND_READ", "LOCATE_AND_WRITE",
                  "SEND_STATUS", "DESCRIBE"}
  /\ UNCHANGED <<qstat, errors, unitNO, volNO, addressBlocks, length>>

(***************************************************************************)
(* Transparent state, secondary 72H.                                       *)
(***************************************************************************)
TransparentState ==
  /\ AtTask
  /\ phase' = "transparent"
  /\ ppr' = FALSE
  /\ UNCHANGED <<settings, unread, key, locals, ghosts>>

TransparentEnds ==  \* 01H enables the poll response, the others do not
  /\ Opcode("transparent")
  /\ phase' = "task"
  /\ ppr' \in BOOLEAN
  /\ UNCHANGED settings

ChannelIndependentClear ==  \* 08H
  /\ phase = "transparent"
  /\ phase' = "task"
  /\ ppr' = TRUE
  /\ ClearCommon(unitNO)
  /\ UNCHANGED <<unread, key, locals, invented>>

Cancel ==  \* 09H
  /\ Opcode("transparent")
  /\ phase' = "task"
  /\ ppr' = TRUE
  /\ estate' = "IDLE"
  /\ UNCHANGED <<qstat, errors, unitNO, volNO, addressBlocks, length>>

(***************************************************************************)
(* The clears and Identify, one step each.                                 *)
(***************************************************************************)
DeviceClear ==  \* SDC clears unitNO, DCL every unit
  /\ AtTask
  /\ ClearCommon(unitNO) \/ ClearCommon(15)
  /\ ppr' = TRUE
  /\ UNCHANGED <<phase, unread, key, locals, invented>>

AmigoClear ==  \* secondary 70H, listening
  /\ AtTask
  /\ \/ ClearCommon(15) /\ ppr' = TRUE /\ UNCHANGED unread
     \/ /\ \/ Timeouts /\ UNCHANGED unread
           \/ AtnAborts /\ unread' = TRUE
        /\ ppr' = FALSE
        /\ UNCHANGED <<settings, job>>
  /\ UNCHANGED <<phase, key, locals, invented>>

Identify ==  \* GPIB_SECONDARY_ADDRESS
  /\ AtTask
  /\ ppr' = FALSE
  /\ UNCHANGED <<phase, settings, unread, key, locals, ghosts>>

(* SS80_Report.  gpib_write_str counts the byte that fails: a report of    *)
(* one byte looks sent even when nobody took it.                           *)
Report ==
  /\ AtTask
  /\ \/ job' = NoJob
     \/ LateTimeouts /\ UNCHANGED job
  /\ qstat' = 0
  /\ UNCHANGED <<phase, estate, errors, unitNO, volNO, addressBlocks, length,
                 ppr, unread, key, locals, invented>>

(***************************************************************************)
(* Execute state, secondary 6EH.                                           *)
(***************************************************************************)
(* Mutant: the seek looks at the address only.                             *)
SeekLooksAtStart == addressBlocks > MaxBlock

(* SS80_cmd_seek refuses a transfer that would end past the last block.    *)
SeekFails == (addressBlocks + Bytes2Blocks(length)) % Word > MaxBlock

(* What dbf_open_read and dbf_open_write leave in Errors when they fail.   *)
DiskErrors == {{"DISK", "READ"}, {"SEEK", "READ"}, {"READ"}, {"DISK"}}

Executed ==
  /\ phase' = "task" /\ estate' = "IDLE" /\ ppr' = TRUE
  /\ LocalsDie

Begins(op) ==
  /\ job' = [op |-> op, first |-> addressBlocks * BytesPerBlock,
             want |-> length, sent |-> 0, eoi |-> FALSE, stored |-> {}]

ExecuteNothing ==
  /\ AtTask
  /\ \/ estate = "IDLE" /\ UNCHANGED qstat
     \/ estate = "DESCRIBE" /\ UNCHANGED qstat
     \/ estate = "SEND_STATUS" /\ qstat' = IF errors = {} THEN qstat ELSE 1
  /\ Executed
  /\ UNCHANGED <<errors, unitNO, volNO, addressBlocks, length,
                 unread, key, ghosts>>

(* A read the seek refuses ends with SS80_error_return: it sends qstat 1   *)
(* as the only byte of the data and clears qstat again.                    *)
ExecuteRead ==
  /\ AtTask
  /\ estate = "LOCATE_AND_READ"
  /\ Begins("read")
  /\ qstat' = 0
  /\ \/ SeekFails /\ errors' = errors \cup {"SEEK"} /\ Executed
     \/ /\ ~SeekFails
        /\ phase' = "read" /\ ppr' = FALSE
        /\ address' = Blocks2Bytes(addressBlocks) /\ count' = length
        /\ UNCHANGED <<errors, estate, skip>>
  /\ UNCHANGED <<unitNO, volNO, addressBlocks, length, unread, key, invented>>

ExecuteWrite ==
  /\ AtTask
  /\ estate = "LOCATE_AND_WRITE"
  /\ Begins("write")
  /\ address' = Blocks2Bytes(addressBlocks)
  /\ count' = ToInt(length)
  /\ skip' = SeekFails
  /\ \/ SeekFails /\ errors' = errors \cup {"SEEK", "WRITE"} /\ qstat' = 1
     \/ ~SeekFails /\ UNCHANGED errors /\ qstat' = 0
  /\ phase' = "write"
  /\ ppr' = FALSE
  /\ UNCHANGED <<estate, unitNO, volNO, addressBlocks, length,
                 unread, key, invented>>

(***************************************************************************)
(* SS80_locate_and_read, chunk by chunk.                                   *)
(***************************************************************************)
InTransfer(op) ==
  /\ phase = op
  /\ count > 0
  /\ UNCHANGED <<unitNO, volNO, length>>

Piece == Smaller(count, Chunk)

(* A byte that fails as the last of a chunk is counted as sent.            *)
ReadChunk ==
  /\ InTransfer("read")
  /\ \E n \in {Piece} \cup (IF LateTimeouts THEN {Piece - 1} ELSE {}) :
       job' = [job EXCEPT !.sent = @ + n]
  /\ address' = (address + Piece) % Word
  /\ count' = count - Piece
  /\ UNCHANGED <<phase, estate, qstat, errors, addressBlocks, ppr,
                 unread, key, skip, invented>>

ReadTimesOutSilently ==  \* mutant: the timeout leaves qstat alone
  /\ Timeouts
  /\ InTransfer("read")
  /\ \E n \in 0 .. Piece - 2 : job' = [job EXCEPT !.sent = @ + n]
  /\ errors' = errors \cup {"GPIB"}
  /\ addressBlocks' = Bytes2Blocks(address)
  /\ Executed
  /\ UNCHANGED <<qstat, unread, key, invented>>

ReadTimesOut ==
  /\ Timeouts
  /\ InTransfer("read")
  /\ \E n \in 0 .. Piece - 2 : job' = [job EXCEPT !.sent = @ + n]
  /\ errors' = errors \cup {"GPIB"}
  /\ qstat' = 1
  /\ addressBlocks' = Bytes2Blocks(address)
  /\ Executed
  /\ UNCHANGED <<unread, key, invented>>

ReadDiskRetries ==  \* mutant: a failed access is tried again
  /\ DiskFaults
  /\ InTransfer("read")
  /\ errors' \in DiskErrors
  /\ UNCHANGED <<phase, estate, qstat, addressBlocks, ppr,
                 unread, key, locals, ghosts>>

ReadDiskFails ==  \* SS80_error_return again
  /\ DiskFaults
  /\ InTransfer("read")
  /\ errors' \in DiskErrors
  /\ qstat' = 0
  /\ Executed
  /\ UNCHANGED <<addressBlocks, unread, key, ghosts>>

ReadEnds ==
  /\ phase = "read" /\ count = 0
  /\ addressBlocks' = Bytes2Blocks(address)
  /\ Executed
  /\ UNCHANGED <<qstat, errors, unitNO, volNO, length, unread, key, ghosts>>

(***************************************************************************)
(* SS80_locate_and_write, chunk by chunk.                                  *)
(***************************************************************************)
(* n bytes go to the image, the first m of them from the host, which sends *)
(* EOI with the last of them or not.                                       *)
Store(m, n, eoi) ==
  LET at == address .. address + n - 1
      Took(new) == job' = [op |-> job.op, first |-> job.first, want |-> job.want,
                           sent |-> job.sent + m, eoi |-> eoi,
                           stored |-> job.stored \cup new]
  IN
  \/ /\ skip \/ n = 0
     /\ Took({})
     /\ UNCHANGED <<address, skip, errors, qstat, invented>>
  \/ /\ ~skip /\ n > 0
     /\ address' = (address + n) % Word
     /\ Took({i \in at : i < address + m})
     /\ invented' = invented \cup {i \in at : i >= address + m}
     /\ UNCHANGED <<skip, errors, qstat>>
  \/ /\ ~skip /\ n > 0 /\ DiskFaults
     /\ \E e \in DiskErrors, wp \in SUBSET {"WP"} :
          errors' = e \cup {"WRITE"} \cup wp
     /\ qstat' = 1
     /\ skip' = TRUE
     /\ Took({})
     /\ UNCHANGED <<address, invented>>

(* Mutant: the whole chunk is written, however little has been read.       *)
WriteWholeChunk ==
  /\ ~unread /\ ~key
  /\ InTransfer("write")
  /\ \E n \in 1 .. Piece, eoi \in BOOLEAN :
       /\ n < Piece => eoi
       /\ Store(n, Piece, eoi)
       /\ count' = IF eoi THEN 0 ELSE count - n
  /\ UNCHANGED <<phase, estate, addressBlocks, ppr, unread, key>>

(* The host sends a chunk, or less with EOI on the last byte: EOI ends the *)
(* loop whatever is left of count.                                         *)
WriteChunk ==
  /\ ~unread /\ ~key
  /\ InTransfer("write")
  /\ \E n \in 1 .. Piece, eoi \in BOOLEAN :
       /\ n < Piece => eoi
       /\ Store(n, n, eoi)
       /\ count' = IF eoi THEN 0 ELSE count - n
  /\ UNCHANGED <<phase, estate, addressBlocks, ppr, unread, key>>

(* A key: what is left of the chunk, and every later chunk, reads as 0.    *)
WriteKey ==
  /\ KeyHits /\ ~unread
  /\ InTransfer("write")
  /\ key' = TRUE
  /\ \E m \in 0 .. Piece - 1 :
       /\ key => m = 0
       /\ Store(m, Piece, FALSE)
  /\ count' = count - Piece
  /\ UNCHANGED <<phase, estate, addressBlocks, ppr, unread>>

(* A command byte in the data is put back; the loop asks for data again,   *)
(* is given the same byte and puts it back, for ever.                      *)
WriteAtn ==
  /\ AtnAborts /\ ~unread /\ ~key
  /\ InTransfer("write")
  /\ unread' = TRUE
  /\ \E n \in 0 .. Piece - 1 :
       /\ Store(n, n, FALSE)
       /\ count' = count - n
  /\ UNCHANGED <<phase, estate, addressBlocks, ppr, key>>

WriteSpins == InTransfer("write") /\ unread /\ UNCHANGED vars

WriteTimesOutSilently ==  \* mutant: the timeout leaves qstat alone
  /\ Timeouts /\ ~unread /\ ~key
  /\ InTransfer("write")
  /\ errors' = errors \cup {"WRITE"}
  /\ addressBlocks' = Bytes2Blocks(address)
  /\ Executed
  /\ UNCHANGED <<qstat, unread, key, ghosts>>

WriteTimesOut ==
  /\ Timeouts /\ ~unread /\ ~key
  /\ InTransfer("write")
  /\ errors' = errors \cup {"WRITE"}
  /\ qstat' = 1
  /\ addressBlocks' = Bytes2Blocks(address)
  /\ Executed
  /\ UNCHANGED <<unread, key, ghosts>>

WriteEndsInPlace ==  \* mutant: the address is not moved on
  /\ phase = "write" /\ count <= 0
  /\ \/ key /\ Restart
     \/ ~key /\ Executed
        /\ UNCHANGED <<qstat, errors, unitNO, volNO, addressBlocks, length,
                       unread, key, ghosts>>

WriteEnds ==
  /\ phase = "write" /\ count <= 0
  /\ \/ key /\ Restart
     \/ /\ ~key
        /\ addressBlocks' = Bytes2Blocks(address)
        /\ Executed
        /\ UNCHANGED <<qstat, errors, unitNO, volNO, length,
                       unread, key, ghosts>>

Message ==
  \/ CommandState \/ MessageFails \/ SetUnit \/ SetVolume \/ SetAddress
  \/ SetLength \/ CommandEnds \/ TransparentState \/ TransparentEnds
  \/ ChannelIndependentClear \/ Cancel

Transfer ==
  \/ ReadChunk \/ ReadTimesOut \/ ReadDiskFails \/ ReadEnds
  \/ WriteChunk \/ WriteKey \/ WriteAtn \/ WriteTimesOut \/ WriteEnds

Next ==
  \/ Message
  \/ ReadUnread \/ DeviceClear \/ AmigoClear \/ Identify \/ Report
  \/ ExecuteNothing \/ ExecuteRead \/ ExecuteWrite
  \/ Transfer \/ WriteSpins
  \/ BusReset \/ KeyHit

Spec == Init /\ [][Next]_vars

(* The host goes on with a transfer it has begun.                          *)
FairSpec == Spec /\ WF_vars(Transfer)

(***************************************************************************)
(* Correctness.                                                            *)
(***************************************************************************)
Phases == {"task", "command", "transparent", "read", "write"}
Estates == {"IDLE", "LOCATE_AND_READ", "LOCATE_AND_WRITE", "SEND_STATUS",
            "DESCRIBE"}
ErrorNames == {"READ", "WRITE", "SEEK", "WP", "DISK", "GPIB", "UNIT"}
Jobs == [op : {"none", "read", "write"}, first : Nat, want : Nat, sent : Nat,
         eoi : BOOLEAN, stored : SUBSET Nat]

TypeOK ==
  /\ phase \in Phases
  /\ estate \in Estates
  /\ qstat \in 0 .. 2
  /\ errors \subseteq ErrorNames
  /\ unitNO \in {0, 15} /\ volNO = 0
  /\ addressBlocks \in 0 .. Word - 1 /\ length \in 0 .. Word - 1
  /\ ppr \in BOOLEAN /\ unread \in BOOLEAN /\ key \in BOOLEAN /\ skip \in BOOLEAN
  /\ address \in 0 .. Word - 1
  /\ count \in Int
  /\ job \in Jobs
  /\ invented \subseteq Nat

(* A write that ended and that qstat calls normal completion: the host's   *)
(* message was taken up to its length or its EOI, and every byte of it is  *)
(* in the image, at the place the host asked for.                          *)
WriteReported ==
  phase = "task" /\ job.op = "write" /\ qstat = 0 =>
    /\ job.sent = job.want \/ job.eoi
    /\ job.stored = job.first .. job.first + job.sent - 1

(* A read that ended and that qstat calls normal completion: the host has  *)
(* been given as many bytes as it asked for, or none (the seek refused),   *)
(* or a disk failure has left its mark for the next status request.        *)
ReadReported ==
  phase = "task" /\ job.op = "read" /\ qstat = 0 =>
    job.sent \in {0, job.want} \/ errors \cap {"READ", "DISK"} # {}

(* As the comment on SS80_locate_and_read has it, that failure shows in    *)
(* qstat too.                                                              *)
ReadFaultReported ==
  phase = "task" /\ job.op = "read" /\ qstat = 0 => job.sent \in {0, job.want}

(* No byte of the image is overwritten with what the host never sent.      *)
NothingInvented == invented = {}

(* SS80_cmd_seek checks for read/write past the end of the disk: a write   *)
(* stays inside the image.                                                 *)
InImage == job.stored \cup invented \subseteq Image

(* What the seek has accepted leaves room for all that is still to come.   *)
RoomLeft == phase = "write" /\ ~skip => address + count <= ImageSize

(* How far a write has come: until it fails, all the host has sent is in   *)
(* the image, without gap, and count is what is still to come.             *)
WriteProgress ==
  phase = "write" =>
    /\ job.op = "write"
    /\ skip => qstat = 1
    /\ ~skip /\ ~key =>
         /\ count >= 0
         /\ address = job.first + job.sent
         /\ job.stored = job.first .. job.first + job.sent - 1
         /\ count = job.want - job.sent \/ (count = 0 /\ job.eoi)

(* The addresses a message sets, or a transfer leaves.                     *)
Addresses == Blocks \cup 0 .. Bytes2Blocks(Word - 1)

(* No int and no uint32_t of the transfer overflows.                       *)
NoOverflow ==
  /\ ImageSize < Word
  /\ \A n \in Lengths \cup {0} :
       /\ n < IntMax
       /\ \A b \in Addresses : b + Bytes2Blocks(n) < Word

(* A device at work answers no parallel poll: the answer means it is done. *)
BusyIsSilent == phase # "task" => ~ppr

(* A write that completes leaves the address on the block after its last   *)
(* byte, where the next transfer without an address of its own begins.     *)
Continues ==
  [][phase = "write" /\ phase' = "task" /\ qstat' = 0
     => addressBlocks' = (job'.first + job'.sent) \div BytesPerBlock]_vars

(* A transfer loops until Length bytes or EOI have been received, or an    *)
(* error has; then the device is back in gpib_task.                        *)
TransferEnds == phase \in {"read", "write"} ~> phase = "task"
=============================================================================
