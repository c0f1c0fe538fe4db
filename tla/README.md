# HP85disk in TLA+

TLA+ models of the HP85disk firmware: a board (AVR ATmega1284P, `BOARD=2`)
that plays SS80 and AMIGO disks and a printer on a GPIB bus, with the disks as
image files on an SD card. The modules are translated from the C code under
`src/` as the Makefile builds it (`AMIGO=1 SPOLL=1 PPR_REVERSE_BITS=1
LIF_SUPPORT=1`); TLC checks them on small instances and TLAPS proves what
matters most for every value of the constants. File and line numbers are in
`PROJECT.json` ("map").

## 1. The system

| component | state | operations | talks to |
|---|---|---|---|
| byte handshake, `gpib/gpib.c` | bus pins, the state of the running call, `gpib_timer`, `gpib_unread_f` | `gpib_read_byte`, `gpib_write_byte`, `gpib_read_str`, `gpib_write_str`, pin functions | other boards over wired-AND lines; the 1 ms timer task; the console key |
| bus dispatcher, `gpib/gpib_task.c` | `talking`, `listening`, `listening_last`, `secondary`, `lastcmd`, `spoll` | `gpib_task`: `GPIB`, `GPIB_LISTEN`, `GPIB_TALK`, `GPIB_COMMANDS`, `GPIB_SECONDARY_ADDRESS`, `gpib_error_test` | calls the disks, the printer and the poll register |
| SS80 disk, `gpib/ss80.c` | `SS80s`: estate, qstat, Errors, unit, volume, address, length | Command, Execute, Report, Transparent, clears, Identify | image file, bus strings, poll register |
| AMIGO disk, `gpib/amigo.c` | `AMIGOs`: state, cylinder/head/sector, dsj, Errors, unit | messages, verify, format, transfers, DSJ, clear | the same |
| printer capture, `gpib/printer.c` | `plot`: file, buffer, index, size | open, buffer, flush, close | POSIX layer |
| poll register and image access, `gpib/gpib_hal.c` | `_ppr_reg` | `ppr_bit_set`, `ppr_bit_clr`, `dbf_open_read`, `dbf_open_write` | SPI latch; FatFs |
| device table, `gpib/drives.c`, `drives_sup.c` | `Devices[]` with each device's own record, the parser's state, stack, index and pointers, active pointers | `Read_Config`, `Post_Config`, lookup by address, `format_drives` | dispatcher, disks; LIF tools for a missing image |
| console, `hardware/rs232.c` | receive ring | interrupt, `uart_get_tail`, `uart_rx_flush` | every loop above tests the key |
| timers and clock, `lib/timer.c`, `lib/timer_hal.c` | task table, tick counter, `__clock`, `gpib_timer`, `_mmc_timeout` | tick interrupt, `clock_settime`, `clock_gettime`, the two time-outs | handshake, SD card, every file date |
| SD card, `fatfs.hal/mmc.c`, `mmc_hal.c` | `Stat`, `CardType`, the card | initialise, read, write, sync, their waits | FatFs above it; the millisecond task |
| FatFs and POSIX layer, `fatfs/ff.c`, `posix/posix.c` | window, FAT, directory, `__iob` | open, close, read, write, lseek, sync, unlink, rename, `fgetc`, `fgets`, `fputs` | the disks' images, captures, LIF volumes |
| LIF tools, `lif/lifutils.c` | directory and file area of an image | create, add, delete, rename, text conversion | POSIX layer; calendar |
| calendar, `lib/time.c`, `hardware/rtc.c` | time zone, cached change of summer time | dates to seconds and back | clock, FAT and LIF dates, clock chip |
| `main.c` | - | reads the configuration, makes the images, then alternates console commands and `gpib_task` | all of them |
| `lib/` helpers, `fatfs.sup/` | - | console commands, strings | - |

Everything runs in one thread with two interrupts, the tick and the console's
receiver. What is hard about it is therefore *several boards and a host on one
bus*: polling loops of independent processors against wired-AND lines, waits
that time out while the other side is about to answer, IFC and console keys at
any moment, host messages cut short by a command byte, disk accesses that fail
half way, long legal sequences of commands over state kept between them; the
two interrupts that share words and a ring with the program; and a card that
may be slow, refuse, be pulled, or lose its power between two of the sectors a
call writes. `PROJECT.json` lists these under "hazards", each at its line.

What makes each part correct:

- handshake: a confirmed byte is with every receiver, none is read twice or out
  of order, one driver per line, no call hangs but the one that may;
- disks: a status of "fine" is true; no failure is forgotten before the host
  could ask; positions and writes stay inside the image; a device at work does
  not answer a parallel poll;
- dispatcher: a command is run once, for the right device; the poll lines are
  those of the disks that answer; captures are whole and get closed;
- device table: every line of the configuration goes to the device written
  around it; a file read without an error means what it says, and each device
  answers at its address;
- interrupts: characters arrive in order, a time-out lasts as long as asked, the
  clock neither jumps nor tells a time that has not come;
- card: what a call reported is true, a call ends whatever the card does, no
  command reaches a card in the middle of a transfer;
- files: after a failure or a power cut no chain is shared, free or too short,
  and what was synced or closed reads as before; a reader of lines sees each
  line once, whatever ends it;
- LIF: what the user was told is in a volume stays there, wherever later
  commands are cut off;
- calendar: a date survives every format it is kept in.

## 2. Modules

| module | models |
|---|---|
| `Handshake` | `gpib_read_byte` and `gpib_write_byte` state by state, the pins, timeouts, IFC, keys |
| `ByteChannel` | what one direction of the handshake promises; `Handshake` implements it |
| `Ss80` | one SS80 disk: opcodes of a message and chunks of a transfer are steps |
| `Amigo` | one AMIGO disk: sectors of verify and format are steps |
| `SectorDisk` | a disk as a line of sectors with a fault flag; `Amigo` implements it |
| `GpibTask` | the dispatcher, the poll register and the printer capture: one byte from the bus is one step |
| `Drives` | the configuration read line by line, defaults and models, the lookups by address, the images made at the start |
| `Emulator` | `main.c`: the start (`Drives`), then the bus (`GpibTask`) with the table that is left |
| `Interrupts` | the tick interrupt with its three tasks, the console's receiver and ring, and the calls of the program that share state with them |
| `Card` | the SD card driver, one wait at a time, with the card and the timer |
| `Fat` | FatFs, an operator per function (no variables) |
| `Stdio` | `fgetc`, `fgets` and `fputs` on a file, over `Fat` (no variables) |
| `Posix` | the POSIX calls over `Fat` and `Stdio`, with failures of the card and power cuts |
| `Lif` | a LIF volume and the commands on it, one write at a time |
| `LifText` | texts to LIF records and back (no variables) |
| `Calendar` | dates, their carries and formats, summer time (no variables) |
| `MC*` | instances for TLC |
| `*Proofs` | the theorems, one module per component; those of `GpibTask` are in `EmulatorProofs`, those of `Fat` and `Stdio` in `PosixProofs` |

### Handshake

A *party* is a board running this code; `gpib/controller.c` makes one the
controller with the same two functions, so all parties are alike. `pc[p]` is
the enum of the loop the party is in (`RX_*`, `TX_*`, or `idle` between two
calls); one step is one turn of the loop: key test, IFC test, then the case of
the state. `dav`, `nrfd`, `ndac`, `data` are the lines a party pulls; a line is
low when anybody pulls it. A wait and its timeout are tested in the order of
the code (a read tests the timer even when DAV has gone up; a write restarts
the timer when its wait is met). Bytes are numbers, `Talker[n]` says who sends
byte n, and what a call returned without an error flag is in `got` or `sent`.

Time: a turn takes microseconds and `HTIMEOUT` half a second, so a countdown
ends (`TimerTask`) only when every party that does not stall is blocked in a
wait or away from the bus. Parties in `Slow` may stall for any time anywhere.
The delays before the first turn of a write outlast a turn of a receiver
(guard of `StartWrite`); a pulse of IFC outlasts a turn of every loop but not a
disk access.

### Ss80

`phase` says which handler runs, the other variables are the fields of
`SS80s`, the local variables of the running transfer, `unread` (a command byte
put back by `gpib_unread`) and `key`. Arithmetic keeps its width: addresses
wrap at `Word` (2^32), the write's `count` is an `int` of `IntMax` (2^15). Two
variables are bookkeeping: `job` is what the host asked for and what of it is
in the image or was sent, `invented` the image bytes overwritten with what no
host sent. The handlers' defects are kept: `gpib_write_str` counts the byte
that fails, opcodes 48H, 4CH and 4DH are taken for volumes, the report and the
disk error of a read clear `qstat`. What the status and describe blocks contain
is left out.

### Amigo

`pos` is the cylinder, head and sector, each a `uint8_t` that wraps at `Byte`;
`Normal` and `Overflows` are `amigo_overflow_check`, `Advance` is
`amigo_increment`. `Lba` is `amigo_chs_to_logical` with its widths: the products
are the `int` of 16 bits that the AVR makes of them (`Wrapped` at `IntMax`, cast
to `long` too late), the sum is a `DWORD` of bytes (`Reach` sectors). The numbers
of the geometry are any an `int16_t` holds but zero and negative ones. `dsj` and `errors` are set and cleared separately, as the
handlers do it. The image file has its size: an access beyond the end makes it
longer, as FatFs does. `owed` is bookkeeping: a transfer has failed and the
host has not asked. `DiskErrors` are what `dbf_open_read` and `dbf_open_write`
leave behind.

### GpibTask

Each action is one byte from the bus, handled to the end with every call it
makes: `Listen`, `Unlisten`, `Talk`, `Untalk` are GPIB_LISTEN and GPIB_TALK
with `listen_cleanup` and the capture they open or close, `SerialPollEnable`
to `DeviceClear` are `GPIB`, `Secondary`, `SecondaryAddress`, `Data` and
`PrinterData` the rest of `gpib_task`. What a disk handler does is in `Ss80`
and `Amigo`; here it turns its poll response off and, unless it fails, on
again (`Works`). `plot` has the handles lost by a second `fopen` and the bytes
lost through a null buffer, so that the properties can speak of them. `asked`
(the disks whose response is on, as the disks see it), `served`, `printed` and
`plot.paper` are bookkeeping. The second of the clock in the capture's name is
left out.

`Orderly` names a discipline of the host: it names the talker before the
printer is to listen, does not untalk or clear while it listens, and does not
print from an emulated device. The HP85 does so. Without it the code breaks
(section 6).

### Drives and Emulator

A line of the configuration is what `get_token` and `get_value` make of it: a
token, its argument as a name and as a number. `config` is the parser of
`Read_Config`: its state and stack of states, the index into `Devices[]` and
the pointer to the last device of each type, the table and the number of
errors. `StartLine`, `DeviceLine`, `SectionLine` and `EndLine` are the cases of
its state. Nothing in the code tests state, stack, index and pointer against
each other; `DescribesOne` says that they agree, `ReadAsWritten` compares the
table with what the text says to a person (`Said`: a device's own lines, before
those of its model in hpdir.ini, before those of the default). `Kept` cuts a
number to the width of its field, before its range is tested, as the code
does. `Posted` is `Post_Config` with the product of an AMIGO geometry in an
`int` of 16 bits. An index is 0 where the code has -1 or a null pointer.

`image` are the files on the card, `FormatSlot` is a turn of `format_drives`
with `lif_create_image`; `phase` is "lost" when `lif_dir_count` halves a
negative number, which never becomes 0.

`Emulator` is the composition: `Booting` changes the variables of `Drives` only,
`Serving` those of `GpibTask` only, and may begin only when the table that was
read is the one that the constants of `GpibTask` describe (`TableOfTheBus`:
poll bits, addresses, the first device of each family). The bus is followed
under one configuration (`Followed`); under the others the run stops where the
bus would be served.

### Interrupts

The program is in one call at a time (`op`); between any two of its steps, while
the flag I is set, the hardware counts (`Count`), a tick is served
(`TimerInterrupt`: `ISR(TIMER1_COMPA)`, `timer_task` and the installed tasks) or
a character comes (`ReceiveInterrupt`). A word is longer than the processor
moves at once: `clock_settime` writes and compares its fields in halves,
`mmc_set_ms_timeout` and `mmc_test_timeout` move theirs in halves, in any order.
`clock_gettime` reads clock, counter and pending flag one after the other, with
interrupts off. The console's `uart_get_tail` takes a character in two steps
with interrupts off. `set` is the time that was set, moved on with every tick,
and whether a tick fell into the last round of `clock_settime`; it, `told`,
`gpibWait`, `mmcWait`, `sent`, `stored`, `read` and `lost` are bookkeeping. Three things are assumed, each with its name
in the module: the interrupt routine is one step, though `gpib_timer_task` sets
the flag I inside it (it is the last task, so a nested interrupt is no different
from a later one); a round of `clock_settime` sees at most one tick
(`RoundIsShort`); and `Torn` says whether a tick may fall between the two halves
that `mmc_test_timeout` reads, which it may in the code (section 6).

### Card

`op.at` is the wait the driver is in (`wait_ready`, the loop around CMD0 or
ACMD41, the data token, the end of a write); what it does when the wait ends,
the next command, its argument and the card's response, is one step. `timer` is
`_mmc_timeout`, one for all waits, so a wait inside a longer one restarts it.
The card has a kind, a state of its own and memory; it may be busy, answer
wrongly, stop answering, be pulled and be replaced by another kind (`Pull`,
`Insert`). `kept` is bookkeeping: what the user has been told is in each
sector. `confused` is a card that got a command in the middle of a transfer.

### Fat and Posix

`Fat` is written as the code is: a function of `ff.c` is an operator from a
machine state (card, window, FATFS, the FIL of the call) to the state after the
call, and `Then` is the early return. A loop is `Repeat`: its turn (`RemoveTurn`,
`ScanTurn`, `WalkTurn`, `ReadTurn`, `WriteTurn`, `SeekTurn`), where it is in the
fields `here` and `rest`, and no more turns than there are clusters or bytes; a
turn with nothing left to do does nothing. Every access to the card counts down
`left`; at zero it fails, and the error takes the path it has in the code.
A mount has to read the boot sector; when FSInfo cannot be read it goes on, its
numbers `Unknown`, and does not write it until the next mount.
`past` collects the contents the card had on the way. `Posix` has the
variables. A call is one step, since nothing runs beside it; a power cut
(`Cut`) leaves the card as it was at *any* moment of the last call (a member of
`past`) and everything in memory lost. `text` is bookkeeping: what the calls
have put in each file. `Torn` are the two moments the code cannot close
(section 6); nothing is called after them. `Sound` says which names may share a
chain: those of the rename at work, and those a failed or interrupted call has
left in doubt (`Shaky`), for a rename that fails between its two entries leaves
both. The user does not open, remove or
rename a file that is open, as `FF_FS_LOCK = 0` asks of him.

`Stdio` is the layer the configuration and the texts are read through: after a
CR `fatfs_getc` reads one byte ahead and goes back over it unless it is an LF,
with the read and seek of `Fat`, so across sectors and with failures of its own.
An entry of `iob` has the flags `unget` and `eof` of its stream; `seen` is
bookkeeping, the characters read since the file was opened, from which position,
and None once a write or a plain read has come between. `Characters` is what a
text is to a person, and `SeesText` compares the two. `SoughtToo` says whether
characters read after a seek or a sync count as well (section 6).

### Lif and LifText

A command (`op`) opens the volume, works and closes it; each of its writes is a
step, and `Stop` (a power cut, or a write that fails) may come before any of
them. `NewIndex` and `NewStart` are the search for room of `lif_newdir`,
`Trimmed` is `lif_updatefree`. The directory record behind the last one is the
first of the file area, as the code's test of the index has it. `kept` is
bookkeeping: what the user was told is there. `LifText` is the pair of text
conversions, checked against each other; `Lost` stands where a string was
refused (section 6), which only lines of 253 characters and more can meet.

### Calendar

`TimeToTm`, `Tm2Epoch`, `CarryDays` and `Carried` (the loops of `normalize`),
`FindDst`, `SetDst` with its cache of a day, and the formats of FAT, LIF and the
clock chip. A `time_t` is the pair of its day and second, since 2^32 is beyond
TLC's integers; sums that wrap at 2^32 do so here (`Wrapped`).

## 3. Runs

| run | states | question |
|---|---|---|
| HandshakeOneTalker | 603 | three bytes from the controller to two devices, no fault: lockstep, confirmed means delivered, nothing missed, refinement of `ByteChannel`, all delivered |
| HandshakeFaults | 815,018 | two bytes, two receivers; timeouts, stalls, IFC: no receiver that keeps polling reads twice |
| HandshakeBounded | 119,526 | everybody but the writer may stop, timeouts, IFC, keys at its console: its call returns; one driver per line |
| Ss80Faults | 906,117 | all messages, clears and transfers with disk faults, timeouts, IFC, cut messages, keys |
| Ss80Ends | 712,368 | disk faults and timeouts, late ones too: a transfer ends, nothing is invented |
| AmigoFaults | 1,977,868 | all messages and transfers with all faults: position, failures and their causes, the poll; refinement of `SectorDisk` |
| Emulator | 633,223 | 144 configurations, most of them damaged: the table means what the file says; with the whole one, any order of commands and data for two SS80 disks, an AMIGO disk, a printer |
| GpibTaskReversed | - | the disagreement 1 of section 6 |
| Interrupts | 4,399,022 | five interrupts anywhere in four calls: ring, clock, time-outs |
| Card | 1,119,412 | four kinds of card, pulled and put in, refusing and silent: what is told is true, calls end |
| Posix | 204,254 | five calls with a failure at the first accesses, or a power cut at any: chains, contents, what is durable, characters and lines |
| Lif | 274,857 | two files through all commands, each cut off at any write; as assumptions, the texts and the calendar |

Bounds, and why they are enough:

- *Handshake*: two receivers, since wired-AND needs a slow and a fast one; two
  to four bytes, since the only memory from byte to byte is in the pins and in
  the receiver that has not seen DAV go up; with two the next byte can be
  confused with the last. `MaxReads` bounds the reads that keys cut short.
- *Ss80*: blocks of two bytes, three blocks, transfers of two blocks in chunks
  of two bytes (a middle and a last chunk), addresses from which the seek is
  accepted and refused, units 0 and 5. Word and IntMax are small but larger
  than every sum, the case of real images; what happens when they are not is
  left to the assumption `NoOverflow` of the theorems. Lengths 3 and 4 in
  `Ss80Ends` give a last chunk that is short.
- *Amigo*: two cylinders, heads and sectors: every carry of the increment
  happens, at the end and before. `IntMax` is 4, just the largest product of
  this geometry (`FitsExactly`), and `Reach` the least that the ratio of the real
  ones allows; with `IntMax` one smaller a product wraps (section 6). `Byte` is 4, so that an increment can wrap
  beyond the geometry and not inside it, as with 256. The seek targets are the
  first and last sectors, a sector carried into the next head and into the next
  cylinder, and one beyond the end.
- *Emulator*: a configuration like `sdcard/hpdisk.cfg`, an SS80 default, two
  SS80 disks, an AMIGO disk and a printer, fills a table of five devices. The
  texts are that one; it with any line left out or doubled, or any two
  neighbours exchanged; it with a sixth device, empty or not; two defaults
  before a disk; and pairs of disks with addresses and bits inside, at and
  beyond their limits, models with and without an entry, and an image still to
  be made. On the bus, three poll lines are not in the order of the addresses;
  there is one secondary command for listeners (65H), one for AMIGO listeners
  (69H) and one whose meaning depends on talker or listener (70H); a buffer of
  two bytes and five printed bytes (a flush in the middle, one at the close, and
  a rest). The run is for a build without `PPR_REVERSE_BITS` (section 6 for the
  one with).
- *Interrupts*: a tick of two counts and a second of two ticks make every carry
  happen; `HalfWord = 2` makes words of two halves; a ring of two characters
  fills and overflows. Five interrupts are enough to put one between any two
  steps of a call and to run a time-out of two ticks down.
- *Card*: three sectors, so that a transfer of two can end inside and beyond the
  card; `BlockBytes = 2` tells byte addresses from block addresses; a wait of
  one tick can end before or after the answer.
- *Posix*: two names, three clusters for them beside the directory, one
  directory entry per cluster so that the directory grows, two FAT sectors so
  that the window moves; texts of one and three bytes in sectors of two, so
  that files have one and two clusters; a CR alone, an LF and a backspace are
  written, and a card may begin with a file of four bytes, counted as two calls,
  with a CR and LF across the end of a sector or at the end of the file, or an LF
  before a CR; a line of at most three characters (`LineSize`), so that a longer
  one takes two calls; a failure at the second or the fifth
  access of a call, before and between its writes (the second of a mount is the
  one to FSInfo; with four calls instead of
  five, the first, third and seventh make no difference); a
  power cut at every access. Names are interchangeable (`SYMMETRY`).
- *Lif*: a directory of four records, a file area of four sectors: it fills up,
  leaves holes, and a second file does not fit into every one. `SectorSize` is
  11, so that all lengths of three lines around the limits of a sector can be
  tried (`TextsComeBack`). `KeepsRoom`: section 6.
- *Calendar* (assumptions of `MCLif`, which TLC evaluates before the run): every
  day of the years in which a rule or a format begins, changes or ends goes to
  its Gregorian date and comes back, through FAT (1980 on), LIF (before 2070)
  and the clock chip (2000 to 2099) too; fields beyond their ranges carry to the
  time their sum says, up to 2097; summer time starts and ends on the right
  Sundays in zones from one hour east to twelve west; the cache of a day changes
  no answer. `DatesComeBack(1970 .. 2106, 45296)`, every day there is, takes 40
  seconds more and holds as well.

Deadlock is checked in every run but `Interrupts` and `Posix`, whose instances
stop when their interrupts and calls are used up. A handshake in which all bytes have been
sent and every receiver waits is at rest (`Quiet`).

Fairness. `Handshake!FairSpec`: each processor keeps running its loop and does
not miss every pulse of the lines (strong, since a wait condition made true by
another party may go away again), and the tick ends a countdown that is not
restarted. Without faults this gives `AllDelivered`. `TalkerRuns` asks it of
the writer only: `WriterReturns` then rests on its own timeouts.
`Ss80!FairSpec`: the host goes on with a transfer it has begun; nothing is
assumed of messages, clears or new transfers. `Card!FairSpec`: the driver runs
and the tick comes, both of which the processor sees to; nothing is assumed of
the card. A call then ends by its own time-outs, except an initialisation
(section 6).

Each property is also checked against a plausible bug (a dropped wait, a lost
reset, a counter tested late), the definitions marked "mutant" beside the ones
they would replace; TLC finds each of them.

## 4. Theorems

All are proved from the assumptions named in the modules and those in the
table, for any number of parties, bytes, devices, blocks and sectors.

| theorem | says | assumes |
|---|---|---|
| `HandshakeProofs!TypeCorrect` | types | - |
| `OneTalkerLockstep` | `OneTalkerInv` | one talker, no fault |
| `OneTalkerConfirmed` | `ConfirmedDelivered` | the same |
| `OneTalkerChannel` | `Handshake` implements `ByteChannel` | the same |
| `OneTalkerMissesNone` | `NothingMissed` | the same |
| `OneTalkerNeverTwice` | `NeverTwice` | one talker, every fault |
| `OneTalkerOneDriver` | `OneDriver` | one talker, every fault |
| `TwoPartiesOneDriver` | `OneDriver` | two parties, every fault |
| `TwoPartiesTakeTurns` | `ConfirmedDelivered`, `NothingMissed`, `NeverTwice` | two parties that take turns, no fault |
| `Ss80Proofs!TypeCorrect` | types | - |
| `BusySilent` | `BusyIsSilent` | - |
| `NeverInvents` | `NothingInvented` | no keys |
| `StaysInImage` | `InImage` | `NoOverflow` |
| `WriteIsReported` | `WriteReported` | `NoOverflow`, no late timeouts |
| `ReadIsReported` | `ReadReported` | no late timeouts |
| `WritesContinue` | `Continues` | `NoOverflow` |
| `AmigoProofs!TypeCorrect` | types | - |
| `PollsAfterWork` | `PollFollowsWork` | - |
| `KeepsFailures` | `FailureIsKept` | - |
| `FaultsHaveCauses` | `FaultHasCause` | - |
| `StaysOnDisk` | the position is one of the disk's | `HostInGeometry` |
| `StaysInGeometry` | `InGeometry` | `HostInGeometry`, `ProductsFit` |
| `DiskIsLine` | `Amigo` implements `SectorDisk` | `HostInGeometry`, `GeometryFitsBytes`, `ProductsFit` |
| `ProductsMustFit` | `ProductsFit` is what `Lba` needs to count the sectors in order, and no more | `GeometryFitsBytes` |
| `EmulatorProofs!TypeCorrect` | types of the bus | - |
| `SecondaryServedOnce` | `ServedOnce` | - |
| `PollAnswersAsked` | `PollLines` | no `PPR_REVERSE_BITS` |
| `CapturesAreClosed` | `CapturesClosed` | `Orderly` |
| `PrintedBytesCaptured` | `PrintedIsCaptured` | `Orderly` |
| `EveryLineHasItsDevice` | `DescribesOne` | - |
| `TableIsAsWritten` | `ReadAsWritten` | `TextsAssumption` |
| `EmulatorIsSound` | `DescribesOne`, `ReadAsWritten`, `ServedOnce` of the composition | `TextsAssumption` |
| `EmulatorServes` | `PollLines`, `CapturesClosed`, `PrintedIsCaptured` of the composition | `Orderly`, no `PPR_REVERSE_BITS`, `TextsAssumption` |
| `InterruptsProofs!ConsoleInOrder` | `RingInOrder` | - |
| `TimeoutsLast` | `WaitsLast` | not `Torn` |
| `ClockHolds` | `ClockKept` | `ClockAssumption` |
| `CardProofs!CardTypes` | types | - |
| `CardOneTransfer` | `OneTransfer` | - |
| `CardToldTrue` | `ToldTrue` | no `OcrFaults` |
| `LifProofs!FilesInOrder` | `Ordered` | `KeepsRoom` |
| `FilesStayIntact` | `FilesIntact` | `KeepsRoom` |
| `VolumeStaysOpenable` | `StaysOpenable` | `KeepsRoom` |
| `OneFileChanges` | `OneFileAtATime` | `KeepsRoom` |
| `PosixProofs!Safety` | `Between`, the invariant below | - |
| `CardSound` | `Sound` | - |

The arguments:

- *Handshake*. That a confirmed byte has arrived is not inductive: it depends
  on where every receiver is while the talker is in each of its ten states.
  `OneTalkerInv` says so: `LineStates` fixes the lines each party pulls in each
  state, `Follows` which byte each receiver knows or holds for each state of
  the talker, `Logs` what the callers have been given. A step of a receiver is
  a `Take` or `Return` of the channel or a stutter, one of the talker an
  `Offer` or `Confirm`. `NothingMissed` follows.

  With faults the receivers are no longer in step, and `NeverTwice` rests on
  `FaultInv` instead. Whatever the talker gives up, it goes on to later bytes
  only: `Latest` is the one it has turned to, and what a receiver knows is
  `Past`, no longer to be latched by a read that begins now, since the talker
  lets DAV go before it turns to the next byte (`Preparing`). `Awaits` says that
  a receiver has seen DAV low only for a byte it does not know yet, and
  `LogGrows` follows. It says nothing of a receiver that stalls (`Slow`) or has
  a console (`Keyed`), which may read a byte twice.

  `TwoPartiesOneDriver` is for roles that change. A party claims the lines
  (`Claims`) when it has seen NDAC low with its own NDAC released, so the other
  pulls it, and who pulls NDAC claims nothing (`ClaimInv`). Among three parties
  a slow one can be the one that pulls it while two claim, since the model has
  no times; the code relies on its delays there.

  `TwoPartiesTakeTurns` is `OneTalkerInv` without a fixed talker: `RolesInv`
  gives for each state of a party the states the other can be in (`InStep`),
  from one side or from the other. The lemmas split a step into one in which no
  call returns and one after which a party knows the next byte. A party that has
  sent pulls no line until it reads again, so the next talker must not run ahead
  of it: of two, nobody else can pull the NDAC it waits for. Among three another
  receiver can, and TLC finds the old talker missing the byte, still in the
  write that came before: again the delays of the code are all that keeps it.
- *Ss80*. `InImage` needs `RoomLeft`: while a write runs, address and count end
  inside the image; the seek establishes it, provided that no sum wraps.
  `WriteReported` needs `WriteProgress`: until it fails, all that was sent is in
  the image without a gap and `count` is what is missing. `Continues` is about
  a step of it: the one that ends the write leaves the address behind the last
  byte. `ReadReported` needs `ReadInv`: while a read runs, what is left to send
  is what was asked for less what was sent.
- *Amigo*. Each step of the disk keeps dsj, sets it with a cause, or clears it
  with `Errors` (`Outcomes`); the two fault theorems follow. While it verifies or
  formats its response is off (`Silent`), and each of the ways out is `LoopEnds`,
  which turns it on. For the refinement
  the lemmas on `Lba` are the work. As long as its products fit an `int`
  (`ProductsFit`) it is `Place`, the arithmetic without widths (`LbaIsPlace`);
  `amigo_increment` moves `Place` on by one and positions inside the geometry
  have distinct numbers below `Total`, products of three constants that are
  unfolded step by step. The hypothesis cannot be weaker (`ProductsMustFit`): the
  first product that is too large is at most 2 * `IntMax` + 1, wraps once to a
  negative number and becomes a `DWORD` far beyond the disk.
- *GpibTask*. A command that is pending has not been served (`ServedInv`). The
  register is the image of `asked` under `Ppr`, which needs distinct poll bits.
  For the capture, `CaptureInv`: it is open, whole and with one handle exactly
  while the printer listens and somebody but UNT talks, and shut with an empty
  buffer otherwise; a failure excuses the content, never the handle.
- *Emulator*. `ParserInv` is `DescribesOne` with the types of the parser: inside
  a device there are one or two states on the stack, the slot of the index is in
  use and its type leads to the device's state. The stack can only be full of
  start states, and only once the table is full, so a push that is dropped does
  no harm (`Pushed`); a free slot is found unless there is none (`FreeSlot`,
  which needs that the least of some numbers is one of them). Each step of the
  composition is one of `Drives` and one of `GpibTask`, or a stutter of either
  (`Composes`), so what is proved of a part holds of the whole.

  `TableIsAsWritten` compares a parser that goes line by line with `Said`, which
  looks at the whole text. `ReadInv` is `Said` for the lines read so far: slots
  are taken one after the other (`AllPlaces`), the slot of a device holds the
  last thing said of each field, or what it was given when it was begun
  (`InPlace`), and of a device that found no slot nothing has been said that
  matters (`Written`). As long as there is no error a line does one of three
  things (`LineIsInnocent`): it passes an end, opens a device, or sets one field
  of the device that `DescribesOne` says is being described. The default that a
  new device copies is the first one before it (`FirstDefault`). At the end of the text
  the lines read are all lines, `Post_Config` gives `AsSaid`, and addresses are
  searched in the order of the slots, which is that of the text.
  `TextsAssumption` says that a text is a sequence of lines and an argument a
  number.
- *Interrupts*. `RingInv`: the ring from tail to head is what has been stored
  and not read, also in the middle of `uart_get_tail`, when the tail has moved
  and the count has not. `WaitsInv`: of a time-out, the ticks left and the ticks
  passed add up to what was asked, until it is done; for `_mmc_timeout`, while a
  call moves it in halves, the halves already moved agree with the word.
  `SetInv`: as long as no tick has come in its round, what `clock_settime` has
  written of the clock, half by half, is what it was given (`WriteInv`); what it
  has compared agrees with the clock, so the comparison finds a tick among the
  writes, and one among the comparisons has found the right clock and made it
  later (`CompareInv`). `ToldInv`: the clock, counter and pending flag that
  `clock_gettime` has read stand for the time of its call, or for one a tick
  before it if that tick is pending and will be seen (`TellInv`).
- *Card*. `TransferInv`: where a call is says which command it has sent, and the
  card is sending or taking blocks only while its call is at work. `ToldInv`
  adds what a call has done so far: the sectors written are those before the
  card's position, what has been read agrees with what the user was told, and
  the kind the driver goes by is that of the card once the card answers.
- *Lif*. `VolumeInv`: there is an end record, the files before it are in order,
  what the user was told is among them, and the command at work has a record of
  its own and sectors no file has. `Space` says where the room before a record
  starts, `Placing` that the room `lif_newdir` finds is between two neighbours;
  both need that a non-empty set of numbers has a least and, below a bound, a
  greatest member (`Least`, from the well-foundedness of finite sets). `Alters`
  names the one record a step changes, from which `OneFileAtATime` follows.

- *Posix*. `Sound` speaks of the card at every moment of a call, and is far from
  inductive: what the next write does to the card depends on the window, on the
  entry FatFs has found and on what each open file remembers of its chain.
  `MI` is what holds of a machine state anywhere inside a call. The card, every
  content it has had in the call and the *view*, the card with the dirty window
  put back, are each a tree (`TreeI`): no cluster is behind two others
  (`Apart`), the directory is a chain of cleared clusters filled from the front
  (`Filled`), an entry leads to the first cluster of a chain as long as its
  file, and chains of different names are disjoint, unless the names are among
  those the call may double. The window holds what the view has there
  (`Window`), so writing it back changes nothing that counts. Every open file
  knows the first cluster and a cluster of a chain that is its own (`FileIn`).
  It remembers more than its entry, whose cluster and size are written only by a
  sync: so the chain of an open file is longer than its entry says, and the
  invariant keeps it from all others before any entry leads to it.

  Chains are the least sets closed under the links, so no induction is needed to
  speak of them; what a write to the FAT does to them is told by a lemma for each
  of the few writes there are: a free cluster taken, one put behind a last one,
  the first of a chain given back. That a chain is removed from its head, that an entry
  forgets its cluster before the FAT does, that a new cluster is closed before it
  is linked, is what these lemmas need and where they would fail (the
  mutant `OverwriteChainFirst`). A loop of n turns (`Repeat`) keeps what each turn
  keeps (`UpTo`: a set of numbers that has 0 and, with each, the next has all of
  them). Between calls the machine rests as
  `MI` says with the window as it was left, even by a call that failed
  (`Between`); after a power cut the card of any moment is a tree and nothing
  else is known. `Torn` is what a call may not begin with: in a directory
  that has an uncleared cluster, or two names for a chain, `Sound` would be lost.

  The proof found the property itself too strong as first written: it allowed two
  names for a chain only to the rename of the last call, and a rename that fails
  half way leaves them there for good. The next call may be a sync of another
  file. TLC had not met it within its bound of calls; `Sound` now says so.

Only model-checked: liveness (`AllDelivered`, `WriterReturns`, `TransferEnds`,
`Returns`), which is out of reach of the prover; of `Posix`, what the files say
(`Coherent`, `Durable`, `SeesText`), which relates the bytes along a chain, in
order, to a text, where the proofs know a chain as a set; and what
is said of `LifText` and `Calendar`, which rest on recursive definitions. Of
roles that change, nothing is claimed for three parties, and under faults only
`OneDriver`. The types of `Handshake`, `Ss80`, `Amigo`, `GpibTask` and `Card` are
proved and not run.

## 5. Not modelled

- Device table: a configuration that cannot be opened (the table stays empty;
  the built-in one of `SET_DEFAULTS` is not compiled), the cutting of lines into
  tokens, the report of the table on the console, and the geometry on its way
  into the disks, whose own is a parameter. A missing image that is made afresh
  in the middle of a command (`gpib_hal.c`) is left out.
- Controller mode and bus tests: they call the same two functions, the
  controller of `Handshake` plays their part.
- FatFs: long names, sub-directories, the second FAT, `f_mkdir`, `f_truncate`,
  `f_getfree` and the Unicode tables. POSIX layer: the
  streams of the console, `fprintf`, `fread` and `fwrite`, directories, `stat`,
  `truncate`. LIF: extraction to another image, listing.
  Calendar: local time, the texts of dates, the setting of the clock.
- Console: line editing, baud rate, the polled transmitter. Timers: the removal
  of tasks, which nothing calls after start-up.
- SPI, I2C, TWI, LCD, RAM: register access. Strings, parsing, sort, matrix:
  helpers without state. Queues (`lib/queue.c`): compiled, called by nothing.
  `td02lif.c`, `fatfs.sup/` and the commands of `main.c`: sequential console
  commands. Boot loader,
  boards, documents.
- AMIGO opcodes 7EH and 7FH: the code tests `ch == 0x7e && ch == 0x7f`.

The map covers 16% of the repository's implementation lines. A quarter of those
are the tables of `ffunicode.c`; most of the rest are the vendored boot loader
and FatFs options that are not compiled, printing, and console commands.

## 6. Where code and comments disagree

Shown by a run that TLC finds violated:

1. `GpibTaskReversed`: with `PPR_REVERSE_BITS`, which the Makefile sets,
   `ppr_bit_set` and `ppr_bit_clr` change a bit of the register that `ppr_set`
   has already reversed and reverse it again: turning on a second disk's
   response moves the first one's to another line, and a disk that turns its
   own off turns another line on (`gpib_hal.c:158`).

Reproduced with the modules as they are, with other constants:

2. A command byte inside the data of a write is put back by `gpib_read_str`,
   which returns 0 bytes and no error; `SS80_locate_and_write` asks again, for
   ever (`ss80.c:545`; "Loop until we have received Length sectors or EOI").
   `MCSs80` with `FairSpec`, Blocks {0}, Lengths {4}, Units {0}, all faults off
   but `AtnAborts`: `TransferEnds` is violated.
3. A disk failure in a read clears `qstat`, so the report says normal completion
   (`ss80.c:1909`; 360: "Any Disk I/O errors will set qstat and Errors.").
   The same with `Spec` and only `DiskFaults`: `ReadFaultReported`.
4. The head and the cylinder of an AMIGO seek are tested only when the sector
   overflows (`amigo.c:384`; 430: "We should not commit bad head/sector/cylinder
   values until tested!.."). A write there makes the image file longer.
   `MCAmigo` with `Targets <- Beyond`, Counts {0, 2}, Units {0, 1}: `InGeometry`.
   Also: the products of `amigo_chs_to_logical` are ints of 16 bits, cast to
   `long` only when they have wrapped (`amigo.c:361`, 362; 351: "Convert Drive
   CHS position to offset"). Of the drives of hpdir.ini the 7920 reads and writes
   far outside its image from cylinder 137 on, the 7925 from 57 and the 9134XV
   from 177; for the others the products fit, as far as a `uint8_t` cylinder
   goes. `MCAmigo` with `IntMax = 3`, and without its assumption `FitsExactly`,
   which says the opposite: `InGeometry` and `ImplementsDisk` are violated.
5. `mmc_disk_initialize` has a time-out of 2000 ms around its loops, but the
   `wait_ready` of every command inside restarts the one timer with 1000 ms
   (`mmc.c:365`, `387`; comments at 357 and 377): a card that answers and never
   leaves the idle state is waited for without end. `Card` with `FairSpec`,
   Values {1}, `Pulls` FALSE: `InitReturns`.
6. `mmc_test_timeout` reads the 16 bits of `_mmc_timeout` without holding the
   tick off (`mmc_hal.c:180`): with `Torn = TRUE` `WaitsLast` is violated, a
   wait of 256 ms or more may be taken for over, up to 255 ms early, and the
   card for gone.
7. The last hour of a year, local time, passes for summer time: `find_dst` adds
   the hour of summer before it looks up the year, so the end of summer is that
   of the year to come (`lib/time.c:1055`, `1068`), and the cache keeps the answer for
   a day. `LastHourIsSummer` states it, as an assumption of `MCLif`;
   `CacheIsFresh` excepts that hour.
8. If CMD58 is not answered at the end of an initialisation, a high-capacity
   card is taken for one with byte addresses (`mmc.c:412`): with `OcrFaults`
   `ToldTrue` is violated.
9. The file that fills the last LIF directory record has its end record in the
   first sector of the file area (`lifutils.c:1226`-`1241` let index `Capacity`
   pass): with `KeepsRoom = FALSE` `FilesIntact` is violated.
10. `clock_gettime` may read the counter before it wraps and the pending flag
    after, and tell a time one tick ahead (`timer_hal.c:163`); `ClockKept`
    allows that tick and no more.
11. Two moments of FatFs leave a directory that later calls misread: a
    directory that grows is linked to its new cluster before the cluster is
    cleared (`ff.c:1797`), and a rename writes the new entry before it removes
    the old (`ff.c:5153`). `Durable` and later calls leave these two out.
12. `lseek` and `syncfs` set the flag that says a character was put back
    (`posix.c:637`, `1111`; 1110: "reset unget on sync"): with `SoughtToo = TRUE`
    `SeesText` is violated: the character read next is a zero, before the one that is there.

Seen while modelling, kept in the models as the code has them where they are
part of one:

- A talk address opens the capture that a listen address has opened already:
  handle and buffer are lost, and `plot.ind` is kept (`gpib_task.c:867`). A
  data byte without an open capture (after UNT, DCL or a failed open) is stored
  through a null pointer (`printer.c:209`). With `Orderly = FALSE` TLC finds
  both, as violations of `CapturesClosed` and `PrintedIsCaptured`.
- DCL clears only the two active disks and reads through a null pointer when no
  disk of a family is configured (`gpib_task.c:708`). The result of `GPIB` and
  of Identify, IFC included, is dropped (`gpib_task.c:489, 511`).
- `gpib_write_str` counts the byte that fails, so an error on the last byte is
  invisible to callers that compare the count (`gpib.c:1406`): reports, DSJ and
  status bytes can be lost.
- `gpib_read_byte` ends with NDAC released, where its comment (`gpib.c:1040`)
  says both lines are low: between two reads a receiver is not holding the
  bus by NDAC. NRFD, which it keeps low, is what makes a writer wait.
- `ss80.c:490` promises transfers of 2^31 bytes, `count` is an `int` of 16 bits; the seek
  compares a sum that can wrap with the number of the last block, not with the
  number of blocks (`ss80.c:1593`), so the last block is refused for transfers
  that end on it; `Errors` of a bad unit stay until a clear (`ss80.c:980`).
- AMIGO: a verify that runs off the disk reports nothing; after a disk failure
  or a bad message the poll response stays off, though `amigo.c:883` says it is
  enabled on exit; a failed write is reported as a read error; the status sent
  is that of the request; the state is never IDLE again; a format clears dsj
  and not `Errors`; a two-byte cylinder is cut to eight bits.
- Card: `mmc_init` reports success without a card; whether a block was
  programmed is never asked (no CMD13); a sync succeeds after the card was
  pulled; the state "no disk" stays until the next initialisation.
- POSIX layer: a read of the console sets the "unget" flag, too; a failure of the
  card while characters are read or written looks like the end of the file
  (`__SERR` is never set), and that flag stays after a seek; `fgets` puts up to
  `size` characters before the end of its string, one more than its man page; an invalid or "a+" mode opens with flags -1; `truncate`
  never closes its file, and until a sync the directory leads to freed clusters;
  `utime` returns the error instead of -1; `fread` and `fwrite` return bytes;
  `readdir` does not tell the end; `chmod` never gives the right to write back.
- LIF: in fragmented free space `lif_newdir` reserves beyond the end of the image
  (`lifutils.c:1451`); the result of the second pass of a text is not looked at
  (2124); an extraction reads the sector behind the file (2217); the size of a
  read is tested after the write of it (2405); a rename does not look for the
  new name; a line of 253 characters gains an empty line on the board, whose
  `fgets` takes that many (`posix.c:424`); a piece so long that meets the last
  bytes of a sector is refused with -1 (1936), which the caller takes for a size
  (1987): it asks `fwrite` for -1 bytes, 65535 of them, and counts -1.
- Console and timers: a receive overflow sets `rx_error`, which nobody reads;
  `gpib_timer_task` and `uart_rx_flush` turn interrupts on whatever they were.
- Calendar: `normalize` looks up month lengths by `tm_year`, 1900 too small, so
  February of 2100 has 29 days while days are carried and 28 when they are
  counted: such dates are refused; zones more than two hours east change to
  summer time on the wrong day; `localtime_r` asks for summer time at a local
  time though the changes are kept in GMT; LIF dates from 2070 on come back a
  century early; the clock set command does not test seconds.
- Device table: an address or poll bit given for `SS80_DEFAULT` reaches a disk's
  own record and not the table that is searched, while `REMOVABLE_VOLUMES`,
  which `sdcard/hpdisk.cfg` sets there, is not taken over (`drives.c:450`); a disk
  without a PPR line answers on bit 0 by its own record and on none by the table;
  address 31 is accepted and never found; values are cut to eight or sixteen bits
  before they are tested (258 is address 2), `MAX_BLOCK_NUMBER` among them; a
  block size that is said to be adjusted is not; two devices may have one
  address; an empty device that finds the table full is dropped without a word.
- Images: the blocks of an AMIGO disk are the product of its geometry in an
  `int` of 16 bits (`drives.c:801`). For the 7905, 7906, 7910, 7920, 9134B and
  9134XV of hpdir.ini it is negative, and if their image is missing
  `lif_dir_count` halves it for ever (`drives_sup.c:62`): the board never serves
  the bus. The run `Emulator` reaches this as the phase "lost" with a 7910. The
  image of a 7925 has 10,688 sectors of its 469,440.

## 7. Plan

Done: handshake, disks, dispatcher with printer and poll register, the device
table and its composition with the dispatcher, interrupts with console ring and
clock, SD card, FatFs with the POSIX layer, LIF volumes, calendar. What could follow:

1. A composition of `GpibTask` with one `Ss80` in place of `Works`, and of `Card`
   under `Fat` in place of `left`: `ToldTrue` and `OneTransfer` are what `Fat`
   assumes of the card.
2. Sub-directories and `f_truncate` in `Fat`; extraction in `Lif`.
3. The delays of the handshake, which its properties need when roles change among
   three parties. A proof of `Coherent` and `Durable`: on top of `Between`, the
   order of the clusters in a chain and what each sector of it holds.
