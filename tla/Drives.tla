------------------------------- MODULE Drives --------------------------------
(***************************************************************************)
(* The device table, gpib/drives.c and drives_sup.c: how the configuration *)
(* file makes it, line by line, how a bus address finds a device in it,    *)
(* and which images are made for it.                                       *)
(*                                                                         *)
(* A line of the configuration is a record of what get_token and get_value *)
(* make of it: its token, and its argument as a name and as a number; the  *)
(* lines without a token and the comments are left out, and so is the      *)
(* debug level.  A number fits a long.  An index is 0 where the code has   *)
(* -1 or a null pointer.                                                   *)
(***************************************************************************)
EXTENDS Integers, Sequences, FiniteSetsExt

CONSTANTS
  MaxDevices,   \* MAX_DEVICES, 12
  MaxStack,     \* MAX_STACK, 5
  Hpdir,        \* the lines of hpdir.ini: their first token and their numbers
  Texts,        \* configuration files
  Files,        \* the images there are before, each with its sectors
  NoName        \* an empty string or none

ASSUME DrivesAssumption ==
  MaxDevices \in Nat \ {0} /\ MaxStack \in Nat /\ MaxStack >= 2

(* A text is a sequence of lines.                                          *)
ASSUME TextsAssumption ==
  \A t \in Texts : /\ t \in Seq({t[i] : i \in DOMAIN t})
                   /\ \A i \in DOMAIN t : t[i].val \in Int

Slots == 1 .. MaxDevices

First(S) == IF S = {} THEN 0 ELSE Min(S)

-----------------------------------------------------------------------------
(* The fields of a device, by the section that sets them.                  *)
Sections ==
  [PRINTER_CONFIG  |-> {"ADDRESS"},
   SS80_HEADER     |-> {"ADDRESS", "PPR", "FILE"},
   SS80_CONFIG     |-> {"ID"},
   SS80_CONTROLLER |-> {"UNITS_INSTALLED", "TRANSFER_RATE", "TYPE"},
   SS80_UNIT       |-> {"UNIT_TYPE", "DEVICE_NUMBER", "BYTES_PER_BLOCK", "BUFFERED_BLOCKS",
                        "BURST_SIZE", "BLOCK_TIME", "CONTINUOUS_TRANSFER_RATE",
                        "OPTIMAL_RETRY_TIME", "ACCESS_TIME", "MAXIMUM_INTERLEAVE",
                        "FIXED_VOLUMES", "REMOVABLE_VOLUMES"},
   SS80_VOLUME     |-> {"MAX_CYLINDER", "MAX_HEAD", "MAX_SECTOR", "MAX_BLOCK_NUMBER",
                        "INTERLEAVE"},
   AMIGO_HEADER    |-> {"ADDRESS", "PPR", "FILE"},
   AMIGO_CONFIG    |-> {"ID"},
   AMIGO_GEOMETRY  |-> {"BYTES_PER_SECTOR", "SECTORS_PER_TRACK", "HEADS", "CYLINDERS"}]

(* The sections of a device, and the states its opening line leads to.     *)
Parts ==
  [PRINTER_STATE |-> [CONFIG |-> "PRINTER_CONFIG"],
   SS80_STATE    |-> [HEADER |-> "SS80_HEADER", CONFIG |-> "SS80_CONFIG",
                      CONTROLLER |-> "SS80_CONTROLLER", UNIT |-> "SS80_UNIT",
                      VOLUME |-> "SS80_VOLUME"],
   AMIGO_STATE   |-> [HEADER |-> "AMIGO_HEADER", CONFIG |-> "AMIGO_CONFIG",
                      GEOMETRY |-> "AMIGO_GEOMETRY"]]

States == {"START_STATE"} \cup DOMAIN Parts \cup DOMAIN Sections

(* The lines that begin a device: its type and the state they lead to.     *)
Openings ==
  [SS80_DEFAULT |-> [type |-> "SS80_DEFAULT_TYPE", state |-> "SS80_STATE"],
   SS80         |-> [type |-> "SS80_TYPE",         state |-> "SS80_STATE"],
   CS80         |-> [type |-> "SS80_TYPE",         state |-> "SS80_STATE"],
   AMIGO        |-> [type |-> "AMIGO_TYPE",        state |-> "AMIGO_STATE"],
   PRINTER      |-> [type |-> "PRINTER_TYPE",      state |-> "PRINTER_STATE"]]

Types == {Openings[t].type : t \in DOMAIN Openings}

StateOf(type) ==
  CASE type \in {"SS80_TYPE", "SS80_DEFAULT_TYPE"} -> "SS80_STATE"
    [] type = "AMIGO_TYPE" -> "AMIGO_STATE"
    [] OTHER -> "PRINTER_STATE"

PartsOf(device) == {Parts[device][t] : t \in DOMAIN Parts[device]}

FieldsOf(type) == {"FILE", "PPR"} \cup UNION {Sections[s] : s \in PartsOf(StateOf(type))}

(***************************************************************************)
(* What is kept of a number: first what the union val and the field hold   *)
(* of it, and only then the range is looked at.                            *)
(***************************************************************************)
Bytes == {"ADDRESS", "PPR", "TYPE", "UNIT_TYPE", "BUFFERED_BLOCKS", "BURST_SIZE",
          "MAXIMUM_INTERLEAVE", "FIXED_VOLUMES", "REMOVABLE_VOLUMES", "MAX_HEAD", "INTERLEAVE"}
Longs == {"DEVICE_NUMBER", "MAX_CYLINDER"}
Signed == {"SECTORS_PER_TRACK", "HEADS", "CYLINDERS"}

Limit == [ADDRESS |-> 31, PPR |-> 7, BYTES_PER_BLOCK |-> 4096, BYTES_PER_SECTOR |-> 4096,
          BUFFERED_BLOCKS |-> 1, BURST_SIZE |-> 0]
Instead == [ADDRESS |-> 255, PPR |-> 255, BYTES_PER_BLOCK |-> 256, BYTES_PER_SECTOR |-> 256,
            BUFFERED_BLOCKS |-> 1, BURST_SIZE |-> 0]

Int16(n) == ((n + 32768) % 65536) - 32768

Cut(field, n) ==
  CASE field \in Bytes  -> n % 256
    [] field \in Longs  -> n
    [] field \in Signed -> Int16(n)
    [] OTHER            -> n % 65536

TooLarge(field, n) == field \in DOMAIN Limit /\ Cut(field, n) > Limit[field]

Kept(field, n) == IF TooLarge(field, n) THEN Instead[field] ELSE Cut(field, n)

-----------------------------------------------------------------------------
(* Devices[] and find_type.                                                *)
NoDevice == [TYPE |-> "NO_TYPE", ADDRESS |-> 0, PPR |-> 255, BLOCKS |-> 0,
             model |-> NoName, dev |-> << >>]

find_type(table, type) == First({i \in Slots : table[i].TYPE = type})

Zeroed(type) == [f \in FieldsOf(type) |-> IF f = "FILE" THEN NoName ELSE 0]

(* SS80_Set_Defaults: one field of the default is not taken over.          *)
NotDefaulted == {"REMOVABLE_VOLUMES"}

Defaulted(table, dev) ==
  LET d == find_type(table, "SS80_DEFAULT_TYPE")
  IN IF d = 0 THEN dev
     ELSE [f \in DOMAIN dev |-> IF f \in NotDefaulted THEN dev[f] ELSE table[d].dev[f]]

(* alloc_device in the slot of find_free.                                  *)
Allocated(table, type) ==
  [NoDevice EXCEPT !.TYPE = type,
                   !.dev = IF type = "SS80_TYPE" THEN Defaulted(table, Zeroed(type))
                           ELSE Zeroed(type)]

(* hpdir_find_drive: the first line of that model in the section of the    *)
(* drives, which the next heading ends.                                    *)
Heading(i) == Hpdir[i].token \in {"[driveinfo]", "[other]"}

DriveLines ==
  LET from == First({i \in DOMAIN Hpdir : Hpdir[i].token = "[driveinfo]"})
  IN {i \in DOMAIN Hpdir : from # 0 /\ i > from /\ ~\E j \in from + 1 .. i : Heading(j)}

hpdir_find_drive(model) == First({i \in DriveLines : Hpdir[i].token = model})

(* hpdir_set_device: the fields that are set; what the drive is listed as, *)
(* AMIGO or SS80, is not looked at.                                        *)
Blocks(h) == h.CYLINDERS * h.HEADS * h.SECTORS

ModelFields(type, h) ==
  IF type = "SS80_TYPE"
    THEN [ID |-> h.ID % 65536, DEVICE_NUMBER |-> h.DEVICE_NUMBER,
          BYTES_PER_BLOCK |-> h.BYTES % 65536, MAX_CYLINDER |-> 0, MAX_HEAD |-> 0,
          MAX_SECTOR |-> 0, MAX_BLOCK_NUMBER |-> Blocks(h) - 1]
    ELSE [ID |-> h.ID % 65536, BYTES_PER_SECTOR |-> Int16(h.BYTES),
          SECTORS_PER_TRACK |-> Int16(h.SECTORS), HEADS |-> Int16(h.HEADS),
          CYLINDERS |-> Int16(h.CYLINDERS)]

(* Has the opening line of such a device a model that is listed?           *)
IsModel(type, model) == type \in {"SS80_TYPE", "AMIGO_TYPE"} /\ hpdir_find_drive(model) # 0

WithModel(device, model) ==  \* hpdir_set_parameters
  LET h == Hpdir[hpdir_find_drive(model)]
      set == ModelFields(device.TYPE, h)
  IN IF ~IsModel(device.TYPE, model) THEN device
     ELSE [device EXCEPT !.BLOCKS = Blocks(h), !.model = model,
             !.dev = [f \in DOMAIN @ |-> IF f \in DOMAIN set THEN set[f] ELSE @[f]]]

(***************************************************************************)
(* The parser of Read_Config.  The pointer to the device's own record is   *)
(* one of three variables, chosen by the state; the index is shared.       *)
(***************************************************************************)
init_Devices ==
  [state |-> "START_STATE", stack |-> << >>, index |-> 0,
   pointer |-> [s \in DOMAIN Parts |-> 0],
   table |-> [i \in Slots |-> NoDevice], errors |-> 0]

Wrong(p) == [p EXCEPT !.errors = @ + 1]

(* push_state; that the stack was full is not looked at.                   *)
Entered(p, state) ==
  [p EXCEPT !.state = state,
            !.stack = IF Len(@) < MaxStack THEN Append(@, p.state) ELSE @]

EndLine(p) ==  \* pop_state
  IF p.stack = << >> THEN [p EXCEPT !.state = "START_STATE"]
  ELSE [p EXCEPT !.state = p.stack[Len(p.stack)],
                 !.stack = SubSeq(@, 1, Len(@) - 1)]

StartLineStays(p, line) ==  \* mutant: a full table does not take the state back
  LET new == Openings[line.token]
      free == find_type(p.table, "NO_TYPE")
      in == Entered(p, new.state)
  IN IF line.token \in {"DEBUG", "PRINTER_DEFAULT_ADDRESS"} THEN p
     ELSE IF line.token \notin DOMAIN Openings THEN Wrong(p)
     ELSE IF free = 0 THEN [in EXCEPT !.index = 0]
     ELSE [in EXCEPT !.index = free, !.pointer[new.state] = free,
             !.table[free] = WithModel(Allocated(p.table, new.type), line.name)]

StartLine(p, line) ==
  LET new == Openings[line.token]
      free == find_type(p.table, "NO_TYPE")
      in == Entered(p, new.state)
  IN IF line.token \in {"DEBUG", "PRINTER_DEFAULT_ADDRESS"} THEN p
     ELSE IF line.token \notin DOMAIN Openings THEN Wrong(p)
     ELSE IF free = 0 THEN [in EXCEPT !.state = "START_STATE", !.index = 0]
     ELSE [in EXCEPT !.index = free, !.pointer[new.state] = free,
             !.table[free] = WithModel(Allocated(p.table, new.type), line.name)]

DeviceLine(p, line) ==
  IF line.token \in DOMAIN Parts[p.state] THEN Entered(p, Parts[p.state][line.token])
  ELSE Wrong(p)

Spelled(token) ==
  IF token = "CONTINOUS_TRANSFER_RATE" THEN "CONTINUOUS_TRANSFER_RATE" ELSE token

(* The device whose section this is.                                       *)
Of(state) == CHOOSE d \in DOMAIN Parts : state \in PartsOf(d)

(* An address and a poll bit are kept twice, in Devices[] and in the       *)
(* device's own record; a printer has no poll bit.                         *)
EntryOfBit(device, section, field, value) ==  \* mutant: the address is kept once only
  IF field = "PPR" THEN [device EXCEPT !.PPR = value] ELSE device

Entry(device, section, field, value) ==
  CASE field = "ADDRESS" ->
         [device EXCEPT !.ADDRESS = value, !.PPR = IF section = "PRINTER_CONFIG" THEN 255 ELSE @]
    [] field = "PPR" -> [device EXCEPT !.PPR = value]
    [] OTHER -> device

Own(dev, section, field, value) ==
  [f \in DOMAIN dev |-> IF f = field THEN value
                        ELSE IF f = "PPR" /\ section = "PRINTER_CONFIG" THEN 255 ELSE dev[f]]

SectionLine(p, line) ==
  LET field == Spelled(line.token)
      value == IF field = "FILE" THEN line.name ELSE Kept(field, line.val)
      own == p.pointer[Of(p.state)]
      entry == [p.table EXCEPT ![p.index] = Entry(@, p.state, field, value)]
      bad == field # "FILE" /\ TooLarge(field, line.val)
  IN IF p.state = "AMIGO_HEADER" /\ field = "DRIVE" THEN p
     ELSE IF field \notin Sections[p.state] THEN Wrong(p)
     ELSE [p EXCEPT !.table = [entry EXCEPT ![own].dev = Own(@, p.state, field, value)],
                    !.errors = IF bad THEN @ + 1 ELSE @]

ParseLine(p, line) ==
  CASE line.token = "END"         -> EndLine(p)
    [] line.token # "END" /\ p.state = "START_STATE"      -> StartLine(p, line)
    [] line.token # "END" /\ p.state \in DOMAIN Parts     -> DeviceLine(p, line)
    [] line.token # "END" /\ p.state \in DOMAIN Sections  -> SectionLine(p, line)

(* Post_Config.  An int has 16 bits, and the product of an AMIGO drive's   *)
(* geometry is one; the blocks of hpdir.ini, in longs, are overwritten.    *)
(* BLOCKS has no sign, but is read back as a long.                         *)
Posted(device) ==
  CASE device.TYPE = "SS80_TYPE" ->
         [device EXCEPT !.BLOCKS = device.dev["MAX_BLOCK_NUMBER"] + 1]
    [] device.TYPE = "AMIGO_TYPE" ->
         LET dev == device.dev
         IN [device EXCEPT
               !.BLOCKS = Int16(Int16(dev["SECTORS_PER_TRACK"] * dev["HEADS"]) * dev["CYLINDERS"]),
               !.dev["BYTES_PER_SECTOR"] = 256]
    [] OTHER -> device

-----------------------------------------------------------------------------
(* The bus: BASE_MLA, BASE_MTA and BASE_MSA.                               *)
Bases == {32, 64, 96}

find_device(table, type, address, base) ==
  IF address < 32 \/ address > 96 + 30 \/ address < base \/ address > base + 30 THEN 0
  ELSE First({i \in Slots : table[i].TYPE = type /\ table[i].ADDRESS = address - base})

Active == [SS80_TYPE |-> "ss80", AMIGO_TYPE |-> "amigo", PRINTER_TYPE |-> "printer"]

(* set_active_device: the active devices, and whether there was one to set. *)
set_active_device(table, active, index) ==
  IF index = 0 \/ table[index].ADDRESS > 30 \/ table[index].TYPE \notin DOMAIN Active
    THEN [active |-> active, ok |-> FALSE]
    ELSE [active |-> [active EXCEPT ![Active[table[index].TYPE]] = index], ok |-> TRUE]

(* SS80_is_MLA and its eight fellows.                                      *)
Addressed(table, active, type, address, base) ==
  set_active_device(table, active, find_device(table, type, address, base))

-----------------------------------------------------------------------------
(* format_drives: an image for each disk whose file is missing.            *)

(* The bits of a number of blocks, halved; the loop of a negative one,     *)
(* which shifting never makes 0, does not end.                             *)
BitLength(n) == IF n = 0 THEN 0 ELSE Min({k \in 1 .. 31 : n \div 2 ^ (k - 1) = 1})
lif_dir_count(blocks) == 2 ^ (BitLength(blocks) \div 2)

IsDisk(device) == device.TYPE \in {"SS80_TYPE", "AMIGO_TYPE"}

Blocksize(device) ==
  IF device.TYPE = "SS80_TYPE" THEN device.dev["BYTES_PER_BLOCK"]
  ELSE device.dev["BYTES_PER_SECTOR"]

(* lif_create_image writes two sectors and the directory in any case.      *)
Image(device) ==
  LET dir == lif_dir_count(device.BLOCKS)
  IN [dir |-> dir, blocks |-> Max({device.BLOCKS, 2 + dir})]

-----------------------------------------------------------------------------
VARIABLES
  text,     \* /hpdisk.cfg
  at,       \* how many lines of it have been read
  config,   \* the parser
  image,    \* the images by name: the sectors of their directories and their own
  slot,     \* where format_drives is
  phase     \* reading, formatting, running, or lost in a loop that does not end

boot == <<text, at, config, image, slot, phase>>

BootInit ==
  /\ text \in Texts /\ at = 0 /\ config = init_Devices
  /\ image = Files /\ slot = 1
  /\ phase = "reading"

ReadLine ==
  /\ phase = "reading" /\ at < Len(text)
  /\ at' = at + 1
  /\ config' = ParseLine(config, text[at + 1])
  /\ UNCHANGED <<text, image, slot, phase>>

(* The end of Read_Config; the errors are shown on the console, and the    *)
(* program goes on.                                                        *)
EndOfFile ==
  /\ phase = "reading" /\ at = Len(text)
  /\ config' = [config EXCEPT !.table = [i \in Slots |-> Posted(@[i])],
                              !.errors = IF config.state # "START_STATE" THEN @ + 1 ELSE @]
  /\ phase' = "formatting"
  /\ UNCHANGED <<text, at, image, slot>>

(* An image can be made of this device, and its file is missing.           *)
Missing(device) ==
  /\ IsDisk(device) /\ device.dev["FILE"] \notin DOMAIN image
  /\ Blocksize(device) = 256

(* A turn of format_drives; lif_create_image refuses an empty name and an  *)
(* image without sectors.                                                  *)
FormatSlot ==
  LET device == config.table[slot]
      name == device.dev["FILE"]
  IN /\ phase = "formatting"
     /\ Missing(device) => device.BLOCKS >= 0
     /\ image' = IF Missing(device) /\ name # NoName /\ device.BLOCKS > 0
                   THEN [f \in DOMAIN image \cup {name} |->
                           IF f = name THEN Image(device) ELSE image[f]]
                   ELSE image
     /\ IF slot = MaxDevices THEN phase' = "running" /\ UNCHANGED slot
                             ELSE slot' = slot + 1 /\ UNCHANGED phase
     /\ UNCHANGED <<text, at, config>>

FormatForever ==
  /\ phase = "formatting"
  /\ Missing(config.table[slot]) /\ config.table[slot].BLOCKS < 0
  /\ phase' = "lost"
  /\ UNCHANGED <<text, at, config, image, slot>>

BootNext == ReadLine \/ EndOfFile \/ FormatSlot \/ FormatForever

BootSpec == BootInit /\ [][BootNext]_boot

(***************************************************************************)
(* Correctness.                                                            *)
(***************************************************************************)
DeviceOf(state) == IF state \in DOMAIN Parts THEN state ELSE Of(state)

(* Where the parser is in a device: the device's state and the sections'   *)
(* that are open around it are on the stack, the index and the pointer of  *)
(* that type are the device's.  At the start nothing is open but, once the *)
(* table is full, devices that were not entered.                           *)
Described(p) ==
  IF p.state = "START_STATE"
    THEN /\ \A k \in 1 .. Len(p.stack) : p.stack[k] = "START_STATE"
         /\ p.stack # << >> => \A i \in Slots : p.table[i].TYPE # "NO_TYPE"
    ELSE /\ p.stack = IF p.state \in DOMAIN Parts THEN <<"START_STATE">>
                      ELSE <<"START_STATE", Of(p.state)>>
         /\ p.index \in Slots
         /\ p.pointer[DeviceOf(p.state)] = p.index
         /\ p.table[p.index].TYPE \in Types
         /\ StateOf(p.table[p.index].TYPE) = DeviceOf(p.state)

(* Between its opening line and its END, and only there, a device is being *)
(* described, and the state, the stack, the index and the pointer of the   *)
(* parser agree on which: every value the file gives goes to the device    *)
(* that is written around it.  This is what Read_Config relies on, which   *)
(* tests none of the four against the others.                              *)
DescribesOne == Described(config)

(* What the file says, read by a person: a device is described by the      *)
(* lines from its own to the next device's, the last on a field counts.    *)
Begins == {k \in 1 .. Len(text) : text[k].token \in DOMAIN Openings}
Before(k) == {j \in Begins : j < k}
About(k) == {j \in k + 1 .. Len(text) : ~\E b \in Begins : k < b /\ b <= j}
On(k, field) == {j \in About(k) : Spelled(text[j].token) = field}

Value(k, field) ==
  LET line == text[Max(On(k, field))]
  IN IF field = "FILE" THEN line.name ELSE Kept(field, line.val)

TypeOf(k) == Openings[text[k].token].type

(* The first default before a disk has no more than its lines.             *)
Default(k, field) ==
  LET d == Min({j \in Before(k) : text[j].token = "SS80_DEFAULT"})
  IN IF On(d, field) # {} THEN Value(d, field) ELSE Zeroed("SS80_TYPE")[field]

HasDefault(k, field) ==
  /\ TypeOf(k) = "SS80_TYPE" /\ field \notin NotDefaulted
  /\ \E j \in Before(k) : text[j].token = "SS80_DEFAULT"

(* The device's own lines go before its model, the model before a default. *)
Said(k, field) ==
  LET model == text[k].name
      h == Hpdir[hpdir_find_drive(model)]
  IN CASE field = "BYTES_PER_SECTOR" -> 256
       [] field # "BYTES_PER_SECTOR" /\ On(k, field) # {} -> Value(k, field)
       [] field # "BYTES_PER_SECTOR" /\ On(k, field) = {} ->
            IF IsModel(TypeOf(k), model) /\ field \in DOMAIN ModelFields(TypeOf(k), h)
              THEN ModelFields(TypeOf(k), h)[field]
            ELSE IF HasDefault(k, field) THEN Default(k, field)
            ELSE Zeroed(TypeOf(k))[field]

AddressOf(k) == IF On(k, "ADDRESS") # {} THEN Value(k, "ADDRESS") ELSE 0

(* The device answers at its address, unless another of its type that is   *)
(* described before it does.                                               *)
Answers(k, n) ==
  LET first == \A j \in Before(k) : TypeOf(j) = TypeOf(k) => AddressOf(j) # AddressOf(k)
      none == [d \in {"ss80", "amigo", "printer"} |-> 0]
  IN TypeOf(k) \in DOMAIN Active /\ AddressOf(k) <= 30 /\ first =>
       \A base \in Bases :
         Addressed(config.table, none, TypeOf(k), base + AddressOf(k), base)
           = [active |-> [none EXCEPT ![Active[TypeOf(k)]] = n], ok |-> TRUE]

(* A file that is read without an error is read as a person would: no      *)
(* field of another device's, none lost, whatever lines are missing, twice *)
(* or out of place, and each device answers at its address.  A device the  *)
(* table has no room for is an error too, unless it is an empty one.       *)
ReadAsWritten ==
  phase = "formatting" /\ config.errors = 0 =>
    \A k \in Begins :
      LET n == Cardinality(Before(k)) + 1
      IN IF n > MaxDevices
           THEN \A j \in About(k) : text[j].token \in {"END", "DEBUG", "PRINTER_DEFAULT_ADDRESS"}
           ELSE /\ config.table[n].TYPE = TypeOf(k)
                /\ \A f \in UNION {Sections[s] : s \in PartsOf(StateOf(TypeOf(k)))} :
                     config.table[n].dev[f] = Said(k, f)
                /\ Answers(k, n)
==============================================================================
