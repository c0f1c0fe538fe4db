------------------------------ MODULE Emulator -------------------------------
(***************************************************************************)
(* main.c: gpib_file_init reads the configuration, format_drives makes the *)
(* images, and gpib_task serves the bus with the table they leave.  The    *)
(* disks of GpibTask are named by their image files.                       *)
(***************************************************************************)
EXTENDS GpibTask, Drives

CONSTANT Followed   \* the configuration under which the bus is followed

Type(d) == IF d \in SS80s THEN "SS80_TYPE" ELSE "AMIGO_TYPE"

Holds(i, d) == config.table[i].TYPE = Type(d) /\ config.table[i].dev["FILE"] = d

FirstOf(type, d) == LET i == find_type(config.table, type) IN i # 0 /\ Holds(i, d)

(* Is this the table GpibTask's constants describe?                        *)
TableOfTheBus ==
  /\ \A d \in Disks : \E i \in Slots :
       /\ Holds(i, d) /\ config.table[i].dev["PPR"] = Ppr[d]
       /\ find_device(config.table, Type(d), 32 + config.table[i].ADDRESS, 32) = i
  /\ FirstOf("SS80_TYPE", FirstSs80) /\ FirstOf("AMIGO_TYPE", FirstAmigo)
  /\ Printers # {} => find_type(config.table, "PRINTER_TYPE") # 0

EmulatorInit == BootInit /\ Init

Booting == BootNext /\ UNCHANGED vars

Serving ==
  /\ phase = "running" /\ text = Followed /\ TableOfTheBus
  /\ Next /\ UNCHANGED boot

(* The bus under another configuration is not followed.                    *)
Elsewhere ==
  /\ phase = "lost" \/ (phase = "running" /\ text # Followed)
  /\ UNCHANGED <<vars, boot>>

EmulatorNext == Booting \/ Serving \/ Elsewhere

EmulatorSpec == EmulatorInit /\ [][EmulatorNext]_<<vars, boot>>
==============================================================================
