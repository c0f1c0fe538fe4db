----------------------------- MODULE MCEmulator ------------------------------
(* Instances of Emulator: the disks and the printer of MCGpibTask in a     *)
(* configuration like sdcard/hpdisk.cfg; that file with a line missing,    *)
(* twice or out of place, or with a device too many; texts of two single   *)
(* disks; and one with two defaults.                                       *)
EXTENDS Emulator, TLC

CONSTANTS s1, s2, a1, a2, pr, ctl

PprOf == s1 :> 0 @@ s2 :> 2 @@ a1 :> 1

Bare(token) == [token |-> token, name |-> NoName, val |-> 0]
Num(token, val) == [token |-> token, name |-> NoName, val |-> val]
Named(token, name) == [token |-> token, name |-> name, val |-> 0]
End == Bare("END")

DiskText(token, model, addr, bit, file) ==
  <<Named(token, model), Bare("HEADER"), Num("ADDRESS", addr), Num("PPR", bit),
    Named("FILE", file), End, End>>

Hpdisk ==
  <<Num("DEBUG", 1),
    Bare("SS80_DEFAULT"), Bare("UNIT"), Num("BYTES_PER_BLOCK", 256),
    Num("REMOVABLE_VOLUMES", 1), End, Bare("VOLUME"), Num("INTERLEAVE", 1), End, End>>
  \o DiskText("AMIGO", "9121", 0, 1, a1)
  \o DiskText("SS80", "9134D", 2, 0, s1) \o DiskText("CS80", "9134D", 3, 2, s2)
  \o <<Bare("PRINTER"), Bare("CONFIG"), Num("ADDRESS", 5), End, End>>

DefaultText(block, time) ==
  <<Bare("SS80_DEFAULT"), Bare("UNIT"), Num("BYTES_PER_BLOCK", block),
    Num("ACCESS_TIME", time), End, End>>

Without(s, i) == SubSeq(s, 1, i - 1) \o SubSeq(s, i + 1, Len(s))
Twice(s, i) == SubSeq(s, 1, i) \o SubSeq(s, i, Len(s))
Swapped(s, i) == [s EXCEPT ![i] = s[i + 1], ![i + 1] = s[i]]

SomeTexts ==
  {DefaultText(512, 1) \o DefaultText(256, 2) \o DiskText("SS80", "none", 2, 0, s1),
   Hpdisk, Hpdisk \o DiskText("AMIGO", "9121", 4, 4, a2), Hpdisk \o <<Bare("AMIGO"), End>>}
  \cup {Without(Hpdisk, i) : i \in 1 .. Len(Hpdisk)}
  \cup {Twice(Hpdisk, i) : i \in 1 .. Len(Hpdisk)}
  \cup {Swapped(Hpdisk, i) : i \in 1 .. Len(Hpdisk) - 1}
  \cup {DiskText(d, m, addr, bit, s1) \o DiskText(d, m, 30, 0, a2) :
          d \in {"SS80", "AMIGO"}, m \in {"9134D", "7910", "none"},
          addr \in {30, 31, 32, 258}, bit \in {7, 8}}

(* Of hpdir.ini: headings, and a floppy, a Winchester disk and a larger one. *)
Ini ==
  <<[token |-> "[fsinfo]"], [token |-> "9121"], [token |-> "[driveinfo]"],
    [token |-> "9121",  ID |-> 260, DEVICE_NUMBER |-> 0, CYLINDERS |-> 35, HEADS |-> 2,
     SECTORS |-> 16, BYTES |-> 256],
    [token |-> "7910",  ID |-> 1,   DEVICE_NUMBER |-> 0, CYLINDERS |-> 735, HEADS |-> 2,
     SECTORS |-> 32, BYTES |-> 256],
    [token |-> "9134D", ID |-> 546, DEVICE_NUMBER |-> 594752, CYLINDERS |-> 303,
     HEADS |-> 6, SECTORS |-> 32, BYTES |-> 256],
    [token |-> "[other]"], [token |-> "none"]>>

OnCard == a1 :> [dir |-> 32, blocks |-> 1120]
==============================================================================
