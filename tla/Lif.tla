-------------------------------- MODULE Lif ---------------------------------
(***************************************************************************)
(* A LIF volume in an image file, and the console commands on it:          *)
(* lif/lifutils.c.  A command opens the volume, works and closes it; its   *)
(* writes are steps, so that the power can go, or a write can fail,        *)
(* between any two of them.  Nobody else uses the volume meanwhile.        *)
(*                                                                         *)
(* Sectors are numbered from the start of the image.  A sector of the file *)
(* area holds Part(u, k), part k of the user's file u, or Blank, or a      *)
(* directory record that was written there.  Dates, labels, types of files *)
(* and the size in bytes are left out.                                     *)
(***************************************************************************)
EXTENDS Integers, FiniteSets, FiniteSetsExt

CONSTANTS
  Names,             \* file names
  Users,             \* the user's files, to be added
  Sectors,           \* [Users -> Nat]: their sizes, in sectors of the volume
  Texts,             \* those added as text ("lif add"), the others by "lif addbin"
  DirSectors,        \* sectors of the directory
  RecordsPerSector,  \* directory records in a sector (8 in the code)
  FileSectors,       \* sectors of the file area of a new volume
  MaxSectors,        \* bound: the largest image
  KeepsRoom,         \* TRUE: the user leaves the last directory record unused
  None

ASSUME SizesAssumption ==
  /\ DirSectors \in Nat \ {0} /\ RecordsPerSector \in Nat \ {0}
  /\ FileSectors \in Nat /\ MaxSectors \in Nat
  /\ Sectors \in [Users -> Nat] /\ Texts \subseteq Users
  /\ None \notin Names \cup Users

DirStart  == 2
FileStart == DirStart + DirSectors
Capacity  == DirSectors * RecordsPerSector
ASSUME RoomAssumption == FileStart + FileSectors <= MaxSectors

Purged == [type |-> "purged"]
Eof    == [type |-> "eof"]
Bad    == [type |-> "bad"]
File(n, u, s) == [type |-> "file", name |-> n, start |-> s, sectors |-> Sectors[u]]

Blank   == [type |-> "blank"]
Part(u, k) == [type |-> "part", user |-> u, part |-> k]

VARIABLES
  size,  \* sectors of the image file; 0 when there is none
  dir,   \* [0 .. Capacity-1 -> records]
  data,  \* [FileStart .. MaxSectors-1 -> contents]
  op,    \* the command at work
  kept   \* bookkeeping: [0 .. Capacity -> [name, user] or None], the files the
         \* user was told are there, by directory index

vars   == <<size, dir, data, op, kept>>
volume == <<size, dir, data>>
Idle   == [do |-> "idle"]

-----------------------------------------------------------------------------
(* lif_readdirindex.  lif_checkdirindex lets index Capacity pass: that     *)
(* record would be the first of the file area.  What a file has there is   *)
(* not a valid record, zeros are a purged one.                             *)
ReadDir(i) ==
  IF i \in 0 .. Capacity - 1 THEN dir[i]
  ELSE IF i # Capacity \/ size <= FileStart THEN Bad
  ELSE IF data[FileStart].type = "part" THEN Bad
  ELSE IF data[FileStart] = Blank THEN Purged ELSE data[FileStart]

(* lif_check_dir: only a file is looked at.                                *)
CheckDir(r, limit) ==
  /\ r # Bad
  /\ r.type = "file" => r.start >= FileStart /\ r.start + r.sectors <= limit

InBounds(i) == i \in 0 .. Capacity

(* The write of one record (lif_writedirindex): the directory, or the first *)
(* sector of the file area.                                                *)
DirWith(i, r) == IF i \in DOMAIN dir THEN [dir EXCEPT ![i] = r] ELSE dir
DataWith(i, r) == IF i = Capacity THEN [data EXCEPT ![FileStart] = r] ELSE data
SizeWith(i) == IF i = Capacity /\ size <= FileStart THEN FileStart + 1 ELSE size

(* lif_updatefree walks to the end record, and fails at a bad one.         *)
Ends == {e \in 0 .. Capacity :
           /\ ReadDir(e) = Eof
           /\ \A i \in 0 .. e - 1 : CheckDir(ReadDir(i), size) /\ ReadDir(i) # Eof}
EofIndex == CHOOSE e \in Ends : TRUE

(* lif_open_volume and lif_check_volume: the image is there, longer than   *)
(* its directory, and the directory can be walked.                         *)
Opens == size >= 2 /\ FileStart <= size /\ Ends # {}

(* ... and lif_updatefree moves the end down over purged records before it. *)
Trimmed(e) == Min({p \in 0 .. e : \A i \in p .. e - 1 : ReadDir(i) = Purged})

IsFile(i) == ReadDir(i) \notin {Purged, Eof, Bad}
Listed(e) == {i \in 0 .. e - 1 : IsFile(i)}

(* lif_find_file: the first record with the name.                          *)
Having(n, e) == {i \in Listed(e) : ReadDir(i).name = n}

-----------------------------------------------------------------------------
(* lif_newdir: where a new file goes.                                      *)

EndOf(r) == r.start + r.sectors

(* Where the space before record i starts.                                 *)
SpaceBefore(i) == IF Listed(i) = {} THEN FileStart ELSE EndOf(ReadDir(Max(Listed(i))))

FreeSectors(e) ==
  size - FileStart - MapThenSumSet(LAMBDA i : ReadDir(i).sectors, Listed(e))

HolesAnySize(need, e) ==                         \* mutant: the space is not compared
  {p \in 0 .. e - 1 : ReadDir(p) = Purged /\ (p > 0 => IsFile(p - 1))}

(* Runs of purged records with enough space up to the next file.  The      *)
(* record used is the first of its run.                                    *)
Holes(need, e) ==
  {p \in 0 .. e - 1 :
     /\ ReadDir(p) = Purged
     /\ p > 0 => IsFile(p - 1)
     /\ \E v \in Listed(e) : /\ \A i \in p .. v - 1 : ~IsFile(i)
                             /\ ReadDir(v).start - SpaceBefore(p) >= need}

(* lif_updatefree has moved the end when lif_newdir looks.                 *)
NewIndex(need, e) == IF Holes(need, e) # {} THEN Min(Holes(need, e)) ELSE e
NewStart(need, e) == SpaceBefore(NewIndex(need, e))

-----------------------------------------------------------------------------
(* The commands.                                                           *)

(* Opening the volume: the write that moves the end, when there is one.    *)
OpenVolume ==
  LET e == EofIndex
      p == Trimmed(e)
  IN /\ Opens
     /\ dir'  = IF p < e THEN DirWith(p, Eof) ELSE dir
     /\ data' = data /\ size' = size

(* lif_create_image: the new image is cut to nothing first.                *)
Create ==
  /\ op = Idle
  /\ op' = [do |-> "create"]
  /\ size' = 0
  /\ dir' = [i \in DOMAIN dir |-> Eof]
  /\ data' = [s \in DOMAIN data |-> Blank]
  /\ kept' = [i \in DOMAIN kept |-> None]

(* One sector of header, directory or file area.                           *)
CreateSector ==
  /\ op.do = "create"
  /\ size' = size + 1
  /\ op' = IF size' = FileStart + FileSectors THEN Idle ELSE op
  /\ UNCHANGED <<dir, data, kept>>

(* "lif add" and "lif addbin", to the end of lif_newdir's decisions.       *)
Add(n, u) ==
  LET e == Trimmed(EofIndex)
      s == NewStart(Sectors[u], e)
  IN /\ op = Idle
     /\ OpenVolume
     /\ Sectors[u] <= FreeSectors(e)
     /\ s + Sectors[u] <= MaxSectors
     /\ KeepsRoom => e + 1 < Capacity
     /\ op' = [do     |-> IF Holes(Sectors[u], e) # {} THEN "reserve" ELSE "end",
               name   |-> n,
               user   |-> u,
               index  |-> NewIndex(Sectors[u], e),
               start  |-> s,
               next   |-> 0,
               limit  |-> size,
               failed |-> FALSE]
     /\ UNCHANGED kept

(* A volume with too little room: only the end has moved.                  *)
AddRefused(u) ==
  /\ op = Idle
  /\ OpenVolume
  /\ Sectors[u] > FreeSectors(Trimmed(EofIndex))
  /\ UNCHANGED <<op, kept>>

WriteEndInPlace ==                               \* mutant: no end after the new record
  /\ op.do = "end"
  /\ op' = [op EXCEPT !.do = "reserve"]
  /\ UNCHANGED <<volume, kept>>

(* The new end after the record to come.                                   *)
WriteEnd ==
  /\ op.do = "end"
  /\ IF InBounds(op.index + 1)
     THEN /\ dir' = DirWith(op.index + 1, Eof)
          /\ data' = DataWith(op.index + 1, Eof)
          /\ size' = SizeWith(op.index + 1)
          /\ op' = [op EXCEPT !.do = "reserve"]
     ELSE /\ op' = Idle
          /\ UNCHANGED volume
  /\ UNCHANGED kept

(* The record, cleared: purged until the data is there.                    *)
Reserve ==
  /\ op.do = "reserve"
  /\ dir' = DirWith(op.index, Purged)
  /\ data' = DataWith(op.index, Purged)
  /\ op' = [op EXCEPT !.do = "copy"]
  /\ UNCHANGED <<size, kept>>

(* One sector of data.  Nothing keeps it inside the image.                 *)
Copy ==
  /\ op.do = "copy" /\ op.next < Sectors[op.user]
  /\ data' = [data EXCEPT ![op.start + op.next] = Part(op.user, op.next)]
  /\ size' = Max({size, op.start + op.next + 1})
  /\ op' = [op EXCEPT !.next = @ + 1]
  /\ UNCHANGED <<dir, kept>>

(* Data that cannot be written: lif_add_ascii_file_as_e010 does not look   *)
(* at what its second pass returned, and writes the record all the same.   *)
CopyFails ==
  /\ op.do = "copy" /\ op.next < Sectors[op.user] /\ op.user \in Texts
  /\ op' = [op EXCEPT !.next = Sectors[op.user], !.failed = TRUE]
  /\ UNCHANGED <<volume, kept>>

(* The directory record: refused when the file does not fit in the image   *)
(* as it was opened.  The user is told of a failed copy.                   *)
Enter ==
  LET r == File(op.name, op.user, op.start)
  IN /\ op.do = "copy" /\ op.next = Sectors[op.user]
     /\ op' = Idle
     /\ IF CheckDir(r, op.limit)
        THEN /\ dir' = DirWith(op.index, r)
             /\ data' = DataWith(op.index, r)
             /\ kept' = [kept EXCEPT ![op.index] =
                           IF op.failed THEN None ELSE [name |-> op.name, user |-> op.user]]
        ELSE UNCHANGED <<dir, data, kept>>
     /\ UNCHANGED size

(* "lif del".                                                              *)
Delete(n) ==
  LET e == Trimmed(EofIndex)
  IN /\ op = Idle
     /\ OpenVolume
     /\ Having(n, e) # {}
     /\ op' = [do |-> "delete", index |-> Min(Having(n, e)), end |-> e]
     /\ UNCHANGED kept

DeleteEndsEarly ==                               \* mutant: one record too early
  LET r == IF op.index >= op.end - 2 THEN Eof ELSE Purged
  IN /\ op.do = "delete"
     /\ dir' = DirWith(op.index, r)
     /\ data' = DataWith(op.index, r)
     /\ kept' = [kept EXCEPT ![op.index] = None]
     /\ op' = [do |-> "update"]
     /\ UNCHANGED size

(* The last record becomes the end.                                        *)
Delete2 ==
  LET r == IF op.index >= op.end - 1 THEN Eof ELSE Purged
  IN /\ op.do = "delete"
     /\ dir' = DirWith(op.index, r)
     /\ data' = DataWith(op.index, r)
     /\ kept' = [kept EXCEPT ![op.index] = None]
     /\ op' = [do |-> "update"]
     /\ UNCHANGED size

(* lif_updatefree after it.                                                *)
Update ==
  /\ op.do = "update"
  /\ OpenVolume
  /\ op' = Idle
  /\ UNCHANGED kept

(* "lif rename": nothing compares the new name with the others.            *)
Rename(n, m) ==
  LET e == Trimmed(EofIndex)
  IN /\ op = Idle
     /\ OpenVolume
     /\ Having(n, e) # {}
     /\ op' = [do |-> "rename", index |-> Min(Having(n, e)), name |-> m]
     /\ UNCHANGED kept

Rename2 ==
  LET r == [ReadDir(op.index) EXCEPT !.name = op.name]
  IN /\ op.do = "rename"
     /\ dir' = DirWith(op.index, r)
     /\ data' = DataWith(op.index, r)
     /\ kept' = [kept EXCEPT ![op.index] = IF @ = None THEN None ELSE [@ EXCEPT !.name = op.name]]
     /\ op' = Idle
     /\ UNCHANGED size

(* The power goes, or the command's next write fails: it closes the volume *)
(* and returns.                                                            *)
Stop ==
  /\ op # Idle
  /\ op' = Idle
  /\ UNCHANGED <<volume, kept>>

-----------------------------------------------------------------------------
(* A volume that is there already may come from another system: behind the *)
(* end record anything may be left.                                        *)
Init ==
  /\ size \in {0, FileStart + FileSectors}
  /\ dir \in {[i \in 0 .. Capacity - 1 |-> IF i = 0 THEN Eof ELSE r] :
                r \in {Eof} \cup {File(n, u, FileStart) : n \in Names, u \in Users}}
  /\ data = [s \in FileStart .. MaxSectors - 1 |-> Blank]
  /\ op = Idle
  /\ kept = [i \in 0 .. Capacity |-> None]

Next ==
  \/ Create \/ CreateSector
  \/ \E n \in Names, u \in Users : Add(n, u)
  \/ \E u \in Users : AddRefused(u)
  \/ WriteEnd \/ Reserve \/ Copy \/ CopyFails \/ Enter
  \/ \E n \in Names : Delete(n)
  \/ Delete2 \/ Update
  \/ \E n, m \in Names : Rename(n, m)
  \/ Rename2
  \/ Stop

Spec == Init /\ [][Next]_vars

-----------------------------------------------------------------------------
(* What the user was told is in the volume is found there under its name   *)
(* with its data, whatever other commands were cut short or failed since   *)
(* (lif_newdir, lif_updatefree, lif_del_file).                             *)
Intact(i) ==
  /\ Ends # {} /\ i < EofIndex
  /\ ReadDir(i) # Bad /\ ReadDir(i).type = "file"
  /\ ReadDir(i).name = kept[i].name
  /\ \A k \in 0 .. Sectors[kept[i].user] - 1 :
        data[ReadDir(i).start + k] = Part(kept[i].user, k)
FilesIntact == \A i \in 0 .. Capacity : kept[i] # None => Intact(i)

(* The files of the directory lie in its order, one behind the other,      *)
(* inside the file area: what lif_newdir takes for granted when it looks   *)
(* for a hole, and lif_updatefree only prints.                             *)
Ordered ==
  Ends # {} =>
    \A j \in Listed(EofIndex) :
       /\ SpaceBefore(j) <= ReadDir(j).start
       /\ EndOf(ReadDir(j)) <= size

(* A volume that was created to its last sector can be opened, wherever    *)
(* the commands since then were cut off.                                   *)
StaysOpenable == FileStart + FileSectors <= size => Opens

(* A step adds, removes or renames one file of the listing, or none,       *)
(* however a command is cut short; only a new image changes more.          *)
Listing == IF Opens THEN {<<i, ReadDir(i)>> : i \in Listed(EofIndex)} ELSE {}
OneFileAtATime ==
  [][op'.do # "create" => Cardinality({x[1] : x \in (Listing \ Listing') \cup (Listing' \ Listing)}) <= 1]_vars
=============================================================================
