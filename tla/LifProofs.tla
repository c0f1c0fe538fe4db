----------------------------- MODULE LifProofs ------------------------------
(***************************************************************************)
(* Proofs about Lif, for volumes of any size, any files, and a user who    *)
(* leaves the last directory record unused: whatever is cut short, the     *)
(* files are where the user was told, in order, one behind the other.      *)
(***************************************************************************)
EXTENDS Lif, FiniteSetTheorems, TLAPS

(***************************************************************************)
(* The inductive invariant.                                                *)
(***************************************************************************)
FileRecords == [type : {"file"}, name : Names, start : Nat, sectors : Nat]
Records     == {Purged, Eof} \cup FileRecords
Entries     == 0 .. Capacity - 1
Cells       == FileStart .. MaxSectors - 1
Contents    == {Blank} \cup [type : {"part"}, user : Users, part : Nat]
Told        == [name : Names, user : Users]

VolumeTypes ==
  /\ size \in 0 .. MaxSectors
  /\ dir \in [Entries -> Records]
  /\ data \in [Cells -> Contents]
  /\ kept \in [0 .. Capacity -> {None} \cup Told]

Adds == [do : {"end", "reserve", "copy"}, name : Names, user : Users, index : Nat,
         start : Nat, next : Nat, limit : Nat, failed : BOOLEAN]
CommandTypes ==
  \/ op = Idle
  \/ op = [do |-> "create"] /\ size < FileStart + FileSectors
  \/ op \in Adds
  \/ op \in [do : {"delete"}, index : Nat, end : Nat]
  \/ op = [do |-> "update"]
  \/ op \in [do : {"rename"}, index : Nat, name : Names]

(* Record e is the end, and all before it can be walked.                   *)
HasFile(i) == dir[i].type = "file"
EndsAt(e) ==
  /\ e \in Entries /\ dir[e] = Eof
  /\ \A i \in 0 .. e - 1 :
       /\ dir[i] # Eof
       /\ HasFile(i) => FileStart <= dir[i].start /\ EndOf(dir[i]) <= size

(* The files before record e lie in order.                                 *)
InOrder(e) ==
  \A i, j \in 0 .. e - 1 : i < j /\ HasFile(i) /\ HasFile(j) => EndOf(dir[i]) <= dir[j].start

(* What the user was told is before record e.                              *)
KeptBefore(e) ==
  \A i \in 0 .. Capacity : kept[i] # None =>
    /\ i < e /\ HasFile(i)
    /\ dir[i].name = kept[i].name /\ dir[i].sectors = Sectors[kept[i].user]
    /\ \A k \in 0 .. Sectors[kept[i].user] - 1 : data[dir[i].start + k] = Part(kept[i].user, k)

(* Where the file to be added goes nothing is, and what has been copied of *)
(* it is there.                                                            *)
RoomFor(e) ==
  op \in Adds =>
    /\ FileStart <= op.start /\ op.start + Sectors[op.user] <= MaxSectors
    /\ op.limit <= size /\ op.next <= Sectors[op.user]
    /\ op.index + 1 \in Entries
    /\ \A i \in 0 .. e - 1 : HasFile(i) =>
         /\ i < op.index => EndOf(dir[i]) <= op.start
         /\ i > op.index => op.start + Sectors[op.user] <= dir[i].start
    /\ ~op.failed => \A k \in 0 .. op.next - 1 : data[op.start + k] = Part(op.user, k)

(* Where each command has its record.                                      *)
RecordOf(e) ==
  /\ op.do = "create" => e = 0
  /\ op.do \notin {"idle", "create"} => FileStart <= size
  /\ op.do = "end" => op.index = e
  /\ op.do = "reserve" => \/ op.index = e /\ dir[e + 1] = Eof
                          \/ op.index < e /\ dir[op.index] = Purged
  /\ op.do = "copy" => op.index < e /\ dir[op.index] = Purged
  /\ op.do = "delete" => op.end = e
  /\ op.do \in {"delete", "rename"} => op.index < e /\ HasFile(op.index)

Good(e) == EndsAt(e) /\ InOrder(e) /\ KeptBefore(e) /\ RoomFor(e) /\ RecordOf(e)

VolumeInv == VolumeTypes /\ CommandTypes /\ \E e \in Entries : Good(e)

(* A step that moves the end from e to f, and alters no file but record j. *)
Alters(e, f, j) ==
  /\ EndsAt(e) /\ EndsAt(f)'
  /\ \A i \in Entries : i # j =>
       /\ (i < e /\ HasFile(i)) <=> (i < f /\ HasFile(i)')
       /\ i < e /\ HasFile(i) => dir'[i] = dir[i]
  /\ (FileStart <= size' <=> FileStart <= size) \/ (e = 0 /\ f = 0)
AltersOne == \E e, f, j \in Entries : Alters(e, f, j)

(***************************************************************************)
(* Numbers and sets of numbers.                                            *)
(***************************************************************************)
LEMMA Sizes ==
  /\ Capacity \in Nat /\ Capacity >= 1
  /\ FileStart \in Nat /\ FileStart >= 2
  /\ FileSectors \in Nat /\ MaxSectors \in Nat /\ FileStart + FileSectors <= MaxSectors
  /\ Sectors \in [Users -> Nat]
  /\ 0 \in Entries /\ Entries \subseteq Nat /\ Entries \subseteq 0 .. Capacity
  <1>1. Capacity \in Nat /\ Capacity >= 1
    <2>1. \A a, b \in Nat \ {0} : a * b \in Nat /\ a * b >= 1
      OBVIOUS
    <2>2. QED
      BY <2>1, SizesAssumption DEF Capacity
  <1>2. QED
    BY <1>1, SizesAssumption, RoomAssumption DEF FileStart, DirStart, Entries

LEMMA Least ==
  ASSUME NEW S, S \subseteq Nat, S # {}
  PROVE  Min(S) \in S /\ \A x \in S : Min(S) <= x
  <1> DEFINE T == {0 .. x : x \in S}
             R == StrictSubsetOrdering(Nat)
             F == FiniteSubsetsOf(Nat)
  <1>1. T \subseteq F /\ T # {}
    <2>1. ASSUME NEW x \in S PROVE 0 .. x \in F
      <3>1. IsFiniteSet(0 .. x)
        BY FS_Interval
      <3>2. QED
        BY <3>1 DEF FiniteSubsetsOf
    <2>2. QED
      BY <2>1
  <1>2. IsWellFoundedOn(R, F)
    BY FS_StrictSubsetOrderingWellFounded
  <1>3. PICK t \in T : \A u \in T : ~(<<u, t>> \in R)
    <2> HIDE DEF T, R, F
    <2>1. QED
      BY <1>1, <1>2, WFMin
  <1>4. PICK x \in S : t = 0 .. x
    BY <1>3
  <1>5. ASSUME NEW y \in S PROVE x <= y
    <2>1. SUFFICES ASSUME y < x PROVE FALSE
      OBVIOUS
    <2>2. (0 .. y) \subseteq (0 .. x) /\ x \in 0 .. x /\ x \notin 0 .. y
      BY <2>1
    <2>3. <<0 .. y, 0 .. x>> \in R
      BY <2>2 DEF StrictSubsetOrdering
    <2>4. QED
      BY <1>3, <1>4, <2>3
  <1>6. QED
    BY <1>5 DEF Min

LEMMA Greatest ==
  ASSUME NEW n \in Nat, NEW S, S \subseteq 0 .. n, S # {}
  PROVE  Max(S) \in S /\ \A x \in S : x <= Max(S)
  <1> DEFINE T == {k \in Nat : n - k \in S}
  <1>1. T \subseteq Nat /\ T # {}
    <2>1. PICK x \in S : TRUE
      OBVIOUS
    <2>2. n - x \in T
      BY <2>1
    <2>3. QED
      BY <2>2
  <1>2. Min(T) \in T /\ \A x \in T : Min(T) <= x
    BY <1>1, Least
  <1> HIDE DEF T
  <1>3. n - Min(T) \in S
    BY <1>2 DEF T
  <1>4. \A x \in S : x <= n - Min(T)
    <2>1. TAKE x \in S
    <2>2. n - x \in T
      BY DEF T
    <2>3. Min(T) <= n - x
      BY <1>2, <2>2
    <2>4. Min(T) \in Nat
      BY <1>1, <1>2
    <2>5. QED
      BY <2>3, <2>4
  <1>5. QED
    BY <1>3, <1>4 DEF Max

(***************************************************************************)
(* The directory as the commands read it.                                  *)
(***************************************************************************)
LEMMA Reading ==
  ASSUME VolumeTypes, NEW i \in Entries
  PROVE  /\ ReadDir(i) = dir[i] /\ dir[i] # Bad
         /\ IsFile(i) <=> HasFile(i)
         /\ HasFile(i) => dir[i] \in FileRecords
         /\ dir[i] = Purged \/ dir[i] = Eof \/ HasFile(i)
         /\ HasFile(i) => dir[i] # Purged /\ dir[i] # Eof
  <1>1. ReadDir(i) = dir[i]
    BY DEF ReadDir, Entries
  <1>2. dir[i] \in {Purged, Eof} \cup FileRecords
    BY DEF VolumeTypes, Records
  <1>3. Purged.type = "purged" /\ Eof.type = "eof" /\ Bad.type = "bad"
    BY DEF Purged, Eof, Bad
  <1>4. ASSUME dir[i] \in FileRecords PROVE HasFile(i)
    BY <1>4 DEF FileRecords, HasFile
  <1>5. QED
    BY <1>1, <1>2, <1>3, <1>4 DEF IsFile, HasFile

LEMMA TheEnd ==
  ASSUME VolumeTypes, NEW e \in Entries, EndsAt(e)
  PROVE  Ends = {e} /\ EofIndex = e
  <1>1. e \in Nat /\ e < Capacity /\ e \in 0 .. Capacity /\ Capacity \in Nat
    BY Sizes DEF Entries
  <1>2. \A i \in 0 .. e : i \in Entries
    BY <1>1 DEF Entries
  <1>3. ReadDir(e) = Eof
    BY Reading DEF EndsAt
  <1>4. ASSUME NEW i \in 0 .. e - 1 PROVE CheckDir(ReadDir(i), size) /\ ReadDir(i) # Eof
    <2>1. i \in Entries
      BY <1>1, <1>2
    <2>2. QED
      BY <2>1, Reading DEF EndsAt, CheckDir, HasFile, EndOf
  <1>5. e \in Ends
    BY <1>1, <1>3, <1>4 DEF Ends
  <1>6. ASSUME NEW f \in Ends PROVE f = e
    <2>1. f \in Nat /\ ReadDir(f) = Eof /\ \A i \in 0 .. f - 1 : ReadDir(i) # Eof
      BY <1>1 DEF Ends
    <2>2. ~(f < e)
      BY <1>1, <1>4, <2>1
    <2>3. ~(e < f)
      BY <1>1, <1>3, <2>1
    <2>4. QED
      BY <1>1, <2>1, <2>2, <2>3
  <1>7. Ends = {e}
    BY <1>5, <1>6
  <1>8. QED
    BY <1>7 DEF EofIndex

LEMMA TheFiles ==
  ASSUME VolumeTypes, NEW e \in Entries, NEW i \in 0 .. e
  PROVE  /\ Listed(i) = {k \in 0 .. i - 1 : HasFile(k)}
         /\ \A k \in Listed(i) : ReadDir(k) = dir[k] /\ dir[k] \in FileRecords
  <1>1. \A k \in 0 .. i - 1 : k \in Entries
    BY Sizes DEF Entries
  <1>2. QED
    BY <1>1, Reading DEF Listed

(* The space before record i is behind all files before it, and before all *)
(* the others.                                                             *)
LEMMA Space ==
  ASSUME VolumeTypes, NEW e \in Entries, EndsAt(e), InOrder(e), NEW i \in 0 .. e
  PROVE  /\ SpaceBefore(i) \in Nat /\ FileStart <= SpaceBefore(i)
         /\ \A k \in 0 .. i - 1 : HasFile(k) => EndOf(dir[k]) <= SpaceBefore(i)
         /\ \A k \in i .. e - 1 : HasFile(k) => SpaceBefore(i) <= dir[k].start
  <1> e \in Nat /\ i \in Nat /\ i <= e
    BY Sizes
  <1>1. \A k \in 0 .. e - 1 : k \in Entries
    BY Sizes DEF Entries
  <1>2. \A k \in 0 .. e - 1 : HasFile(k) =>
          dir[k].start \in Nat /\ dir[k].sectors \in Nat /\ FileStart <= dir[k].start
    BY <1>1, Reading DEF FileRecords, EndsAt
  <1>3. CASE Listed(i) = {}
    <2>1. \A k \in 0 .. i - 1 : ~HasFile(k)
      BY <1>3, TheFiles
    <2>2. QED
      BY <1>2, <1>3, <2>1, Sizes DEF SpaceBefore
  <1>4. CASE Listed(i) # {}
    <2> DEFINE m == Max(Listed(i))
    <2>1. Listed(i) \subseteq 0 .. e
      BY TheFiles
    <2>2. m \in Listed(i) /\ \A k \in Listed(i) : k <= m
      BY <1>4, <2>1, Greatest
    <2>3. m \in 0 .. i - 1 /\ HasFile(m) /\ SpaceBefore(i) = EndOf(dir[m])
      BY <1>4, <2>2, TheFiles DEF SpaceBefore
    <2> HIDE DEF m
    <2>4. SpaceBefore(i) \in Nat /\ dir[m].start <= SpaceBefore(i)
      BY <1>2, <2>3 DEF EndOf
    <2>5. FileStart <= SpaceBefore(i)
      BY <1>2, <2>3, <2>4, Sizes
    <2>6. ASSUME NEW k \in 0 .. i - 1, HasFile(k) PROVE EndOf(dir[k]) <= SpaceBefore(i)
      <3>1. k <= m
        BY <2>2, <2>6, TheFiles
      <3>2. CASE k = m
        BY <2>3, <2>4, <3>2
      <3>3. CASE k < m
        <4>1. EndOf(dir[k]) <= dir[m].start
          BY <2>3, <2>6, <3>3 DEF InOrder
        <4>2. QED
          BY <1>2, <2>3, <2>4, <2>6, <4>1 DEF EndOf
      <3>4. QED
        BY <2>3, <3>1, <3>2, <3>3
    <2>7. ASSUME NEW k \in i .. e - 1, HasFile(k) PROVE SpaceBefore(i) <= dir[k].start
      BY <2>3, <2>7 DEF InOrder
    <2>8. QED
      BY <2>4, <2>5, <2>6, <2>7
  <1>5. QED
    BY <1>3, <1>4

(* Where lif_newdir puts a file: behind the files before the record, and,  *)
(* when that is a purged one, with room before those after it.             *)
LEMMA Placing ==
  ASSUME VolumeTypes, NEW e \in Entries, EndsAt(e), InOrder(e), NEW p \in 0 .. e, NEW need \in Nat
  PROVE  LET i == NewIndex(need, p)
             s == NewStart(need, p)
         IN /\ i \in 0 .. p /\ s \in Nat /\ FileStart <= s
            /\ \A k \in 0 .. i - 1 : HasFile(k) => EndOf(dir[k]) <= s
            /\ \A k \in i .. p - 1 : HasFile(k) => s + need <= dir[k].start
            /\ IF Holes(need, p) # {} THEN i < p /\ dir[i] = Purged ELSE i = p
  <1> DEFINE i == NewIndex(need, p)
  <1> e \in Nat /\ p \in Nat /\ p <= e
    BY Sizes
  <1>1. \A k \in 0 .. e - 1 : k \in Entries
    BY Sizes DEF Entries
  <1>2. CASE Holes(need, p) = {}
    <2>1. i = p /\ p \in 0 .. p
      BY <1>2 DEF NewIndex
    <2>2. NewStart(need, p) = SpaceBefore(p)
      BY <2>1 DEF NewStart
    <2>3. QED
      BY <1>2, <2>1, <2>2, Space
  <1>3. CASE Holes(need, p) # {}
    <2>1. Holes(need, p) \subseteq Nat /\ i = Min(Holes(need, p))
      BY <1>3 DEF Holes, NewIndex
    <2>2. i \in Holes(need, p)
      BY <1>3, <2>1, Least
    <2> HIDE DEF i
    <2>3. i \in 0 .. p - 1 /\ ReadDir(i) = Purged
      BY <2>2 DEF Holes
    <2>4. i \in Entries /\ i \in 0 .. e /\ dir[i] = Purged
      BY <1>1, <2>3, Reading
    <2>5. PICK v \in Listed(p) : /\ \A k \in i .. v - 1 : ~IsFile(k)
                                /\ ReadDir(v).start - SpaceBefore(i) >= need
      BY <2>2 DEF Holes
    <2>6. v \in 0 .. p - 1 /\ HasFile(v) /\ ReadDir(v) = dir[v] /\ dir[v] \in FileRecords
      BY <2>5, TheFiles
    <2>7. SpaceBefore(i) \in Nat /\ FileStart <= SpaceBefore(i)
      BY <2>4, Space
    <2>8. SpaceBefore(i) + need <= dir[v].start
      BY <2>5, <2>6, <2>7 DEF FileRecords
    <2>9. ASSUME NEW k \in i .. p - 1, HasFile(k) PROVE SpaceBefore(i) + need <= dir[k].start
      <3>1. k \in Entries /\ k \in 0 .. e - 1
        BY <1>1, <2>3
      <3>2. IsFile(k) /\ dir[k] \in FileRecords
        BY <2>9, <3>1, Reading
      <3>3. v <= k
        BY <2>5, <2>6, <3>1, <3>2, <2>9
      <3>4. CASE v = k
        BY <2>8, <3>4
      <3>5. CASE v < k
        <4>1. EndOf(dir[v]) <= dir[k].start
          BY <2>6, <2>9, <3>1, <3>5 DEF InOrder
        <4>2. QED
          BY <2>6, <2>7, <2>8, <3>2, <4>1 DEF EndOf, FileRecords
      <3>6. QED
        BY <2>6, <3>1, <3>3, <3>4, <3>5
    <2>10. NewStart(need, p) = SpaceBefore(i)
      BY DEF NewStart, i
    <2>11. \A k \in 0 .. i - 1 : HasFile(k) => EndOf(dir[k]) <= SpaceBefore(i)
      BY <2>4, Space
    <2>12. QED
      BY <1>3, <2>3, <2>4, <2>7, <2>9, <2>10, <2>11 DEF i
  <1>4. QED
    BY <1>2, <1>3

LEMMA Writing ==
  ASSUME VolumeTypes, NEW i \in Entries
  PROVE  /\ \A r : DirWith(i, r) = [dir EXCEPT ![i] = r] /\ DataWith(i, r) = data
         /\ SizeWith(i) = size
  <1>1. DOMAIN dir = Entries /\ i # Capacity
    BY Sizes DEF VolumeTypes, Entries
  <1>2. QED
    BY <1>1 DEF DirWith, DataWith, SizeWith

LEMMA RecordTypes == Purged \in Records /\ Eof \in Records /\ Purged # Eof
                     /\ Purged.type # "file" /\ Eof.type # "file"
  BY DEF Purged, Eof, Records

(* Opening the volume moves the end over purged records, and nothing else. *)
LEMMA Opening ==
  ASSUME VolumeTypes, NEW e \in Entries, EndsAt(e), OpenVolume
  PROVE  \E p \in Entries :
            /\ p = Trimmed(EofIndex) /\ p \in 0 .. e
            /\ \A i \in p .. e - 1 : ~HasFile(i)
            /\ dir' \in [Entries -> Records] /\ dir'[p] = Eof
            /\ \A i \in 0 .. p - 1 : dir'[i] = dir[i]
            /\ data' = data /\ size' = size /\ FileStart <= size
  <1> DEFINE S == {p \in 0 .. e : \A i \in p .. e - 1 : ReadDir(i) = Purged}
             p == Trimmed(EofIndex)
  <1>1. e \in Nat /\ \A i \in 0 .. e : i \in Entries
    BY Sizes DEF Entries
  <1>2. EofIndex = e
    BY TheEnd
  <1>3. p = Min(S)
    BY <1>2 DEF Trimmed
  <1>4. S \subseteq Nat /\ e \in S
    BY <1>1
  <1>5. p \in S
    BY <1>3, <1>4, Least
  <1>6. p \in 0 .. e /\ p \in Entries /\ \A i \in p .. e - 1 : ReadDir(i) = Purged
    BY <1>1, <1>5
  <1> HIDE DEF p, S
  <1>7. \A i \in p .. e - 1 : ~HasFile(i)
    BY <1>1, <1>6, Reading
  <1>8. dir \in [Entries -> Records] /\ dir[e] = Eof
    BY DEF VolumeTypes, EndsAt
  <1>9. dir' = IF p < e THEN [dir EXCEPT ![p] = Eof] ELSE dir
    BY <1>2, <1>6, Writing DEF OpenVolume, p
  <1>10. dir' \in [Entries -> Records] /\ dir'[p] = Eof /\ \A i \in 0 .. p - 1 : dir'[i] = dir[i]
    BY <1>1, <1>6, <1>8, <1>9, RecordTypes
  <1>11. QED
    BY <1>6, <1>7, <1>10 DEF OpenVolume, Opens, p

LEMMA Opened ==
  ASSUME VolumeTypes, NEW e \in Entries, EndsAt(e), InOrder(e), KeptBefore(e),
         OpenVolume, UNCHANGED kept
  PROVE  \E p \in Entries :
            /\ p = Trimmed(EofIndex) /\ p \in 0 .. e
            /\ \A i \in 0 .. p - 1 : dir'[i] = dir[i]
            /\ size' = size /\ FileStart <= size
            /\ VolumeTypes' /\ EndsAt(p)' /\ InOrder(p)' /\ KeptBefore(p)'
            /\ AltersOne
  <1>1. PICK p \in Entries :
        /\ p = Trimmed(EofIndex) /\ p \in 0 .. e
        /\ \A i \in p .. e - 1 : ~HasFile(i)
        /\ dir' \in [Entries -> Records] /\ dir'[p] = Eof
        /\ \A i \in 0 .. p - 1 : dir'[i] = dir[i]
        /\ data' = data /\ size' = size /\ FileStart <= size
    BY Opening
  <1> e \in Nat /\ p \in Nat /\ p <= e
    BY <1>1, Sizes
  <1>2. \A i \in 0 .. p - 1 : i \in 0 .. e - 1
    BY <1>1
  <1>3. VolumeTypes'
    BY <1>1 DEF VolumeTypes
  <1>4. EndsAt(p)'
    BY <1>1, <1>2 DEF EndsAt, HasFile, EndOf
  <1>5. InOrder(p)'
    BY <1>1, <1>2 DEF InOrder, HasFile, EndOf
  <1>6. KeptBefore(p)'
    <2> SUFFICES ASSUME NEW i \in 0 .. Capacity, kept[i] # None
                 PROVE  /\ i < p /\ dir'[i].type = "file"
                        /\ dir'[i].name = kept[i].name
                        /\ dir'[i].sectors = Sectors[kept[i].user]
                        /\ \A k \in 0 .. Sectors[kept[i].user] - 1 :
                             data'[dir'[i].start + k] = Part(kept[i].user, k)
      BY DEF KeptBefore, HasFile
    <2>1. i < e /\ HasFile(i)
      BY DEF KeptBefore
    <2>2. i < p
      BY <1>1, <2>1, Sizes
    <2>3. dir'[i] = dir[i] /\ data' = data
      BY <1>1, <2>2, Sizes
    <2>4. QED
      BY <2>1, <2>2, <2>3 DEF KeptBefore, HasFile
  <1>7. AltersOne
    <2>1. ASSUME NEW i \in Entries
          PROVE  /\ (i < e /\ HasFile(i)) <=> (i < p /\ HasFile(i)')
                 /\ i < e /\ HasFile(i) => dir'[i] = dir[i]
      <3>1. i \in Nat
        BY Sizes
      <3>2. CASE i < p
        BY <1>1, <3>1, <3>2 DEF HasFile
      <3>3. CASE ~(i < p)
        BY <1>1, <3>1, <3>3
      <3>4. QED
        BY <3>2, <3>3
    <2>2. QED
      BY <1>1, <1>4, <2>1, Sizes DEF AltersOne, Alters
  <1>8. QED
    BY <1>1, <1>3, <1>4, <1>5, <1>6, <1>7

LEMMA Doing ==
  /\ \A o \in Adds : o.do \in {"end", "reserve", "copy"} /\ o # Idle
  /\ Idle.do = "idle"
  /\ CommandTypes =>
       /\ op.do \in {"end", "reserve", "copy"} => op \in Adds
       /\ op.do = "create" => op = [do |-> "create"] /\ size < FileStart + FileSectors
       /\ op.do = "delete" => op \in [do : {"delete"}, index : Nat, end : Nat]
       /\ op.do = "rename" => op \in [do : {"rename"}, index : Nat, name : Names]
  <1>1. \A o \in Adds : o.do \in {"end", "reserve", "copy"} /\ o # Idle
    BY DEF Adds, Idle
  <1>2. Idle.do = "idle"
    BY DEF Idle
  <1>3. ASSUME CommandTypes
        PROVE  /\ op.do \in {"end", "reserve", "copy"} => op \in Adds
               /\ op.do = "create" => op = [do |-> "create"] /\ size < FileStart + FileSectors
               /\ op.do = "delete" => op \in [do : {"delete"}, index : Nat, end : Nat]
               /\ op.do = "rename" => op \in [do : {"rename"}, index : Nat, name : Names]
    BY <1>1, <1>2, <1>3 DEF CommandTypes
  <1>4. QED
    BY <1>1, <1>2, <1>3

(* No command is at work.                                                  *)
LEMMA AtRest ==
  ASSUME op' = Idle
  PROVE  CommandTypes' /\ \A e : RoomFor(e)' /\ RecordOf(e)'
  BY Doing DEF CommandTypes, RoomFor, RecordOf

(* Nothing of the volume moves.                                            *)
LEMMA Unmoved ==
  ASSUME VolumeTypes, NEW e \in Entries, EndsAt(e), InOrder(e), KeptBefore(e),
         UNCHANGED <<dir, data, kept>>, size' = size
  PROVE  VolumeTypes' /\ EndsAt(e)' /\ InOrder(e)' /\ KeptBefore(e)' /\ AltersOne
  <1>1. VolumeTypes' /\ EndsAt(e)' /\ InOrder(e)' /\ KeptBefore(e)'
    BY DEF VolumeTypes, EndsAt, InOrder, KeptBefore, HasFile, EndOf
  <1>2. AltersOne
    BY <1>1, Sizes DEF AltersOne, Alters, HasFile
  <1>3. QED
    BY <1>1, <1>2

(***************************************************************************)
(* Each command keeps the invariant.                                       *)
(***************************************************************************)
LEMMA CreateKeeps == ASSUME VolumeInv, Create PROVE VolumeInv'
  <1>1. VolumeTypes'
    BY Sizes, RecordTypes DEF VolumeInv, VolumeTypes, Create, Contents
  <1>2. CommandTypes'
    BY Sizes DEF CommandTypes, Create
  <1>3. EndsAt(0)' /\ InOrder(0)'
    BY Sizes DEF EndsAt, InOrder, Create, VolumeInv, VolumeTypes
  <1>4. KeptBefore(0)'
    BY DEF KeptBefore, Create, VolumeInv, VolumeTypes
  <1>5. RoomFor(0)' /\ RecordOf(0)'
    BY Doing DEF RoomFor, RecordOf, Create
  <1>6. QED
    BY <1>1, <1>2, <1>3, <1>4, <1>5, Sizes DEF VolumeInv, Good

LEMMA CreateSectorKeeps == ASSUME VolumeInv, CreateSector PROVE VolumeInv' /\ AltersOne
  <1>1. PICK e \in Entries : Good(e)
    BY DEF VolumeInv
  <1>2. e = 0 /\ op = [do |-> "create"] /\ size < FileStart + FileSectors /\ size \in Nat
    BY <1>1, Doing DEF Good, RecordOf, CreateSector, VolumeInv, VolumeTypes
  <1>3. VolumeTypes'
    BY <1>2, Sizes DEF VolumeInv, VolumeTypes, CreateSector
  <1>4. CommandTypes'
    BY <1>2, Sizes DEF CommandTypes, CreateSector
  <1>5. EndsAt(0)' /\ InOrder(0)' /\ KeptBefore(0)'
    BY <1>1, <1>2 DEF Good, EndsAt, InOrder, KeptBefore, HasFile, CreateSector
  <1>6. RoomFor(0)' /\ RecordOf(0)'
    BY <1>2, Doing DEF RoomFor, RecordOf, CreateSector
  <1>7. AltersOne
    BY <1>1, <1>2, <1>5, Sizes DEF AltersOne, Alters, Good, HasFile, CreateSector
  <1>8. QED
    BY <1>3, <1>4, <1>5, <1>6, <1>7, Sizes DEF VolumeInv, Good

LEMMA AddKeeps ==
  ASSUME KeepsRoom, VolumeInv, NEW n \in Names, NEW u \in Users, Add(n, u) PROVE VolumeInv' /\ AltersOne
  <1> DEFINE need == Sectors[u]
  <1>1. PICK e \in Entries : Good(e)
    BY DEF VolumeInv
  <1>2. VolumeTypes /\ EndsAt(e) /\ InOrder(e) /\ KeptBefore(e)
    BY <1>1 DEF VolumeInv, Good
  <1>3. PICK p \in Entries :
          /\ p = Trimmed(EofIndex) /\ p \in 0 .. e
          /\ \A i \in 0 .. p - 1 : dir'[i] = dir[i]
          /\ size' = size /\ FileStart <= size
          /\ VolumeTypes' /\ EndsAt(p)' /\ InOrder(p)' /\ KeptBefore(p)' /\ AltersOne
    BY <1>2, Opened DEF Add
  <1> need \in Nat /\ e \in Nat /\ p \in Nat /\ size \in Nat
    BY Sizes DEF VolumeInv, VolumeTypes
  <1>4. PICK i, s : i = NewIndex(need, p) /\ s = NewStart(need, p)
    OBVIOUS
  <1>5. /\ i \in 0 .. p /\ s \in Nat /\ FileStart <= s
        /\ \A k \in 0 .. i - 1 : HasFile(k) => EndOf(dir[k]) <= s
        /\ \A k \in i .. p - 1 : HasFile(k) => s + need <= dir[k].start
        /\ IF Holes(need, p) # {} THEN i < p /\ dir[i] = Purged ELSE i = p
    BY <1>2, <1>3, <1>4, Placing
  <1>6. /\ op' = [do     |-> IF Holes(need, p) # {} THEN "reserve" ELSE "end",
                  name   |-> n, user   |-> u, index  |-> i, start  |-> s,
                  next   |-> 0, limit  |-> size, failed |-> FALSE]
        /\ s + need <= MaxSectors /\ p + 1 < Capacity
    BY <1>3, <1>4 DEF Add
  <1>7. op' \in Adds
    BY <1>5, <1>6 DEF Adds
  <1>8. RoomFor(p)'
    <2>1. op'.index + 1 \in Entries
      BY <1>5, <1>6, Sizes DEF Entries
    <2>2. ASSUME NEW k \in 0 .. p - 1, HasFile(k)'
          PROVE  /\ k < i => EndOf(dir'[k]) <= s
                 /\ k > i => s + need <= dir'[k].start
      <3>1. HasFile(k) /\ dir'[k] = dir[k]
        BY <1>3, <2>2 DEF HasFile
      <3>2. QED
        BY <1>5, <3>1
    <2>3. QED
      BY <1>3, <1>5, <1>6, <2>1, <2>2 DEF RoomFor, HasFile, EndOf
  <1>9. RecordOf(p)'
    <2>1. CASE Holes(need, p) # {}
      <3>1. op'.do = "reserve" /\ op'.index = i /\ i < p /\ dir'[i] = Purged
        BY <1>3, <1>5, <1>6, <2>1
      <3>2. QED
        BY <1>3, <3>1 DEF RecordOf
    <2>2. CASE Holes(need, p) = {}
      <3>1. op'.do = "end" /\ op'.index = p
        BY <1>5, <1>6, <2>2
      <3>2. QED
        BY <1>3, <3>1 DEF RecordOf
    <2>3. QED
      BY <2>1, <2>2
  <1>10. QED
    BY <1>3, <1>7, <1>8, <1>9 DEF VolumeInv, CommandTypes, Good

LEMMA AddRefusedKeeps ==
  ASSUME VolumeInv, NEW u \in Users, AddRefused(u) PROVE VolumeInv' /\ AltersOne
  <1>1. PICK e \in Entries : Good(e)
    BY DEF VolumeInv
  <1>2. \E p \in Entries : VolumeTypes' /\ EndsAt(p)' /\ InOrder(p)' /\ KeptBefore(p)' /\ AltersOne
    BY <1>1, Opened DEF AddRefused, VolumeInv, Good
  <1>3. op' = Idle
    BY DEF AddRefused
  <1>4. CommandTypes' /\ \A p : RoomFor(p)' /\ RecordOf(p)'
    BY <1>3, AtRest
  <1>5. QED
    BY <1>2, <1>4 DEF VolumeInv, Good

LEMMA WriteEndKeeps == ASSUME VolumeInv, WriteEnd PROVE VolumeInv' /\ AltersOne
  <1>1. PICK e \in Entries : Good(e)
    BY DEF VolumeInv
  <1>2. op \in Adds /\ op.do = "end" /\ op.index = e /\ e + 1 \in Entries /\ FileStart <= size
    BY <1>1, Doing DEF VolumeInv, Good, RoomFor, RecordOf, WriteEnd
  <1> e \in Nat
    BY Sizes
  <1>3. /\ dir' = [dir EXCEPT ![e + 1] = Eof]
        /\ data' = data /\ size' = size /\ kept' = kept /\ op' = [op EXCEPT !.do = "reserve"]
    <2>1. InBounds(op.index + 1)
      BY <1>2, Sizes DEF InBounds
    <2>2. QED
      BY <1>2, <2>1, Writing DEF WriteEnd, VolumeInv
  <1>4. dir' \in [Entries -> Records] /\ dir'[e + 1] = Eof /\ \A i \in 0 .. e : dir'[i] = dir[i]
    BY <1>2, <1>3, RecordTypes, Sizes DEF VolumeInv, VolumeTypes
  <1>5. VolumeTypes'
    BY <1>3, <1>4 DEF VolumeInv, VolumeTypes
  <1>6. op' \in Adds /\ op'.do = "reserve" /\ op'.index = e
    BY <1>2, <1>3 DEF Adds
  <1>7. EndsAt(e)' /\ InOrder(e)'
    BY <1>1, <1>3, <1>4 DEF Good, EndsAt, InOrder, HasFile, EndOf
  <1>8. KeptBefore(e)'
    <2>1. \A i \in 0 .. Capacity : kept[i] # None => i < e /\ dir'[i] = dir[i]
      BY <1>1, <1>4, Sizes DEF Good, KeptBefore
    <2>2. QED
      BY <1>1, <1>3, <2>1 DEF Good, KeptBefore, HasFile
  <1>9. RoomFor(e)'
    <2>1. /\ op'.start = op.start /\ op'.user = op.user /\ op'.limit = op.limit
          /\ op'.next = op.next /\ op'.failed = op.failed /\ op'.index = op.index
      BY <1>2, <1>3 DEF Adds
    <2>2. QED
      BY <1>1, <1>2, <1>3, <1>4, <2>1 DEF Good, RoomFor, HasFile, EndOf
  <1>10. RecordOf(e)'
    BY <1>2, <1>3, <1>4, <1>6 DEF RecordOf
  <1>11. AltersOne
    <2>1. \A i \in Entries : i < e => dir'[i] = dir[i]
      BY <1>4, Sizes
    <2>2. QED
      BY <1>1, <1>3, <1>7, <2>1 DEF AltersOne, Alters, Good, HasFile
  <1>12. QED
    BY <1>5, <1>6, <1>7, <1>8, <1>9, <1>10, <1>11 DEF VolumeInv, CommandTypes, Good

LEMMA ReserveKeeps == ASSUME VolumeInv, Reserve PROVE VolumeInv' /\ AltersOne
  <1>1. PICK e \in Entries : Good(e)
    BY DEF VolumeInv
  <1>2. op \in Adds /\ op.do = "reserve" /\ FileStart <= size
    BY <1>1, Doing DEF VolumeInv, Good, RecordOf, Reserve
  <1> DEFINE i == op.index
  <1>3. i \in 0 .. e /\ i \in Entries /\ e \in Nat
    BY <1>1, <1>2, Sizes DEF Good, RecordOf, Adds, Entries
  <1>4. PICK j \in 0 .. Capacity : j = i
    BY <1>3, Sizes
  <1>5. /\ dir' = [dir EXCEPT ![j] = Purged] /\ data' = data
        /\ size' = size /\ kept' = kept /\ op' = [op EXCEPT !.do = "copy"]
    BY <1>3, <1>4, Writing DEF Reserve, VolumeInv
  <1>6. /\ dir' \in [Entries -> Records] /\ dir'[j] = Purged
        /\ \A k \in Entries : k # j => dir'[k] = dir[k]
    BY <1>3, <1>4, <1>5, RecordTypes DEF VolumeInv, VolumeTypes
  <1>7. VolumeTypes'
    BY <1>5, <1>6 DEF VolumeInv, VolumeTypes
  <1>8. /\ op' \in Adds /\ op'.do = "copy" /\ op'.index = j
        /\ op'.start = op.start /\ op'.user = op.user /\ op'.limit = op.limit
        /\ op'.next = op.next /\ op'.failed = op.failed
    BY <1>2, <1>4, <1>5 DEF Adds
  <1>9. PICK f \in Entries : j < f /\ e <= f /\ dir'[f] = Eof /\ f <= e + 1 /\ (f = e + 1 => j = e)
    <2>1. CASE j = e
      <3>1. dir[e] = Eof /\ Purged # Eof
        BY <1>1, RecordTypes DEF Good, EndsAt
      <3>2. dir[e + 1] = Eof /\ e + 1 \in Entries
        BY <1>1, <1>2, <1>4, <2>1, <3>1 DEF Good, RecordOf, RoomFor
      <3>3. QED
        BY <1>3, <1>6, <2>1, <3>2
    <2>2. CASE j # e
      BY <1>1, <1>3, <1>4, <1>6, <2>2 DEF Good, EndsAt
    <2>3. QED
      BY <2>1, <2>2
  <1>10. \A k \in 0 .. f - 1 : dir'[k] = IF k = j THEN Purged ELSE dir[k]
    BY <1>6, <1>9, Sizes DEF Entries
  <1>11. \A k \in 0 .. f - 1 : HasFile(k)' => k \in 0 .. e - 1 /\ k # j /\ HasFile(k) /\ dir'[k] = dir[k]
    BY <1>3, <1>9, <1>10, RecordTypes DEF HasFile
  <1>12. EndsAt(f)'
    <2>1. ASSUME NEW k \in 0 .. f - 1 PROVE dir'[k] # Eof
      BY <1>1, <1>3, <1>9, <1>10, RecordTypes DEF Good, EndsAt
    <2>2. QED
      BY <1>1, <1>5, <1>9, <1>11, <2>1 DEF Good, EndsAt, HasFile, EndOf
  <1>13. InOrder(f)'
    BY <1>1, <1>11 DEF Good, InOrder, HasFile, EndOf
  <1>14. KeptBefore(f)'
    <2>1. \A k \in 0 .. Capacity : kept[k] # None => k < f /\ dir'[k] = dir[k]
      <3>1. SUFFICES ASSUME NEW k \in 0 .. Capacity, kept[k] # None PROVE k < f /\ dir'[k] = dir[k]
        OBVIOUS
      <3>2. k < e /\ HasFile(k)
        BY <1>1, <3>1 DEF Good, KeptBefore
      <3>3. ~HasFile(j)
        <4>1. dir[e] = Eof
          BY <1>1 DEF Good, EndsAt
        <4>2. op.index = e \/ dir[op.index] = Purged
          BY <1>1, <1>2 DEF Good, RecordOf
        <4>3. dir[j] = Eof \/ dir[j] = Purged
          BY <1>4, <4>1, <4>2
        <4>4. QED
          BY <4>3, RecordTypes DEF HasFile
      <3>4. k # j /\ k \in 0 .. f - 1
        BY <1>3, <1>9, <3>2, <3>3, Sizes
      <3>5. QED
        BY <1>10, <3>4, Sizes
    <2>2. QED
      BY <1>1, <1>5, <2>1 DEF Good, KeptBefore, HasFile
  <1>15. RoomFor(f)'
    BY <1>1, <1>2, <1>4, <1>5, <1>8, <1>11 DEF Good, RoomFor, HasFile, EndOf
  <1>16. RecordOf(f)'
    BY <1>2, <1>5, <1>6, <1>8, <1>9 DEF RecordOf
  <1>17. AltersOne
    <2>1. PICK jj \in Entries : jj = j
      BY <1>3, <1>4
    <2>2. ASSUME NEW k \in Entries, k # jj
          PROVE  /\ (k < e /\ HasFile(k)) <=> (k < f /\ HasFile(k)')
                 /\ k < e /\ HasFile(k) => dir'[k] = dir[k]
      <3>1. k \in Nat /\ f \in Nat /\ dir'[k] = dir[k]
        BY <1>6, <2>1, <2>2, Sizes
      <3>2. k < f /\ HasFile(k)' => k < e
        BY <1>3, <1>11, <3>1
      <3>3. QED
        BY <1>3, <1>9, <3>1, <3>2 DEF HasFile
    <2>3. QED
      BY <1>1, <1>5, <1>12, <2>2 DEF AltersOne, Alters, Good
  <1>18. QED
    BY <1>7, <1>8, <1>12, <1>13, <1>14, <1>15, <1>16, <1>17 DEF VolumeInv, CommandTypes, Good

LEMMA CopyKeeps == ASSUME VolumeInv, Copy PROVE VolumeInv' /\ AltersOne
  <1>1. PICK e \in Entries : Good(e)
    BY DEF VolumeInv
  <1>2. op \in Adds /\ op.do = "copy" /\ op.next < Sectors[op.user] /\ FileStart <= size
    BY <1>1, Doing DEF VolumeInv, Good, RecordOf, Copy
  <1>3. PICK at \in Nat, u \in Users, k \in Nat :
          at = op.start /\ u = op.user /\ k = op.next
    BY <1>2 DEF Adds
  <1>4. /\ FileStart <= at /\ at + Sectors[u] <= MaxSectors /\ k < Sectors[u] /\ Sectors[u] \in Nat
        /\ op.limit <= size /\ op.limit \in Nat
    BY <1>1, <1>2, <1>3, Sizes DEF Good, RoomFor, Adds
  <1>5. at + k \in Cells /\ at + k + 1 \in 0 .. MaxSectors
    BY <1>3, <1>4, Sizes DEF Cells
  <1>6. size \in 0 .. MaxSectors /\ MaxSectors \in Nat
    BY Sizes DEF VolumeInv, VolumeTypes
  <1>7. size' \in 0 .. MaxSectors /\ size <= size'
    <2>1. size' = Max({size, at + k + 1})
      BY <1>3 DEF Copy
    <2>2. QED
      BY <1>5, <1>6, <2>1, Greatest
  <1>8. data' = [data EXCEPT ![at + k] = Part(u, k)] /\ dir' = dir /\ kept' = kept
    BY <1>3 DEF Copy
  <1>9. Part(u, k) \in Contents
    BY DEF Part, Contents
  <1>10. /\ data' \in [Cells -> Contents] /\ data'[at + k] = Part(u, k)
         /\ \A c \in Cells : c # at + k => data'[c] = data[c]
    BY <1>5, <1>8, <1>9 DEF VolumeInv, VolumeTypes
  <1>11. VolumeTypes'
    BY <1>7, <1>8, <1>10 DEF VolumeInv, VolumeTypes
  <1>12. /\ op' \in Adds /\ op'.do = "copy" /\ op'.index = op.index
         /\ op'.start = at /\ op'.user = u /\ op'.limit = op.limit
         /\ op'.next = k + 1 /\ op'.failed = op.failed
    BY <1>2, <1>3 DEF Copy, Adds
  <1>13. \A i \in 0 .. e - 1 : HasFile(i) =>
           /\ i \in Entries
           /\ dir[i].start \in Nat /\ dir[i].sectors \in Nat /\ FileStart <= dir[i].start
           /\ EndOf(dir[i]) <= size
           /\ EndOf(dir[i]) <= at \/ at + Sectors[u] <= dir[i].start
    <2>1. SUFFICES ASSUME NEW i \in 0 .. e - 1, HasFile(i)
                   PROVE  /\ i \in Entries
                          /\ dir[i].start \in Nat /\ dir[i].sectors \in Nat
                          /\ FileStart <= dir[i].start /\ EndOf(dir[i]) <= size
                          /\ EndOf(dir[i]) <= at \/ at + Sectors[u] <= dir[i].start
      OBVIOUS
    <2>2. i \in Entries
      BY <2>1, Sizes DEF Entries
    <2> dir[i] \in FileRecords
      BY <2>1, <2>2, Reading DEF VolumeInv
    <2>3. i # op.index
      BY <1>1, <1>2, <2>1, RecordTypes DEF Good, RecordOf, HasFile
    <2>4. i < op.index \/ i > op.index
      BY <1>2, <2>3 DEF Adds
    <2>5. QED
      BY <1>1, <1>2, <1>3, <2>1, <2>2, <2>4 DEF Good, EndsAt, RoomFor, FileRecords
  <1>14. EndsAt(e)'
    BY <1>1, <1>6, <1>7, <1>8, <1>13 DEF Good, EndsAt, HasFile, EndOf
  <1>15. InOrder(e)'
    BY <1>1, <1>8 DEF Good, InOrder, HasFile, EndOf
  <1>16. KeptBefore(e)'
    <2>1. SUFFICES ASSUME NEW i \in 0 .. Capacity, kept[i] # None,
                          NEW m \in 0 .. Sectors[kept[i].user] - 1
                   PROVE  data'[dir[i].start + m] = data[dir[i].start + m]
      BY <1>1, <1>8 DEF Good, KeptBefore, HasFile
    <2>2. i \in 0 .. e - 1 /\ HasFile(i) /\ dir[i].sectors = Sectors[kept[i].user]
      BY <1>1, <2>1, Sizes DEF Good, KeptBefore
    <2>3. dir[i].start + m \in Cells /\ dir[i].start + m # at + k
      <3>1. /\ dir[i].start \in Nat /\ dir[i].sectors \in Nat /\ FileStart <= dir[i].start
            /\ dir[i].start + dir[i].sectors <= size
            /\ dir[i].start + dir[i].sectors <= at \/ at + Sectors[u] <= dir[i].start
        BY <1>13, <2>2 DEF EndOf
      <3>2. m \in 0 .. dir[i].sectors - 1
        BY <2>2
      <3>3. QED
        BY <1>3, <1>4, <1>6, <3>1, <3>2, Sizes DEF Cells
    <2>4. QED
      BY <1>10, <2>3
  <1>17. RoomFor(e)'
    <2>1. ASSUME ~op.failed, NEW m \in 0 .. k PROVE data'[at + m] = Part(u, m)
      <3>1. CASE m = k
        BY <1>10, <3>1
      <3>2. CASE m # k
        <4>1. m \in 0 .. op.next - 1
          BY <1>3, <3>2
        <4>2. data[at + m] = Part(u, m)
          BY <1>1, <1>2, <1>3, <2>1, <4>1 DEF Good, RoomFor
        <4>3. at + m \in Cells /\ at + m # at + k
          BY <1>3, <1>4, <3>2, Sizes DEF Cells
        <4>4. QED
          BY <1>10, <4>2, <4>3
      <3>3. QED
        BY <3>1, <3>2
    <2>2. op.limit <= size' /\ k + 1 <= Sectors[u]
      BY <1>3, <1>4, <1>6, <1>7
    <2>3. op'.next - 1 = k
      BY <1>3, <1>12
    <2>4. QED
      BY <1>1, <1>2, <1>3, <1>8, <1>12, <2>1, <2>2, <2>3 DEF Good, RoomFor, HasFile, EndOf
  <1>18. RecordOf(e)'
    <2>1. FileStart <= size'
      BY <1>2, <1>6, <1>7, Sizes
    <2>2. QED
      BY <1>1, <1>2, <1>8, <1>12, <2>1 DEF Good, RecordOf
  <1>19. AltersOne
    <2>1. FileStart <= size' /\ FileStart <= size
      BY <1>2, <1>6, <1>7, Sizes
    <2>2. QED
      BY <1>1, <1>8, <1>14, <2>1 DEF AltersOne, Alters, Good, HasFile
  <1>20. QED
    BY <1>11, <1>12, <1>14, <1>15, <1>16, <1>17, <1>18, <1>19 DEF VolumeInv, CommandTypes, Good

LEMMA CopyFailsKeeps == ASSUME VolumeInv, CopyFails PROVE VolumeInv' /\ AltersOne
  <1>1. PICK e \in Entries : Good(e)
    BY DEF VolumeInv
  <1>2. op \in Adds /\ op.do = "copy" /\ FileStart <= size
    BY <1>1, Doing DEF VolumeInv, Good, RecordOf, CopyFails
  <1>3. /\ op' \in Adds /\ op'.do = "copy" /\ op'.index = op.index
        /\ op'.start = op.start /\ op'.user = op.user /\ op'.limit = op.limit
        /\ op'.next = Sectors[op.user] /\ op'.failed /\ Sectors[op.user] \in Nat
    BY <1>2, Sizes DEF CopyFails, Adds
  <1>4. UNCHANGED <<dir, data, kept>> /\ size' = size
    BY DEF CopyFails, volume
  <1>5. VolumeTypes' /\ EndsAt(e)' /\ InOrder(e)' /\ KeptBefore(e)' /\ AltersOne
    BY <1>1, <1>4, Unmoved DEF VolumeInv, Good
  <1>6. RoomFor(e)' /\ RecordOf(e)'
    BY <1>1, <1>2, <1>3, <1>4 DEF Good, RoomFor, RecordOf, HasFile, EndOf
  <1>7. QED
    BY <1>3, <1>5, <1>6 DEF VolumeInv, CommandTypes, Good

LEMMA EnterKeeps == ASSUME VolumeInv, Enter PROVE VolumeInv' /\ AltersOne
  <1>1. PICK e \in Entries : Good(e)
    BY DEF VolumeInv
  <1>2. /\ op \in Adds /\ op.do = "copy" /\ op.next = Sectors[op.user]
        /\ op.index < e /\ dir[op.index] = Purged /\ FileStart <= size
    BY <1>1, Doing DEF VolumeInv, Good, RecordOf, Enter
  <1>3. PICK j \in Entries, u \in Users, at \in Nat, n \in Names :
          j = op.index /\ u = op.user /\ at = op.start /\ n = op.name
    BY <1>2, Sizes DEF Adds, Entries
  <1> DEFINE r == File(n, u, at)
  <1>4. /\ r \in FileRecords /\ r.type = "file" /\ r.start = at /\ r.sectors = Sectors[u]
        /\ r.name = n /\ Sectors[u] \in Nat
    BY Sizes DEF File, FileRecords
  <1>5. CASE ~CheckDir(r, op.limit)
    <2>1. UNCHANGED <<dir, data, kept>> /\ size' = size /\ op' = Idle
      BY <1>3, <1>5 DEF Enter
    <2>2. VolumeTypes' /\ EndsAt(e)' /\ InOrder(e)' /\ KeptBefore(e)' /\ AltersOne
      BY <1>1, <2>1, Unmoved DEF VolumeInv, Good
    <2>3. QED
      BY <2>1, <2>2, AtRest DEF VolumeInv, Good
  <1>6. CASE CheckDir(r, op.limit)
    <2> HIDE DEF r
    <2> e \in Nat /\ j \in Nat /\ j < e /\ size \in Nat
      BY <1>2, <1>3, Sizes DEF VolumeInv, VolumeTypes
    <2>1. /\ dir' = [dir EXCEPT ![j] = r] /\ data' = data /\ size' = size /\ op' = Idle
          /\ kept' = [kept EXCEPT ![j] = IF op.failed THEN None ELSE [name |-> n, user |-> u]]
      BY <1>3, <1>6, Writing DEF Enter, VolumeInv, r
    <2>2. FileStart <= at /\ EndOf(r) <= size
      BY <1>1, <1>2, <1>3, <1>4, <1>6 DEF Good, RoomFor, CheckDir, EndOf, Adds
    <2>3. /\ dir' \in [Entries -> Records] /\ dir'[j] = r
          /\ \A i \in Entries : i # j => dir'[i] = dir[i]
      BY <1>4, <2>1 DEF VolumeInv, VolumeTypes, Records
    <2>4. /\ kept' \in [0 .. Capacity -> {None} \cup Told]
          /\ kept'[j] = IF op.failed THEN None ELSE [name |-> n, user |-> u]
          /\ \A i \in 0 .. Capacity : i # j => kept'[i] = kept[i]
      BY <2>1, Sizes DEF VolumeInv, VolumeTypes, Told
    <2>5. VolumeTypes'
      BY <2>1, <2>3, <2>4 DEF VolumeInv, VolumeTypes
    <2>6. \A i \in 0 .. e - 1 : i \in Entries
      BY Sizes DEF Entries
    <2>7. \A i \in 0 .. e - 1 : HasFile(i) =>
            /\ dir[i] \in FileRecords
            /\ i < j => EndOf(dir[i]) <= at
            /\ i > j => EndOf(r) <= dir[i].start
      BY <1>1, <1>2, <1>3, <1>4, <2>6, Reading DEF VolumeInv, Good, RoomFor, EndOf
    <2>8. EndsAt(e)'
      <3>1. dir'[e] = Eof
        BY <1>1, <2>3 DEF Good, EndsAt
      <3>2. ASSUME NEW i \in 0 .. e - 1
            PROVE  /\ dir'[i] # Eof
                   /\ dir'[i].type = "file" => FileStart <= dir'[i].start /\ EndOf(dir'[i]) <= size
        <4>1. CASE i = j
          BY <1>4, <2>2, <2>3, <4>1, RecordTypes
        <4>2. CASE i # j
          BY <1>1, <2>3, <2>6, <4>2 DEF Good, EndsAt, HasFile
        <4>3. QED
          BY <4>1, <4>2
      <3>3. QED
        BY <2>1, <3>1, <3>2 DEF EndsAt, HasFile, EndOf
    <2>9. InOrder(e)'
      <3>1. SUFFICES ASSUME NEW a \in 0 .. e - 1, NEW b \in 0 .. e - 1, a < b,
                            dir'[a].type = "file", dir'[b].type = "file"
                     PROVE  EndOf(dir'[a]) <= dir'[b].start
        BY DEF InOrder, HasFile, EndOf
      <3>2. CASE a = j
        BY <1>4, <2>3, <2>6, <2>7, <3>1, <3>2 DEF HasFile
      <3>3. CASE b = j
        BY <1>4, <2>3, <2>6, <2>7, <3>1, <3>3 DEF HasFile
      <3>4. CASE a # j /\ b # j
        BY <1>1, <2>3, <2>6, <3>1, <3>4 DEF Good, InOrder, HasFile
      <3>5. QED
        BY <3>2, <3>3, <3>4
    <2>10. KeptBefore(e)'
      <3>1. SUFFICES ASSUME NEW i \in 0 .. Capacity, kept'[i] # None
                     PROVE  /\ i < e /\ dir'[i].type = "file" /\ dir'[i].name = kept'[i].name
                            /\ dir'[i].sectors = Sectors[kept'[i].user]
                            /\ \A k \in 0 .. Sectors[kept'[i].user] - 1 :
                                 data[dir'[i].start + k] = Part(kept'[i].user, k)
        BY <2>1 DEF KeptBefore, HasFile
      <3>2. CASE i = j
        <4>1. ~op.failed /\ kept'[i] = [name |-> n, user |-> u]
          BY <2>4, <3>1, <3>2
        <4>2. \A k \in 0 .. Sectors[u] - 1 : data[at + k] = Part(u, k)
          BY <1>1, <1>2, <1>3, <4>1 DEF Good, RoomFor
        <4>3. QED
          BY <1>4, <2>3, <3>2, <4>1, <4>2
      <3>3. CASE i # j
        <4>1. kept'[i] = kept[i] /\ kept[i] # None
          BY <2>4, <3>1, <3>3
        <4>2. i < e /\ i \in Entries
          BY <1>1, <2>6, <4>1, Sizes DEF Good, KeptBefore
        <4>3. dir'[i] = dir[i]
          BY <2>3, <3>3, <4>2
        <4>4. QED
          BY <1>1, <4>1, <4>2, <4>3 DEF Good, KeptBefore, HasFile
      <3>4. QED
        BY <3>2, <3>3
    <2>11. AltersOne
      BY <1>1, <2>1, <2>3, <2>8 DEF AltersOne, Alters, Good, HasFile
    <2>12. QED
      BY <2>1, <2>5, <2>8, <2>9, <2>10, <2>11, AtRest DEF VolumeInv, Good
  <1>7. QED
    BY <1>5, <1>6

(* A file found by its name is before the end.                             *)
LEMMA Found ==
  ASSUME VolumeTypes, NEW e \in Entries, NEW p \in 0 .. e, NEW n, Having(n, p) # {}
  PROVE  Min(Having(n, p)) \in 0 .. p - 1 /\ HasFile(Min(Having(n, p)))
  <1>1. Having(n, p) \subseteq Nat
    BY TheFiles DEF Having
  <1>2. Min(Having(n, p)) \in Having(n, p)
    BY <1>1, Least
  <1>3. QED
    BY <1>2, TheFiles DEF Having

LEMMA DeleteKeeps == ASSUME VolumeInv, NEW n \in Names, Delete(n) PROVE VolumeInv' /\ AltersOne
  <1>1. PICK e \in Entries : Good(e)
    BY DEF VolumeInv
  <1>2. PICK p \in Entries :
          /\ p = Trimmed(EofIndex) /\ p \in 0 .. e
          /\ \A i \in 0 .. p - 1 : dir'[i] = dir[i]
          /\ size' = size /\ FileStart <= size
          /\ VolumeTypes' /\ EndsAt(p)' /\ InOrder(p)' /\ KeptBefore(p)' /\ AltersOne
    BY <1>1, Opened DEF Delete, VolumeInv, Good
  <1>3. PICK i : i = Min(Having(n, p))
    OBVIOUS
  <1>4. op' = [do |-> "delete", index |-> i, end |-> p] /\ Having(n, p) # {}
    BY <1>2, <1>3 DEF Delete
  <1>5. i \in 0 .. p - 1 /\ HasFile(i)
    BY <1>2, <1>3, <1>4, Found DEF VolumeInv
  <1>6. op' \in [do : {"delete"}, index : Nat, end : Nat]
    BY <1>4, <1>5, Sizes
  <1>7. RoomFor(p)' /\ RecordOf(p)'
    BY <1>2, <1>4, <1>5, Sizes, Doing DEF RoomFor, RecordOf, HasFile
  <1>8. QED
    BY <1>2, <1>6, <1>7 DEF VolumeInv, CommandTypes, Good

LEMMA RenameKeeps ==
  ASSUME VolumeInv, NEW n \in Names, NEW m \in Names, Rename(n, m) PROVE VolumeInv' /\ AltersOne
  <1>1. PICK e \in Entries : Good(e)
    BY DEF VolumeInv
  <1>2. PICK p \in Entries :
          /\ p = Trimmed(EofIndex) /\ p \in 0 .. e
          /\ \A i \in 0 .. p - 1 : dir'[i] = dir[i]
          /\ size' = size /\ FileStart <= size
          /\ VolumeTypes' /\ EndsAt(p)' /\ InOrder(p)' /\ KeptBefore(p)' /\ AltersOne
    BY <1>1, Opened DEF Rename, VolumeInv, Good
  <1>3. PICK i : i = Min(Having(n, p))
    OBVIOUS
  <1>4. op' = [do |-> "rename", index |-> i, name |-> m] /\ Having(n, p) # {}
    BY <1>2, <1>3 DEF Rename
  <1>5. i \in 0 .. p - 1 /\ HasFile(i)
    BY <1>2, <1>3, <1>4, Found DEF VolumeInv
  <1>6. op' \in [do : {"rename"}, index : Nat, name : Names]
    BY <1>4, <1>5, Sizes
  <1>7. RoomFor(p)' /\ RecordOf(p)'
    BY <1>2, <1>4, <1>5, Sizes, Doing DEF RoomFor, RecordOf, HasFile
  <1>8. QED
    BY <1>2, <1>6, <1>7 DEF VolumeInv, CommandTypes, Good

LEMMA UpdateKeeps == ASSUME VolumeInv, Update PROVE VolumeInv' /\ AltersOne
  <1>1. PICK e \in Entries : Good(e)
    BY DEF VolumeInv
  <1>2. \E p \in Entries : VolumeTypes' /\ EndsAt(p)' /\ InOrder(p)' /\ KeptBefore(p)' /\ AltersOne
    BY <1>1, Opened DEF Update, VolumeInv, Good
  <1>3. op' = Idle
    BY DEF Update
  <1>4. QED
    BY <1>2, <1>3, AtRest DEF VolumeInv, Good

LEMMA StopKeeps == ASSUME VolumeInv, Stop PROVE VolumeInv' /\ AltersOne
  <1>1. PICK e \in Entries : Good(e)
    BY DEF VolumeInv
  <1>2. UNCHANGED <<dir, data, kept>> /\ size' = size /\ op' = Idle
    BY DEF Stop, volume
  <1>3. VolumeTypes' /\ EndsAt(e)' /\ InOrder(e)' /\ KeptBefore(e)' /\ AltersOne
    BY <1>1, <1>2, Unmoved DEF VolumeInv, Good
  <1>4. QED
    BY <1>2, <1>3, AtRest DEF VolumeInv, Good

LEMMA Delete2Keeps == ASSUME VolumeInv, Delete2 PROVE VolumeInv' /\ AltersOne
  <1>1. PICK e \in Entries : Good(e)
    BY DEF VolumeInv
  <1>2. op.do = "delete" /\ op.index \in Nat /\ op.end = e /\ op.index < e /\ FileStart <= size
    BY <1>1, Doing DEF VolumeInv, Good, RecordOf, Delete2
  <1>3. PICK j \in Entries : j = op.index /\ j < e
    BY <1>2, Sizes DEF Entries
  <1> e \in Nat /\ j \in Nat
    BY Sizes
  <1> DEFINE r == IF j >= e - 1 THEN Eof ELSE Purged
  <1>4. /\ dir' = [dir EXCEPT ![j] = r] /\ data' = data /\ size' = size
        /\ kept' = [kept EXCEPT ![j] = None] /\ op' = [do |-> "update"]
    BY <1>2, <1>3, Writing DEF Delete2, VolumeInv
  <1>5. /\ dir' \in [Entries -> Records] /\ dir'[j] = r
        /\ \A i \in Entries : i # j => dir'[i] = dir[i]
    BY <1>4, RecordTypes DEF VolumeInv, VolumeTypes
  <1>6. /\ kept' \in [0 .. Capacity -> {None} \cup Told] /\ kept'[j] = None
        /\ \A i \in 0 .. Capacity : i # j => kept'[i] = kept[i]
    BY <1>4, Sizes DEF VolumeInv, VolumeTypes
  <1>7. VolumeTypes'
    BY <1>4, <1>5, <1>6 DEF VolumeInv, VolumeTypes
  <1>8. PICK f \in Entries : dir'[f] = Eof /\ (IF j = e - 1 THEN f = j ELSE f = e /\ r = Purged)
    <2>1. dir[e] = Eof
      BY <1>1 DEF Good, EndsAt
    <2>2. QED
      BY <1>3, <1>5, <2>1
  <1> HIDE DEF r
  <1>9. \A i \in 0 .. f - 1 : i \in 0 .. e - 1 /\ (dir'[i] = dir[i] \/ dir'[i] = Purged)
    BY <1>3, <1>5, <1>8, Sizes DEF Entries
  <1>10. EndsAt(f)' /\ InOrder(f)'
    BY <1>1, <1>4, <1>8, <1>9, RecordTypes DEF Good, EndsAt, InOrder, HasFile, EndOf
  <1>11. KeptBefore(f)'
    <2>1. \A i \in 0 .. Capacity : kept'[i] # None => kept'[i] = kept[i] /\ i < f /\ dir'[i] = dir[i]
      <3>1. SUFFICES ASSUME NEW i \in 0 .. Capacity, kept'[i] # None
                     PROVE  kept'[i] = kept[i] /\ i < f /\ dir'[i] = dir[i]
        OBVIOUS
      <3>2. i # j /\ kept'[i] = kept[i] /\ i < e
        BY <1>1, <1>6, <3>1 DEF Good, KeptBefore
      <3>3. i \in Entries
        BY <3>2, Sizes DEF Entries
      <3>4. QED
        BY <1>3, <1>5, <1>8, <3>2, <3>3
    <2>2. QED
      BY <1>1, <1>4, <2>1 DEF Good, KeptBefore, HasFile
  <1>12. CommandTypes' /\ RoomFor(f)' /\ RecordOf(f)'
    BY <1>2, <1>4, Doing DEF CommandTypes, RoomFor, RecordOf
  <1>13. AltersOne
    <2>1. ASSUME NEW i \in Entries, i # j
          PROVE  /\ (i < e /\ HasFile(i)) <=> (i < f /\ HasFile(i)')
                 /\ i < e /\ HasFile(i) => dir'[i] = dir[i]
      <3>1. i \in Nat /\ dir'[i] = dir[i]
        BY <1>5, <2>1, Sizes
      <3>2. (i < e) <=> (i < f)
        BY <1>3, <1>8, <2>1, <3>1
      <3>3. QED
        BY <3>1, <3>2 DEF HasFile
    <2>2. QED
      BY <1>1, <1>4, <1>10, <2>1 DEF AltersOne, Alters, Good
  <1>14. QED
    BY <1>7, <1>10, <1>11, <1>12, <1>13 DEF VolumeInv, Good

LEMMA Rename2Keeps == ASSUME VolumeInv, Rename2 PROVE VolumeInv' /\ AltersOne
  <1>1. PICK e \in Entries : Good(e)
    BY DEF VolumeInv
  <1>2. op.do = "rename" /\ op.index \in Nat /\ op.name \in Names /\ op.index < e /\ HasFile(op.index)
    BY <1>1, Doing DEF VolumeInv, Good, RecordOf, Rename2
  <1>3. PICK j \in Entries, n \in Names : j = op.index /\ n = op.name /\ j < e
    BY <1>2, Sizes DEF Entries
  <1> e \in Nat /\ j \in Nat
    BY Sizes
  <1>4. ReadDir(j) = dir[j] /\ dir[j] \in FileRecords /\ HasFile(j)
    BY <1>2, <1>3, Reading DEF VolumeInv
  <1> DEFINE r == [dir[j] EXCEPT !.name = n]
  <1>5. r \in FileRecords /\ r.name = n /\ r.start = dir[j].start /\ r.sectors = dir[j].sectors
        /\ r.type = "file"
    BY <1>4 DEF FileRecords
  <1>6. /\ dir' = [dir EXCEPT ![j] = r] /\ data' = data /\ size' = size /\ op' = Idle
        /\ kept' = [kept EXCEPT ![j] = IF @ = None THEN None ELSE [@ EXCEPT !.name = n]]
    BY <1>3, <1>4, Writing DEF Rename2, VolumeInv
  <1> HIDE DEF r
  <1>7. /\ dir' \in [Entries -> Records] /\ dir'[j] = r
        /\ \A i \in Entries : i # j => dir'[i] = dir[i]
    BY <1>5, <1>6 DEF VolumeInv, VolumeTypes, Records
  <1>8. /\ kept'[j] = IF kept[j] = None THEN None ELSE [kept[j] EXCEPT !.name = n]
        /\ \A i \in 0 .. Capacity : i # j => kept'[i] = kept[i]
        /\ kept[j] # None => kept[j] \in Told
    BY <1>6, Sizes DEF VolumeInv, VolumeTypes
  <1>9. kept[j] # None => kept'[j] \in Told /\ kept'[j].name = n /\ kept'[j].user = kept[j].user
    BY <1>8 DEF Told
  <1>10. kept' \in [0 .. Capacity -> {None} \cup Told]
    BY <1>6, <1>8, <1>9 DEF VolumeInv, VolumeTypes
  <1>11. VolumeTypes'
    BY <1>6, <1>7, <1>10 DEF VolumeInv, VolumeTypes
  <1>12. \A i \in 0 .. e : i \in Entries
    BY Sizes DEF Entries
  <1>13. \A i \in 0 .. e - 1 :
           /\ dir'[i].type = "file" <=> HasFile(i)
           /\ HasFile(i) => dir'[i].start = dir[i].start /\ dir'[i].sectors = dir[i].sectors
           /\ dir'[i] # Eof
           /\ i # j => dir'[i] = dir[i]
    BY <1>1, <1>3, <1>4, <1>5, <1>7, <1>12, RecordTypes DEF HasFile, Good, EndsAt
  <1>14. EndsAt(e)'
    BY <1>1, <1>3, <1>6, <1>7, <1>13 DEF Good, EndsAt, HasFile, EndOf
  <1>15. InOrder(e)'
    BY <1>1, <1>13 DEF Good, InOrder, HasFile, EndOf
  <1>16. KeptBefore(e)'
    <2>1. SUFFICES ASSUME NEW i \in 0 .. Capacity, kept'[i] # None
                   PROVE  /\ i < e /\ dir'[i].type = "file" /\ dir'[i].name = kept'[i].name
                          /\ dir'[i].sectors = Sectors[kept'[i].user]
                          /\ \A k \in 0 .. Sectors[kept'[i].user] - 1 :
                               data[dir'[i].start + k] = Part(kept'[i].user, k)
      BY <1>6 DEF KeptBefore, HasFile
    <2>2. kept[i] # None /\ kept'[i].user = kept[i].user
      BY <1>8, <1>9, <2>1
    <2>3. i \in 0 .. e - 1 /\ HasFile(i)
      BY <1>1, <2>2, Sizes DEF Good, KeptBefore
    <2>4. dir'[i].name = kept'[i].name
      <3>1. CASE i = j
        BY <1>5, <1>7, <1>9, <2>2, <3>1
      <3>2. CASE i # j
        BY <1>1, <1>8, <1>13, <2>2, <2>3, <3>2 DEF Good, KeptBefore
      <3>3. QED
        BY <3>1, <3>2
    <2>5. QED
      BY <1>1, <1>13, <2>2, <2>3, <2>4 DEF Good, KeptBefore
  <1>17. AltersOne
    BY <1>1, <1>6, <1>7, <1>14 DEF AltersOne, Alters, Good, HasFile
  <1>18. QED
    BY <1>6, <1>11, <1>14, <1>15, <1>16, <1>17, AtRest DEF VolumeInv, Good

LEMMA Initially == Init => VolumeInv
  <1>1. SUFFICES ASSUME Init PROVE VolumeInv
    OBVIOUS
  <1>2. PICK r : /\ r \in {Eof} \cup {File(n, u, FileStart) : n \in Names, u \in Users}
                 /\ dir = [i \in Entries |-> IF i = 0 THEN Eof ELSE r]
    BY <1>1 DEF Init, Entries
  <1>3. r \in Records
    BY <1>2, Sizes DEF Records, FileRecords, File
  <1>4. dir \in [Entries -> Records] /\ dir[0] = Eof
    BY <1>2, <1>3, Sizes, RecordTypes
  <1>5. VolumeTypes
    BY <1>1, <1>4, Sizes DEF Init, VolumeTypes, Contents, Cells
  <1>6. EndsAt(0) /\ InOrder(0) /\ KeptBefore(0)
    BY <1>1, <1>4, Sizes DEF Init, EndsAt, InOrder, KeptBefore
  <1>7. CommandTypes /\ RoomFor(0) /\ RecordOf(0)
    BY <1>1, Doing DEF Init, CommandTypes, RoomFor, RecordOf
  <1>8. QED
    BY <1>5, <1>6, <1>7, Sizes DEF VolumeInv, Good

LEMMA Kept ==
  ASSUME KeepsRoom, VolumeInv, [Next]_vars
  PROVE  VolumeInv' /\ (op'.do # "create" => AltersOne)
  <1>1. CASE Create
    BY <1>1, CreateKeeps DEF Create
  <1>2. CASE CreateSector
    BY <1>2, CreateSectorKeeps
  <1>3. ASSUME NEW n \in Names, NEW u \in Users, Add(n, u) PROVE VolumeInv' /\ AltersOne
    BY <1>3, AddKeeps
  <1>4. ASSUME NEW u \in Users, AddRefused(u) PROVE VolumeInv' /\ AltersOne
    BY <1>4, AddRefusedKeeps
  <1>5. CASE WriteEnd
    BY <1>5, WriteEndKeeps
  <1>6. CASE Reserve
    BY <1>6, ReserveKeeps
  <1>7. CASE Copy
    BY <1>7, CopyKeeps
  <1>8. CASE CopyFails
    BY <1>8, CopyFailsKeeps
  <1>9. CASE Enter
    BY <1>9, EnterKeeps
  <1>10. ASSUME NEW n \in Names, Delete(n) PROVE VolumeInv' /\ AltersOne
    BY <1>10, DeleteKeeps
  <1>11. CASE Delete2
    BY <1>11, Delete2Keeps
  <1>12. CASE Update
    BY <1>12, UpdateKeeps
  <1>13. ASSUME NEW n \in Names, NEW m \in Names, Rename(n, m) PROVE VolumeInv' /\ AltersOne
    BY <1>13, RenameKeeps
  <1>14. CASE Rename2
    BY <1>14, Rename2Keeps
  <1>15. CASE Stop
    BY <1>15, StopKeeps
  <1>16. CASE UNCHANGED vars
    <2>1. UNCHANGED <<dir, data, kept>> /\ size' = size /\ op' = op
      BY <1>16 DEF vars
    <2>2. PICK e \in Entries : Good(e)
      BY DEF VolumeInv
    <2>3. VolumeTypes' /\ EndsAt(e)' /\ InOrder(e)' /\ KeptBefore(e)' /\ AltersOne
      BY <2>1, <2>2, Unmoved DEF VolumeInv, Good
    <2>4. CommandTypes' /\ RoomFor(e)' /\ RecordOf(e)'
      BY <2>1, <2>2 DEF VolumeInv, Good, CommandTypes, RoomFor, RecordOf, HasFile, EndOf
    <2>5. QED
      BY <2>3, <2>4 DEF VolumeInv, Good
  <1>17. QED
    BY <1>1, <1>2, <1>3, <1>4, <1>5, <1>6, <1>7, <1>8, <1>9, <1>10, <1>11, <1>12, <1>13,
       <1>14, <1>15, <1>16 DEF Next

(***************************************************************************)
(* What the invariant says.                                                *)
(***************************************************************************)
LEMMA SaysOrdered == VolumeInv => Ordered
  <1>1. SUFFICES ASSUME VolumeInv PROVE Ordered
    OBVIOUS
  <1>2. PICK e \in Entries : Good(e)
    BY <1>1 DEF VolumeInv
  <1>3. VolumeTypes /\ EndsAt(e) /\ InOrder(e) /\ EofIndex = e
    BY <1>1, <1>2, TheEnd DEF VolumeInv, Good
  <1>4. ASSUME NEW j \in Listed(e)
        PROVE  SpaceBefore(j) <= ReadDir(j).start /\ EndOf(ReadDir(j)) <= size
    <2>1. j \in 0 .. e - 1 /\ HasFile(j) /\ ReadDir(j) = dir[j]
      BY <1>3, Sizes, TheFiles
    <2>2. j \in 0 .. e /\ j \in j .. e - 1
      BY <2>1, Sizes
    <2>3. SpaceBefore(j) <= dir[j].start
      BY <1>3, <2>1, <2>2, Space
    <2>4. QED
      BY <1>3, <2>1, <2>3 DEF EndsAt
  <1>5. QED
    BY <1>3, <1>4 DEF Ordered

LEMMA SaysFilesIntact == VolumeInv => FilesIntact
  <1>1. SUFFICES ASSUME VolumeInv, NEW i \in 0 .. Capacity, kept[i] # None PROVE Intact(i)
    BY DEF FilesIntact
  <1>2. PICK e \in Entries : Good(e)
    BY <1>1 DEF VolumeInv
  <1>3. VolumeTypes /\ EndsAt(e) /\ Ends # {} /\ EofIndex = e
    BY <1>1, <1>2, TheEnd DEF VolumeInv, Good
  <1>4. /\ i < e /\ HasFile(i)
        /\ dir[i].name = kept[i].name
        /\ \A k \in 0 .. Sectors[kept[i].user] - 1 : data[dir[i].start + k] = Part(kept[i].user, k)
    BY <1>1, <1>2 DEF Good, KeptBefore
  <1>5. i \in Entries
    BY <1>4, Sizes DEF Entries
  <1>6. ReadDir(i) = dir[i] /\ dir[i] # Bad
    BY <1>3, <1>5, Reading
  <1>7. QED
    BY <1>3, <1>4, <1>6 DEF Intact, HasFile

LEMMA SaysStaysOpenable == VolumeInv => StaysOpenable
  <1>1. SUFFICES ASSUME VolumeInv, FileStart + FileSectors <= size PROVE Opens
    BY DEF StaysOpenable
  <1>2. Ends # {}
    BY <1>1, TheEnd DEF VolumeInv, Good
  <1>3. size \in Nat
    BY <1>1, Sizes DEF VolumeInv, VolumeTypes
  <1>4. QED
    BY <1>1, <1>2, <1>3, Sizes DEF Opens

(* The listing, record by record.                                          *)
ListingAt(e) ==
  Listing = IF FileStart <= size
            THEN {<<i, dir[i]>> : i \in {k \in Entries : k < e /\ HasFile(k)}} ELSE {}
ListingEnds == \A e \in Entries : EndsAt(e) => ListingAt(e)

LEMMA Listings == VolumeInv => ListingEnds
  <1>1. SUFFICES ASSUME VolumeInv, NEW e \in Entries, EndsAt(e) PROVE ListingAt(e)
    BY DEF ListingEnds
  <1>2. VolumeTypes /\ Ends # {} /\ EofIndex = e
    BY <1>1, TheEnd DEF VolumeInv
  <1>3. size \in Nat /\ (Opens <=> FileStart <= size)
    BY <1>2, Sizes DEF Opens, VolumeTypes
  <1>4. Listed(e) = {k \in Entries : k < e /\ HasFile(k)}
    <2>1. e \in 0 .. e
      BY Sizes
    <2>2. \A k : k \in 0 .. e - 1 <=> k \in Entries /\ k < e
      BY Sizes DEF Entries
    <2>3. QED
      BY <1>2, <2>1, <2>2, TheFiles
  <1>5. \A k \in Listed(e) : ReadDir(k) = dir[k]
    BY <1>2, <1>4, Reading
  <1>6. {<<i, ReadDir(i)>> : i \in Listed(e)} = {<<i, dir[i]>> : i \in Listed(e)}
    BY <1>5
  <1>7. QED
    BY <1>2, <1>3, <1>4, <1>6 DEF Listing, ListingAt

LEMMA AtMostOne ==
  ASSUME NEW S, NEW j, \A x \in S : x[1] = j
  PROVE  Cardinality({x[1] : x \in S}) <= 1
  <1>1. {x[1] : x \in S} = {} \/ {x[1] : x \in S} = {j}
    OBVIOUS
  <1>2. Cardinality({}) = 0 /\ Cardinality({j}) = 1
    BY FS_EmptySet, FS_Singleton
  <1>3. QED
    BY <1>1, <1>2

LEMMA SaysOneFile ==
  ASSUME VolumeInv, VolumeInv', AltersOne
  PROVE  Cardinality({x[1] : x \in (Listing \ Listing') \cup (Listing' \ Listing)}) <= 1
  <1>1. PICK e \in Entries, f \in Entries, j \in Entries : Alters(e, f, j)
    BY DEF AltersOne
  <1> DEFINE D == (Listing \ Listing') \cup (Listing' \ Listing)
  <1>2. Listing = IF FileStart <= size
                  THEN {<<i, dir[i]>> : i \in {k \in Entries : k < e /\ HasFile(k)}} ELSE {}
    BY <1>1, Listings DEF Alters, ListingEnds, ListingAt
  <1>3. (VolumeInv => ListingEnds)'
    BY Listings, PTL
  <1>4. Listing' = IF FileStart <= size'
                   THEN {<<i, dir'[i]>> : i \in {k \in Entries : k < f /\ HasFile(k)'}} ELSE {}
    BY <1>1, <1>3 DEF Alters, ListingEnds, ListingAt, HasFile
  <1>5. \A x \in D : x[1] = j
    <2>1. SUFFICES ASSUME NEW x \in D, x[1] # j PROVE FALSE
      OBVIOUS
    <2>2. PICK i \in Entries : x[1] = i
      BY <1>2, <1>4
    <2>3. /\ (i < e /\ HasFile(i)) <=> (i < f /\ HasFile(i)')
          /\ i < e /\ HasFile(i) => dir'[i] = dir[i]
      BY <1>1, <2>1, <2>2 DEF Alters
    <2>4. ~(e = 0 /\ f = 0)
      BY <1>2, <1>4, <2>1, Sizes DEF Entries
    <2>5. FileStart <= size' <=> FileStart <= size
      BY <1>1, <2>4 DEF Alters
    <2>6. QED
      BY <1>2, <1>4, <2>1, <2>2, <2>3, <2>5
  <1> HIDE DEF D
  <1>6. QED
    BY <1>5, AtMostOne DEF D

(***************************************************************************)
(* Theorems.                                                               *)
(***************************************************************************)

(* The invariant: the directory ends, its files lie in order, what the     *)
(* user was told is there, and where the command at work writes nothing    *)
(* else is (lif_newdir, lif_updatefree, lif_del_file).                     *)
THEOREM VolumeKept == ASSUME KeepsRoom PROVE Spec => []VolumeInv
  <1>1. Init => VolumeInv
    BY Initially
  <1>2. VolumeInv /\ [Next]_vars => VolumeInv'
    BY Kept
  <1>3. QED
    BY <1>1, <1>2, PTL DEF Spec

(* Ordered, for every volume: the files of the directory lie in its order, *)
(* one behind the other, inside the file area, as lif_newdir takes for     *)
(* granted when it looks for a hole.                                       *)
THEOREM FilesInOrder == ASSUME KeepsRoom PROVE Spec => []Ordered
  BY VolumeKept, SaysOrdered, PTL

(* FilesIntact, for every volume: what the user was told is in the volume  *)
(* is found there with its data, whatever other commands were cut short.   *)
THEOREM FilesStayIntact == ASSUME KeepsRoom PROVE Spec => []FilesIntact
  BY VolumeKept, SaysFilesIntact, PTL

(* StaysOpenable, for every volume: lif_open_volume finds an end record    *)
(* wherever the commands since the creation were cut off.                  *)
THEOREM VolumeStaysOpenable == ASSUME KeepsRoom PROVE Spec => []StaysOpenable
  BY VolumeKept, SaysStaysOpenable, PTL

(* OneFileAtATime, for every volume: a step adds, removes or renames at    *)
(* most one file of the listing (lif_add_ascii_file_as_e010, lif_del_file, *)
(* lif_rename_file).                                                       *)
THEOREM OneFileChanges == ASSUME KeepsRoom PROVE Spec => OneFileAtATime
  <1>1. VolumeInv /\ [Next]_vars /\ VolumeInv' =>
          [op'.do # "create" =>
             Cardinality({x[1] : x \in (Listing \ Listing') \cup (Listing' \ Listing)}) <= 1]_vars
    BY Kept, SaysOneFile
  <1>2. QED
    BY <1>1, VolumeKept, PTL DEF Spec, OneFileAtATime
=============================================================================
