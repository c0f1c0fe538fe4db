-------------------------------- MODULE Fat ---------------------------------
(***************************************************************************)
(* FatFs (fatfs/ff.c) on one FAT32 volume, as the calls of posix/posix.c   *)
(* use it: an operator per function, from a machine state to the state     *)
(* after the call.  No variables; module Posix has them.                   *)
(*                                                                         *)
(* Clusters have one sector, and a name takes one directory entry in the   *)
(* root directory, whose chain starts at cluster Root.  The second FAT,    *)
(* attributes, times, long names and sub-directories are left out.         *)
(*                                                                         *)
(* A machine state s is a record:                                          *)
(*   disk                    the sectors of the card                       *)
(*   sect, val, dirty        fs->winsect, fs->win, fs->wflag               *)
(*   mounted, free, last, fsi  the rest of FATFS                           *)
(*   fp                      the FIL of the call                           *)
(*   res                     the result so far                             *)
(*   got, at, out            cluster, entry and bytes found                *)
(*   here, rest              where a loop is: its cluster, the bytes to go *)
(*   left                    accesses to the card until one fails          *)
(*   past                    the contents the card had during the call     *)
(***************************************************************************)
EXTENDS Integers, Sequences, FiniteSets, FiniteSetsExt

CONSTANTS
  TopCluster,          \* the last cluster; n_fatent - 1 in the code
  FatPerSector,  \* FAT entries in a sector
  DirPerSector,  \* directory entries in a sector
  SS,            \* bytes in a sector
  Names,         \* file names
  None

ASSUME GeometryAssumption ==
  /\ TopCluster \in Nat /\ TopCluster > 2
  /\ {FatPerSector, DirPerSector, SS} \subseteq Nat \ {0}

Root     == 2
Clusters == Root .. TopCluster
Eoc      == TopCluster + 1
InfoSec  == 1                              \* the FSInfo sector
FatSec(c) == -1 - (c \div FatPerSector)    \* the sector of c's FAT entry
                                           \* cluster c is sector c
Erased   == "erased"
NoEntry  == [name |-> None, clust |-> 0, size |-> 0]
EmptyDir == [i \in 1 .. DirPerSector |-> NoEntry]
Zeros    == [i \in 0 .. SS - 1 |-> 0]

(* None stands for no name, and for no entry.                              *)
ASSUME NoneAssumption ==
  /\ Erased \notin Names /\ None \notin Names \cup {Erased}
  /\ \A c \in Clusters, i \in 1 .. DirPerSector : None # <<c, i>>

OK(s)      == s.res = "OK"
Fail(s, r) == [s EXCEPT !.res = r]

(* What follows a call that may have failed: the early returns.            *)
Then(s, F(_)) == IF OK(s) THEN F(s) ELSE s

(* A loop of at most n turns; a turn with nothing left to do does nothing. *)
Repeat(s, Turn(_), n) ==
  LET after[k \in 0 .. n] == IF k = 0 THEN s ELSE Turn(after[k - 1])
  IN after[n]

(***************************************************************************)
(* The card and the window.                                                *)
(***************************************************************************)
Access(s) ==
  IF s.left = 0 THEN Fail([s EXCEPT !.left = -1], "DISK_ERR") ELSE [s EXCEPT !.left = @ - 1]

DiskWrite(s, n, v) ==
  Then(Access(s), LAMBDA a : [a EXCEPT !.past = @ \cup {s.disk}, !.disk[n] = v])

SyncWindow(s) ==
  IF s.dirty THEN Then(DiskWrite(s, s.sect, s.val), LAMBDA a : [a EXCEPT !.dirty = FALSE]) ELSE s

ReadWindow(s, n) ==
  LET a == Access(s)
  IN IF OK(a) THEN [a EXCEPT !.sect = n, !.val = a.disk[n]] ELSE [a EXCEPT !.sect = 0]

MoveWindow(s, n) ==
  IF n = s.sect THEN s ELSE Then(SyncWindow(s), LAMBDA a : ReadWindow(a, n))

(* Changes the window, as the code does through a pointer into it.         *)
Poke(s, v) == [s EXCEPT !.val = v, !.dirty = TRUE]

(* The numbers of FSInfo when they could not be read: no count of clusters *)
(* and no cluster.  They stay unknown, and FSInfo unwritten, until the     *)
(* next mount (bit 7 of fsi_flag).                                         *)
Unknown == TopCluster + 1

(* The FSInfo sector goes through the window; whether it was written is    *)
(* not looked at.                                                          *)
WriteInfo(s) ==
  LET i == [free |-> s.free, last |-> s.last]
      a == DiskWrite([s EXCEPT !.sect = InfoSec, !.val = i, !.fsi = FALSE], InfoSec, i)
  IN IF s.fsi /\ s.free # Unknown THEN [a EXCEPT !.res = "OK"] ELSE s

SyncFs(s) == Then(SyncWindow(s), LAMBDA a : Access(WriteInfo(a)))

(* The boot sector has to be read; FSInfo need not.                        *)
Mount(s) ==
  LET boot == Access([s EXCEPT !.sect = 0, !.dirty = FALSE])
      info == MoveWindow(boot, InfoSec)
  IN IF s.mounted THEN s
     ELSE IF ~OK(boot) THEN boot
     ELSE [info EXCEPT !.res = "OK", !.mounted = TRUE, !.fsi = FALSE,
                       !.free = IF OK(info) THEN info.val.free ELSE Unknown,
                       !.last = IF OK(info) THEN info.val.last ELSE Unknown]

(***************************************************************************)
(* Cluster chains.  GetFat moves the window, the value is Link.            *)
(***************************************************************************)
GetFat(s, c) == IF c \in Clusters THEN MoveWindow(s, FatSec(c)) ELSE Fail(s, "INT_ERR")
Link(s, c)   == s.val[c]
PutFat(s, c, v) ==
  Then(MoveWindow(s, FatSec(c)), LAMBDA a : Poke(a, [a.val EXCEPT ![c] = v]))

OneMoreFree(s) ==
  IF s.free < Cardinality(Clusters) THEN [s EXCEPT !.free = @ + 1, !.fsi = TRUE] ELSE s

(* The entry of cluster here goes to 0, and here to the next, or to 0.     *)
RemoveTurn(s) ==
  IF s.here = 0 THEN s
  ELSE Then(GetFat(s, s.here), LAMBDA a :
         IF Link(a, s.here) = 0 THEN [a EXCEPT !.here = 0]
         ELSE Then(PutFat(a, s.here, 0), LAMBDA b :
                [OneMoreFree(b) EXCEPT !.here =
                   IF Link(a, s.here) \in Clusters THEN Link(a, s.here) ELSE 0]))

RemoveChain(s, c) ==
  IF c \in Clusters
  THEN Repeat([s EXCEPT !.here = c], LAMBDA a : Then(a, RemoveTurn), TopCluster)
  ELSE Fail(s, "INT_ERR")

(* The loop over the FAT for a free cluster, from behind scl, around.      *)
ScanTurn(s, scl) ==
  LET around == s.here + 1 > TopCluster
      c == IF around THEN 2 ELSE s.here + 1
  IN IF s.here = 0 THEN s
     ELSE IF around /\ c > scl THEN [s EXCEPT !.here = 0]
     ELSE Then(GetFat(s, c), LAMBDA a :
            IF Link(a, c) = 0 THEN [a EXCEPT !.got = c, !.here = 0]
            ELSE [a EXCEPT !.here = IF c = scl THEN 0 ELSE c])
Scan(s, scl) ==
  Repeat([s EXCEPT !.got = 0, !.here = scl],
         LAMBDA a : Then(a, LAMBDA b : ScanTurn(b, scl)), TopCluster)

(* A new cluster, linked behind c unless c is 0.                           *)
Take(s, c) ==
  IF s.got = 0 THEN s
  ELSE Then(PutFat(s, s.got, Eoc), LAMBDA a :
         Then(IF c # 0 THEN PutFat(a, c, s.got) ELSE a, LAMBDA b :
           [b EXCEPT !.last = s.got, !.fsi = TRUE,
                     !.free = IF @ <= Cardinality(Clusters) THEN @ - 1 ELSE @]))

NewChain(s) ==
  LET scl == IF s.last \in 1 .. TopCluster THEN s.last ELSE 1
  IN Then(Scan(s, scl), LAMBDA a : Take(a, 0))

(* The next cluster is tried first, then those behind the last one taken.  *)
Stretch(s, c) ==
  LET next == IF c + 1 > TopCluster THEN 2 ELSE c + 1
      scl  == IF s.last \in Clusters THEN s.last ELSE c
  IN Then(GetFat(s, next), LAMBDA a :
       Then(IF Link(a, next) = 0 THEN [a EXCEPT !.got = next] ELSE Scan(a, scl),
            LAMBDA b : Take(b, c)))

CreateChain(s, c) ==
  IF c = 0 THEN IF s.free = 0 THEN [s EXCEPT !.got = 0] ELSE NewChain(s)
  ELSE Then(GetFat(s, c), LAMBDA a :
         IF Link(a, c) < 2 THEN Fail(a, "INT_ERR")
         ELSE IF Link(a, c) \in Clusters THEN [a EXCEPT !.got = Link(a, c)]
         ELSE IF a.free = 0 THEN [a EXCEPT !.got = 0]
         ELSE Stretch(a, c))

(***************************************************************************)
(* The root directory.  An entry is <<sector, index>> in s.at, or None.    *)
(***************************************************************************)
DirClear(s, c) ==
  Then(SyncWindow(s), LAMBDA a :
    DiskWrite([a EXCEPT !.sect = c, !.val = EmptyDir], c, EmptyDir))

Hits(s, names) == {i \in 1 .. DirPerSector : s.val[i].name \in names}

(* Walks the directory to the first entry whose name is in names; got is   *)
(* its last cluster when there is none.                                    *)
WalkTurn(s, names) ==
  IF s.here = 0 THEN s
  ELSE Then(MoveWindow(s, s.here), LAMBDA a :
    IF Hits(a, names) # {}
    THEN [a EXCEPT !.at = <<s.here, Min(Hits(a, names))>>, !.here = 0]
    ELSE Then(GetFat(a, s.here), LAMBDA b :
      IF Link(b, s.here) < 2 THEN Fail(b, "INT_ERR")
      ELSE IF Link(b, s.here) \in Clusters THEN [b EXCEPT !.here = Link(b, s.here)]
      ELSE [b EXCEPT !.got = s.here, !.here = 0]))
Walk(s, names) ==
  Repeat([s EXCEPT !.at = None, !.here = Root],
         LAMBDA a : Then(a, LAMBDA b : WalkTurn(b, names)), TopCluster)

(* Makes the directory longer: the stretch of dir_next.                    *)
Lengthen(s) ==
  Then(CreateChain(s, s.got), LAMBDA n :
    IF n.got = 0 THEN Fail(n, "DENIED")
    ELSE Then(DirClear(n, n.got), LAMBDA m : [m EXCEPT !.at = <<n.got, 1>>]))

DirEntry(s) == s.val[s.at[2]]   \* when the window holds its sector
PokeEntry(s, e) == Poke(s, [s.val EXCEPT ![s.at[2]] = e])

DirFind(s, name) ==
  Then(Walk(s, {name, None}), LAMBDA a :
    IF a.at # None /\ DirEntry(a).name = None THEN [a EXCEPT !.at = None] ELSE a)

DirRegister(s, name) ==
  Then(Walk(s, {Erased, None}), LAMBDA a :
    Then(IF a.at = None THEN Lengthen(a) ELSE a, LAMBDA b :
      PokeEntry(b, [NoEntry EXCEPT !.name = name])))

DirRemove(s, at) ==
  Then(MoveWindow([s EXCEPT !.at = at], at[1]), LAMBDA a :
    PokeEntry(a, [NoEntry EXCEPT !.name = Erased]))

(***************************************************************************)
(* f_open.  mode: a subset of {"READ", "WRITE", "CREATE_ALWAYS",           *)
(* "OPEN_ALWAYS"}.                                                         *)
(***************************************************************************)
OverwriteChainFirst(s) ==   \* mutant: the clusters are freed before the entry forgets them
  LET e == DirEntry(s)
  IN IF e.clust = 0 THEN PokeEntry(s, [e EXCEPT !.size = 0])
     ELSE Then(RemoveChain(s, e.clust), LAMBDA a :
            Then(MoveWindow(a, s.sect), LAMBDA b :
              [PokeEntry(b, [e EXCEPT !.clust = 0, !.size = 0]) EXCEPT !.last = e.clust - 1]))
Overwrite(s) ==
  LET e == DirEntry(s)
      a == PokeEntry(s, [e EXCEPT !.clust = 0, !.size = 0])
  IN IF e.clust = 0 THEN a
     ELSE Then(RemoveChain(a, e.clust), LAMBDA b :
            [MoveWindow(b, s.sect) EXCEPT !.last = e.clust - 1])

Creates(mode)    == mode \cap {"CREATE_ALWAYS", "OPEN_ALWAYS"} # {}
Overwrites(mode) == "CREATE_ALWAYS" \in mode

(* The file as it is when it has been opened, at entry s.at.               *)
OpenedFile(s, mode, fresh) ==
  [s EXCEPT !.fp =
     [flags  |-> (mode \cap {"READ", "WRITE"}) \cup (IF fresh THEN {"MODIFIED"} ELSE {}),
      err    |-> "OK",
      sclust |-> DirEntry(s).clust, size |-> DirEntry(s).size,
      fptr   |-> 0, clust |-> 0, sect |-> 0, buf |-> Zeros,
      entry  |-> s.at]]

Fopen(s, name, mode) ==
  Then(Mount(s), LAMBDA a :
    Then(DirFind(a, name), LAMBDA b :
      Then(IF b.at = None THEN IF Creates(mode) THEN DirRegister(b, name) ELSE Fail(b, "NO_FILE")
           ELSE IF Overwrites(mode) THEN Overwrite(b) ELSE b,
           LAMBDA d : OpenedFile(d, mode, b.at = None \/ Overwrites(mode)))))

(***************************************************************************)
(* f_read and f_write: a sector at a time.  Whole sectors do not go        *)
(* through the buffer.                                                     *)
(***************************************************************************)
Flag(s, f)    == f \in s.fp.flags
AtBoundary(s) == s.fp.fptr % SS = 0

(* Writes the buffer back if it is dirty.                                  *)
WriteBack(s) ==
  IF Flag(s, "DIRTY")
  THEN Then(DiskWrite(s, s.fp.sect, s.fp.buf), LAMBDA a : [a EXCEPT !.fp.flags = @ \ {"DIRTY"}])
  ELSE s

LoadBuffer(s, n) == Then(Access(s), LAMBDA a : [a EXCEPT !.fp.buf = a.disk[n]])

(* Sector n in the buffer.                                                 *)
Buffered(s, n) ==
  IF s.fp.sect = n THEN s
  ELSE Then(WriteBack(s), LAMBDA a :
         Then(LoadBuffer(a, n), LAMBDA b : [b EXCEPT !.fp.sect = n]))

(* Sector n for a read of the whole of it: the buffer, where it is newer.  *)
SectorOnCard(s, n) == s.disk[n]   \* mutant: the buffer is not looked at
SectorNow(s, n) == IF Flag(s, "DIRTY") /\ s.fp.sect = n THEN s.fp.buf ELSE s.disk[n]

(* What ABORT does.                                                        *)
Abort(s) == IF OK(s) THEN s ELSE [s EXCEPT !.fp.err = s.res]

(* The cluster to read at a boundary.                                      *)
Follow(s) ==
  Then(IF s.fp.fptr = 0 THEN s ELSE GetFat(s, s.fp.clust), LAMBDA a :
    LET c == IF s.fp.fptr = 0 THEN s.fp.sclust ELSE Link(a, s.fp.clust)
    IN IF c \in Clusters THEN [a EXCEPT !.fp.clust = c] ELSE Fail(a, "INT_ERR"))

(* cnt bytes of a sector, from where the file pointer is.                  *)
Taken(s, sector, cnt) ==
  [s EXCEPT !.fp.fptr = @ + cnt,
            !.out = @ \o [i \in 1 .. cnt |-> sector[(s.fp.fptr % SS) + i - 1]]]

ReadTurn(s) ==
  IF s.rest = 0 THEN s
  ELSE Then(IF AtBoundary(s) THEN Follow(s) ELSE s, LAMBDA a :
    IF AtBoundary(a) /\ s.rest >= SS
    THEN Then(Access(a), LAMBDA b :
           [Taken(b, SectorNow(b, b.fp.clust), SS) EXCEPT !.rest = @ - SS])
    ELSE LET cnt == Min({SS - (a.fp.fptr % SS), s.rest})
         IN Then(IF AtBoundary(a) THEN Buffered(a, a.fp.clust) ELSE a, LAMBDA b :
              [Taken(b, b.fp.buf, cnt) EXCEPT !.rest = @ - cnt]))
ReadLoop(s, n) == Repeat([s EXCEPT !.rest = n], LAMBDA a : Then(a, ReadTurn), n)

Fread(s, n) ==
  IF s.fp.err # "OK" THEN Fail(s, s.fp.err)
  ELSE IF ~Flag(s, "READ") THEN Fail(s, "DENIED")
  ELSE Abort(ReadLoop(s, Min({n, s.fp.size - s.fp.fptr})))

(* The cluster to write at a boundary; got is 0 when the card is full.     *)
Grow(s) ==
  Then(IF s.fp.fptr > 0 THEN CreateChain(s, s.fp.clust)
       ELSE IF s.fp.sclust = 0 THEN CreateChain(s, 0)
       ELSE [s EXCEPT !.got = s.fp.sclust],
       LAMBDA a : IF a.got = 0 THEN a
                  ELSE [a EXCEPT !.fp.clust = a.got, !.fp.sclust = IF @ = 0 THEN a.got ELSE @])

(* The buffer with bytes put where the file pointer is, and the pointer    *)
(* behind them.                                                            *)
Patched(s, bytes) ==
  LET ofs == s.fp.fptr % SS
  IN [i \in 0 .. SS - 1 |->
        IF i - ofs + 1 \in DOMAIN bytes THEN bytes[i - ofs + 1] ELSE s.fp.buf[i]]
Behind(s, bytes) ==
  [s EXCEPT !.fp.fptr = @ + Len(bytes), !.fp.size = Max({@, s.fp.fptr + Len(bytes)}),
            !.out = @ \o bytes]

WriteWhole(s, bytes) ==
  Then(DiskWrite(s, s.fp.clust, Patched(s, bytes)), LAMBDA a :
    IF a.fp.sect = a.fp.clust
    THEN Behind([a EXCEPT !.fp.buf = Patched(s, bytes), !.fp.flags = @ \ {"DIRTY"}], bytes)
    ELSE Behind(a, bytes))

WritePart(s, bytes) ==
  Then(IF AtBoundary(s) /\ s.fp.sect # s.fp.clust /\ s.fp.fptr < s.fp.size
       THEN LoadBuffer(s, s.fp.clust) ELSE s,
       LAMBDA a : Behind([a EXCEPT !.fp.sect = IF AtBoundary(s) THEN a.fp.clust ELSE @,
                                   !.fp.buf = Patched(a, bytes),
                                   !.fp.flags = @ \cup {"DIRTY"}], bytes))

(* The bytes of the turn: of those that are left, what the sector takes.   *)
Portion(s, bytes) ==
  LET done == Len(bytes) - s.rest
  IN SubSeq(bytes, done + 1, done + Min({SS - (s.fp.fptr % SS), s.rest}))

WriteTurn(s, bytes) ==
  IF s.rest = 0 THEN s
  ELSE Then(IF AtBoundary(s) THEN Grow(s) ELSE s, LAMBDA g :
    IF AtBoundary(s) /\ g.got = 0 THEN [g EXCEPT !.rest = 0]
    ELSE Then(IF AtBoundary(s) THEN WriteBack(g) ELSE g, LAMBDA a :
      LET now == Portion(s, bytes)
      IN Then(IF Len(now) = SS THEN WriteWhole(a, now) ELSE WritePart(a, now), LAMBDA b :
           [b EXCEPT !.rest = @ - Len(now)])))
WriteLoop(s, bytes) ==
  Repeat([s EXCEPT !.rest = Len(bytes)],
         LAMBDA a : Then(a, LAMBDA b : WriteTurn(b, bytes)), Len(bytes))

Fwrite(s, bytes) ==
  IF s.fp.err # "OK" THEN Fail(s, s.fp.err)
  ELSE IF ~Flag(s, "WRITE") THEN Fail(s, "DENIED")
  ELSE Abort(Then(WriteLoop(s, bytes), LAMBDA a : [a EXCEPT !.fp.flags = @ \cup {"MODIFIED"}]))

(***************************************************************************)
(* f_sync and f_close.                                                     *)
(***************************************************************************)
Fsync(s) ==
  IF ~Flag(s, "MODIFIED") THEN s
  ELSE Then(WriteBack(s), LAMBDA a :
    Then(MoveWindow([a EXCEPT !.at = s.fp.entry], s.fp.entry[1]), LAMBDA b :
      LET e == [DirEntry(b) EXCEPT !.clust = s.fp.sclust, !.size = s.fp.size]
      IN [SyncFs(PokeEntry(b, e)) EXCEPT !.fp.flags = @ \ {"MODIFIED"}]))

(***************************************************************************)
(* f_lseek.  The loop follows the chain, or makes it longer, until rest    *)
(* bytes are left in the cluster it is in.                                 *)
(***************************************************************************)
SeekTurn(s) ==
  LET c == s.fp.clust
      z == [s EXCEPT !.fp.fptr = @ + SS, !.rest = @ - SS]
  IN IF s.rest = 0 THEN s
     ELSE IF s.rest <= SS
     THEN [s EXCEPT !.fp.fptr = @ + s.rest, !.rest = 0, !.got = IF s.rest % SS # 0 THEN c ELSE 0]
     ELSE Then(IF Flag(s, "WRITE") THEN CreateChain(z, c) ELSE GetFat(z, c), LAMBDA a :
       LET next == IF Flag(s, "WRITE") THEN a.got ELSE Link(a, c)
       IN IF Flag(s, "WRITE") /\ next = 0 THEN [a EXCEPT !.rest = 0]
          ELSE IF next \notin Clusters THEN Fail(a, "INT_ERR")
          ELSE [a EXCEPT !.fp.clust = next])
SeekLoop(s, rest) == Repeat([s EXCEPT !.rest = rest], LAMBDA a : Then(a, SeekTurn), rest)

(* From the cluster the file is in if the goal is not before it, else from *)
(* the first.                                                              *)
SeekTo(s, ofs) ==
  LET cur  == s.fp.fptr
      base == SS * ((cur - 1) \div SS)
      near == cur > 0 /\ (ofs - 1) \div SS >= (cur - 1) \div SS
      z    == [s EXCEPT !.fp.fptr = 0, !.got = 0]
  IN IF ofs = 0 THEN z
     ELSE IF near THEN SeekLoop([s EXCEPT !.fp.fptr = base], ofs - base)
     ELSE Then(IF z.fp.sclust = 0 THEN CreateChain(z, 0) ELSE [z EXCEPT !.got = z.fp.sclust],
               LAMBDA a :
                 LET b == [a EXCEPT !.fp.sclust = a.got, !.fp.clust = a.got]
                 IN IF a.got = 0 THEN b ELSE SeekLoop(b, ofs))

Flseek(s, goal) ==
  LET ofs == IF Flag(s, "WRITE") THEN goal ELSE Min({goal, s.fp.size})
      Longer(a) ==
        IF a.fp.fptr > a.fp.size
        THEN [a EXCEPT !.fp.size = a.fp.fptr, !.fp.flags = @ \cup {"MODIFIED"}] ELSE a
  IN IF s.fp.err # "OK" THEN Fail(s, s.fp.err)
     ELSE Abort(Then(SeekTo(s, ofs), LAMBDA a :
            IF AtBoundary(a) THEN Longer(a) ELSE Buffered(Longer(a), a.got)))

(***************************************************************************)
(* f_unlink and f_rename.                                                  *)
(***************************************************************************)
Funlink(s, name) ==
  Then(Mount(s), LAMBDA a :
    Then(DirFind(a, name), LAMBDA b :
      IF b.at = None THEN Fail(b, "NO_FILE")
      ELSE LET c == DirEntry(b).clust
           IN Then(DirRemove(b, b.at), LAMBDA d :
                Then(IF c # 0 THEN RemoveChain(d, c) ELSE d, LAMBDA e : SyncFs(e)))))

Moves(s, from, e, new) ==
  Then(DirRegister(s, new), LAMBDA a :
    Then(DirRemove(PokeEntry(a, [e EXCEPT !.name = new]), from), LAMBDA b : SyncFs(b)))

Frename(s, old, new) ==
  Then(Mount(s), LAMBDA a :
    Then(DirFind(a, old), LAMBDA b :
      IF b.at = None THEN Fail(b, "NO_FILE")
      ELSE Then(DirFind(b, new), LAMBDA d :
        IF d.at \notin {None, b.at} THEN Fail(d, "EXIST")
        ELSE Moves(d, b.at, DirEntry(b), new))))
=============================================================================
