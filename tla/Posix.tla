------------------------------- MODULE Posix --------------------------------
(***************************************************************************)
(* The file calls of posix/posix.c over FatFs (module Fat), and those on   *)
(* characters and lines (module Stdio), with power cuts and failures of    *)
(* the card.  A call is one step, for nothing else runs meanwhile; a power *)
(* cut leaves the card with what had been written by some moment of the    *)
(* call.                                                                   *)
(*                                                                         *)
(* The user keeps to one rule FatFs leaves to him (FF_FS_LOCK is 0): a     *)
(* file that is open is not opened again, removed or renamed.              *)
(*                                                                         *)
(* Bound: nothing is called any more once a failure or a cut has left the  *)
(* directory Torn, in one of the two ways FatFs cannot exclude.            *)
(***************************************************************************)
EXTENDS Stdio

CONSTANTS
  Absent,     \* the text of a file that is not there,
  Unsure,     \* and of one a call failed on, or was cut short on
  Fds,        \* descriptors; 3 .. MAX_FILES-1 in the code
  Texts,      \* the byte sequences written
  Before,     \* what a file on the card may hold at the start
  LineSize,   \* the size fgets is called with
  SoughtToo,  \* do characters count that are read after a seek or a sync?
  Offsets,    \* the positions sought
  MaxSize,    \* bound: the longest file
  MaxCalls,   \* bound: the calls
  Failing,    \* bound: the numbers of accesses after which the card fails in a call
  Cuts        \* the power may go

ASSUME CallsAssumption ==
  /\ Absent # Unsure
  /\ Fds \cup Offsets \cup {LineSize, MaxSize} \subseteq Nat
  /\ Texts \cup Before \subseteq Seq(0 .. 255)

Never  == 99      \* more accesses than a call makes
Unset  == -1      \* a byte nobody wrote

VARIABLES
  disk,   \* the card
  fs,     \* FATFS
  iob,    \* [Fds -> Closed or a record]: the open files, their streams' flags,
          \* and as bookkeeping the characters seen since some position, or None
  calls,  \* the number of calls
  text,   \* bookkeeping: [Names -> what the calls have put there]
  past,   \* bookkeeping: the contents the card had during the last call
  busy    \* bookkeeping: the names of the last call

vars == <<disk, fs, iob, calls, text, past, busy>>

(* The machine state a call starts with, for Fat: the card and FATFS, the  *)
(* file of the call, and when the card fails.                              *)
MachineOf(d, f, fil, left) ==
  [disk |-> d, sect |-> f.sect, val |-> f.val, dirty |-> f.dirty,
   mounted |-> f.mounted, free |-> f.free, last |-> f.last, fsi |-> f.fsi,
   fp |-> fil, res |-> "OK", got |-> 0, at |-> None, out |-> <<>>, here |-> 0, rest |-> 0,
   left |-> left, past |-> {},
   unget |-> FALSE, eof |-> FALSE, c |-> 0, chars |-> <<>>, line |-> <<>>]
Machine(fil, left) == MachineOf(disk, fs, fil, left)

Failures == {Never} \cup Failing

(* What a call leaves behind in the card and in FATFS.                     *)
Leaves(s, names) ==
  /\ busy' = names
  /\ calls < MaxCalls /\ calls' = calls + 1
  /\ disk' = s.disk
  /\ fs' = [sect |-> s.sect, val |-> s.val, dirty |-> s.dirty,
            mounted |-> s.mounted, free |-> s.free, last |-> s.last, fsi |-> s.fsi]
  /\ past' = s.past

Closed     == [name |-> None]
Open(fd)   == iob[fd].name # None
IsOpen(n)  == \E fd \in Fds : Open(fd) /\ iob[fd].name = n
Fil(fd)    == iob[fd].fil
SetText(n, t) == text' = [text EXCEPT ![n] = t]

(* A call on a file that is open, by the operator that made s of it, which *)
(* leaves the stream with these flags, and its reader having seen this.    *)
DoneWith(fd, s, unget, eof, seen) ==
  /\ Leaves(s, {iob[fd].name})
  /\ iob' = [iob EXCEPT ![fd] = [@ EXCEPT !.fil = s.fp, !.unget = unget, !.eof = eof,
                                         !.seen = seen]]
Done(fd, s) == DoneWith(fd, s, iob[fd].unget, iob[fd].eof, None)
TextAfter(fd, s, t) ==
  LET n == iob[fd].name
  IN SetText(n, IF text[n] = Unsure \/ ~OK(s) THEN Unsure ELSE t)

(***************************************************************************)
(* open: a free descriptor, f_open, and for O_APPEND a seek to the end.    *)
(* The modes are those fopen passes on for r, r+, w, w+ and a.             *)
(***************************************************************************)
SeenFrom(p) == [from |-> p, chars |-> <<>>]

Modes ==
  {[flags |-> {"READ"}, append |-> FALSE],
   [flags |-> {"READ", "WRITE"}, append |-> FALSE],
   [flags |-> {"WRITE", "CREATE_ALWAYS"}, append |-> FALSE],
   [flags |-> {"READ", "WRITE", "CREATE_ALWAYS"}, append |-> FALSE],
   [flags |-> {"WRITE", "OPEN_ALWAYS"}, append |-> TRUE]}

Opened(s, n, mode) ==
  LET a == Fopen(s, n, mode.flags)
  IN IF OK(a) /\ mode.append THEN Flseek(a, a.fp.size) ELSE a

OpenFile(n, mode, left) ==
  /\ ~IsOpen(n)
  /\ \E fd \in Fds : ~Open(fd)
  /\ LET fd == CHOOSE f \in Fds : ~Open(f) /\ \A g \in Fds : ~Open(g) => f <= g
         s  == Opened(Machine(None, left), n, mode)
     IN /\ Leaves(s, {n})
        /\ iob' = [iob EXCEPT ![fd] =
                      IF OK(s) THEN [name |-> n, fil |-> s.fp, unget |-> FALSE, eof |-> FALSE,
                                     seen |-> SeenFrom(s.fp.fptr)]
                      ELSE Closed]
        /\ SetText(n, CASE OK(s) /\ (text[n] = Absent \/ "CREATE_ALWAYS" \in mode.flags) -> <<>>
                        [] ~OK(s) /\ s.res # "NO_FILE" /\ mode.flags # {"READ"} -> Unsure
                        [] OTHER -> text[n])

CloseUnsynced(fd, left) ==  \* mutant: f_close is not called
  /\ Open(fd)
  /\ Leaves(Machine(Fil(fd), left), {iob[fd].name})
  /\ iob' = [iob EXCEPT ![fd] = Closed]
  /\ UNCHANGED text

Close(fd, left) ==
  /\ Open(fd)
  /\ LET s == Fsync(Machine(Fil(fd), left))
     IN /\ Leaves(s, {iob[fd].name})
        /\ iob' = [iob EXCEPT ![fd] = Closed]
        /\ TextAfter(fd, s, text[iob[fd].name])

(* syncfs and lseek set the flag they mean to clear.                       *)
Syncfs(fd, left) ==
  /\ Open(fd)
  /\ LET s == Fsync(Machine(Fil(fd), left))
     IN /\ DoneWith(fd, s, TRUE, iob[fd].eof, IF SoughtToo THEN iob[fd].seen ELSE None)
        /\ TextAfter(fd, s, text[iob[fd].name])

Read(fd, n, left) ==
  /\ Open(fd)
  /\ LET s == Fread(Machine(Fil(fd), left), n)
     IN Done(fd, s) /\ TextAfter(fd, s, text[iob[fd].name])

(* t with bytes put at position p, which may lie beyond its end.           *)
PutAt(t, p, bytes) ==
  [i \in 1 .. Max({Len(t), p + Len(bytes)}) |->
     IF i - p \in DOMAIN bytes THEN bytes[i - p]
     ELSE IF i <= Len(t) THEN t[i] ELSE Unset]

Write(fd, bytes, left) ==
  /\ Open(fd) /\ Fil(fd).fptr + Len(bytes) <= MaxSize
  /\ LET s == Fwrite(Machine(Fil(fd), left), bytes)
     IN /\ Done(fd, s)
        /\ TextAfter(fd, s, PutAt(text[iob[fd].name], Fil(fd).fptr, s.out))

Lseek(fd, p, left) ==
  /\ Open(fd)
  /\ LET s == Flseek(Machine(Fil(fd), left), p)
     IN /\ DoneWith(fd, s, TRUE, iob[fd].eof, IF SoughtToo THEN SeenFrom(s.fp.fptr) ELSE None)
        /\ TextAfter(fd, s, PutAt(text[iob[fd].name], s.fp.fptr, <<>>))

(***************************************************************************)
(* The character calls.                                                    *)
(***************************************************************************)
Stream(fd, left) ==
  [Machine(Fil(fd), left) EXCEPT !.unget = iob[fd].unget, !.eof = iob[fd].eof]

DoneReading(fd, s) ==
  LET seen == iob[fd].seen
  IN /\ DoneWith(fd, s, s.unget, s.eof,
                 IF seen = None THEN None ELSE [seen EXCEPT !.chars = @ \o s.chars])
     /\ TextAfter(fd, s, text[iob[fd].name])

Fgetc(fd, left) == Open(fd) /\ DoneReading(fd, fgetc(Stream(fd, left)))
Fgets(fd, left) == Open(fd) /\ DoneReading(fd, fgets(Stream(fd, left), LineSize))

DoneWriting(fd, s) ==
  /\ DoneWith(fd, s, s.unget, s.eof, None)
  /\ TextAfter(fd, s, PutAt(text[iob[fd].name], Fil(fd).fptr, s.chars))

Fputs(fd, str, left) ==
  /\ Open(fd) /\ Fil(fd).fptr + Len(str) <= MaxSize
  /\ DoneWriting(fd, fputs(Stream(fd, left), str))

Unlink(n, left) ==
  /\ ~IsOpen(n)
  /\ LET s == Funlink(Machine(None, left), n)
     IN /\ Leaves(s, {n}) /\ UNCHANGED iob
        /\ SetText(n, IF OK(s) THEN Absent
                      ELSE IF s.res = "NO_FILE" THEN text[n] ELSE Unsure)

Rename(m, n, left) ==
  /\ ~IsOpen(m) /\ ~IsOpen(n) /\ m # n
  /\ LET s == Frename(Machine(None, left), m, n)
     IN /\ Leaves(s, {m, n}) /\ UNCHANGED iob
        /\ text' = CASE OK(s) -> [text EXCEPT ![n] = text[m], ![m] = Absent]
                     [] s.res \in {"NO_FILE", "EXIST"} -> text
                     [] OTHER -> [text EXCEPT ![n] = Unsure, ![m] = Unsure]

(***************************************************************************)
(* What the card holds: the chain from a cluster, and the directory.  Now  *)
(* is the card with the window put back.                                   *)
(***************************************************************************)
Links(d) == [c \in Clusters |-> d[FatSec(c)][c]]

(* The clusters led to from each: the least set that has it and, of every  *)
(* cluster, the next.                                                      *)
Chains(d) ==
  LET next   == Links(d)
      closed == {S \in SUBSET Clusters : \A c \in S : next[c] \in Clusters => next[c] \in S}
  IN [c \in Clusters |-> {x \in Clusters : \A S \in closed : c \in S => x \in S}]
ChainOf(d, c) == IF c \in Clusters THEN Chains(d)[c] ELSE {}

Cleared(d)   == {c \in ChainOf(d, Root) : DOMAIN d[c] = 1 .. DirPerSector}
EntriesOf(d) == {d[c][i] : c \in Cleared(d), i \in 1 .. DirPerSector}
FilesOf(d)   == {e \in EntriesOf(d) : e.name \in Names}

Now == IF fs.dirty THEN [disk EXCEPT ![fs.sect] = fs.val] ELSE disk

(* A directory made longer by a cluster that is not yet cleared (dir_next),*)
(* and a file with its new name as well as its old (f_rename).             *)
Unclear(d) == Cleared(d) # ChainOf(d, Root)
Doubled(d) == \E e, f \in FilesOf(d) : e # f /\ ChainOf(d, e.clust) \cap ChainOf(d, f.clust) # {}
Torn == Unclear(Now) \/ Doubled(Now)

Call ==
  ~Torn /\ \E left \in Failures :
    \/ \E n \in Names, mode \in Modes : OpenFile(n, mode, left)
    \/ \E n \in Names : Unlink(n, left)
    \/ \E m, n \in Names : Rename(m, n, left)
    \/ \E fd \in Fds :
         \/ Close(fd, left) \/ Syncfs(fd, left) \/ Fgetc(fd, left) \/ Fgets(fd, left)
         \/ \E n \in 1 .. MaxSize : Read(fd, n, left)
         \/ \E t \in Texts : Write(fd, t, left) \/ Fputs(fd, t, left)
         \/ \E p \in Offsets : Lseek(fd, p, left)

(***************************************************************************)
(* The power goes, in the last call or after it, and comes back.  What was *)
(* being changed, or had not been synced, may be lost.                     *)
(***************************************************************************)
Unmounted == [sect |-> 0, val |-> None, dirty |-> FALSE, mounted |-> FALSE,
              free |-> 0, last |-> 0, fsi |-> FALSE]
Pending == {iob[fd].name : fd \in {f \in Fds : Open(f) /\ "MODIFIED" \in Fil(f).flags}}

Cut ==
  /\ Cuts /\ fs.mounted
  /\ \E w \in ({disk} \X {{}}) \cup (past \X {busy}) :
       /\ disk' = w[1]
       /\ busy' = w[2]
       /\ text' = [n \in Names |-> IF n \in Pending \cup w[2] THEN Unsure ELSE text[n]]
  /\ fs' = Unmounted
  /\ iob' = [fd \in Fds |-> Closed]
  /\ past' = {}
  /\ UNCHANGED calls

(* A card as mkfs leaves it.                                               *)
Formatted ==
  [n \in {InfoSec} \cup {FatSec(c) : c \in 0 .. TopCluster} \cup Clusters |->
     IF n = InfoSec THEN [free |-> Cardinality(Clusters) - 1, last |-> Root]
     ELSE IF n = Root THEN EmptyDir
     ELSE IF n \in Clusters THEN Zeros
     ELSE [c \in {x \in 0 .. TopCluster : FatSec(x) = n} |-> IF c <= Root THEN Eoc ELSE 0]]

(* The same with a file; making it counts as two calls.                    *)
WithFile(n, t) ==
  LET s == Fopen(MachineOf(Formatted, Unmounted, None, Never), n, {"WRITE", "CREATE_ALWAYS"})
  IN Then(Then(s, LAMBDA a : Fwrite(a, t)), Fsync).disk

Init ==
  /\ \/ disk = Formatted /\ calls = 0 /\ text = [n \in Names |-> Absent]
     \/ \E n \in Names, t \in Before :
          /\ disk = WithFile(n, t) /\ calls = 2
          /\ text = [m \in Names |-> IF m = n THEN t ELSE Absent]
  /\ fs = Unmounted
  /\ iob = [fd \in Fds |-> Closed]
  /\ past = {} /\ busy = {}

Next == Call \/ Cut
Spec == Init /\ [][Next]_vars

(***************************************************************************)
(* The properties.                                                         *)
(***************************************************************************)
(* The chains on the card, at every moment of every call: no file leads    *)
(* through a free cluster, or through one of another file or of the        *)
(* directory, and each is long enough.  Only a rename has a moment with    *)
(* two names for a chain, and they are its own, or both stay when it fails *)
(* or is cut short there.                                                  *)
SoundDisk(d, unsure) ==
  LET chains   == Chains(d)
      chain(c) == IF c \in Clusters THEN chains[c] ELSE {}
      files    == FilesOf(d)
  IN /\ \A e \in files :
          /\ e.size <= SS * Cardinality(chain(e.clust))
          /\ \A c \in chain(e.clust) : d[FatSec(c)][c] # 0
          /\ chain(e.clust) \cap chain(Root) = {}
     /\ \A e, f \in files : e # f =>
          /\ e.name # f.name
          /\ chain(e.clust) \cap chain(f.clust) # {} =>
               e.clust = f.clust /\ {e.name, f.name} \subseteq unsure
Shaky == Pending \cup {n \in Names : text[n] = Unsure}
Sound == /\ SoundDisk(disk, Shaky)
         /\ \A d \in past : SoundDisk(d, Shaky \cup busy)

Same(bytes, t) ==
  /\ Len(bytes) = Len(t)
  /\ \A i \in DOMAIN t : t[i] \in {Unset, bytes[i]}

(* Read back from its first byte through its descriptor, an open file      *)
(* holds what the calls have put there.                                    *)
Coherent ==
  \A fd \in Fds : Open(fd) /\ text[iob[fd].name] # Unsure =>
    LET s == Flseek(Machine([Fil(fd) EXCEPT !.flags = @ \cup {"READ"}], Never), 0)
    IN Same(Fread(s, s.fp.size).out, text[iob[fd].name])

(* Who reads a file character by character, or line by line, sees its text *)
(* from where it was opened to where it is, each end of line as one LF and *)
(* nothing left out or twice, wherever in a sector a CR falls and whatever *)
(* is behind it.  Not so after a seek or a sync, which make the next       *)
(* character a zero (SoughtToo).                                           *)
SeesText ==
  \A fd \in Fds : Open(fd) /\ iob[fd].seen # None /\ text[iob[fd].name] # Unsure =>
    LET seen  == iob[fd].seen
        known == SubSeq(text[iob[fd].name], seen.from + 1, Fil(fd).fptr)
    IN (\A i \in DOMAIN known : known[i] # Unset) => seen.chars = Characters(known)

(* After a power cut, a file that was closed or synced reads as before,    *)
(* unless the directory is torn.                                           *)
Durable ==
  ~(Unclear(disk) \/ Doubled(disk)) => \A n \in Names \ Pending : text[n] # Unsure =>
    LET m == [Machine(None, Never) EXCEPT !.mounted = FALSE, !.dirty = FALSE]
        s == Fopen(m, n, {"READ"})
    IN IF text[n] = Absent THEN s.res = "NO_FILE"
       ELSE OK(s) /\ Same(Fread(s, s.fp.size).out, text[n])

=============================================================================
