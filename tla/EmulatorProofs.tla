---------------------------- MODULE EmulatorProofs ----------------------------
(***************************************************************************)
(* Theorems about the start and the composition, for any texts, any        *)
(* hpdir.ini, any number of devices and any images: every line of the      *)
(* configuration goes to its device, a table that is read without an error *)
(* is the one that is written, and the bus is served as GpibTask says, by  *)
(* the table that is left; and before them those about the bus alone.      *)
(***************************************************************************)
EXTENDS Emulator, FiniteSetTheorems, SequenceTheorems, TLAPS

(***************************************************************************)
(* The bus alone: GpibTask, for any devices, poll bits and buffer size.    *)
(***************************************************************************)
LEMMA Consts ==
  /\ BufSize \in Nat \ {0} /\ MaxPrinted \in Nat
  /\ FirstSs80 \in SS80s /\ FirstAmigo \in AMIGOs
  /\ Ppr \in [Disks -> Bits]
  /\ \A c, d \in Disks : Ppr[c] = Ppr[d] => c = d
  /\ FileFaults \in BOOLEAN
  BY GpibTaskAssumption DEF GpibTaskAssumption

(***************************************************************************)
(* The capture: what each of its operations does to the plot structure.    *)
(***************************************************************************)
Chars == 0 .. MaxPrinted

LEMMA PlotFields ==
  ASSUME NEW p \in Plots
  PROVE  /\ p.file \in BOOLEAN /\ p.handles \in Nat /\ p.buf \in Seq(Chars)
         /\ p.alloc \in BOOLEAN /\ p.size \in {0, BufSize}
         /\ p.paper \in Seq(Chars) /\ p.failed \in BOOLEAN
  BY DEF Plots, Chars

LEMMA FlushedEffect ==
  ASSUME NEW p \in Plots, NEW bytes \in Seq(Chars), NEW q \in Flushed(p, bytes)
  PROVE  /\ q \in Plots
         /\ q.file = p.file /\ q.handles = p.handles /\ q.buf = p.buf
         /\ q.alloc = p.alloc /\ q.size = p.size
         /\ q.failed \/ ~p.failed
         /\ q.failed \/ q.paper = IF p.file THEN p.paper \o bytes ELSE p.paper
<1>1. p.paper \in Seq(Chars) /\ p.paper \o << >> = p.paper
      /\ p.paper \o bytes \in Seq(Chars)
  BY PlotFields, ConcatProperties, ConcatEmptySeq
<1>2. CASE ~p.file \/ bytes = << >>
  <2>1. q = p
    BY <1>2 DEF Flushed
  <2> QED
    BY <2>1, <1>1, <1>2, PlotFields
<1>3. CASE p.file /\ bytes # << >> /\ q = [p EXCEPT !.paper = @ \o bytes]
  BY <1>1, <1>3, PlotFields DEF Plots, Chars
<1>4. CASE \E n \in 0 .. Len(bytes) - 1 :
             q = [p EXCEPT !.paper = @ \o SubSeq(bytes, 1, n), !.failed = TRUE]
  <2>1. PICK n \in 0 .. Len(bytes) - 1 :
          q = [p EXCEPT !.paper = @ \o SubSeq(bytes, 1, n), !.failed = TRUE]
    BY <1>4
  <2>2. Len(bytes) \in Nat /\ \A i \in 1 .. n : bytes[i] \in Chars
    BY LenProperties, ElementOfSeq
  <2>3. SubSeq(bytes, 1, n) \in Seq(Chars)
    BY <2>2, SubSeqProperties
  <2>4. p.paper \o SubSeq(bytes, 1, n) \in Seq(Chars)
    BY <2>3, <1>1, ConcatProperties
  <2> QED
    BY <2>1, <2>4, PlotFields DEF Plots, Chars
<1> QED
  BY <1>2, <1>3, <1>4 DEF Flushed

LEMMA ClosedEffect ==
  ASSUME NEW p \in Plots, p.file => p.handles > 0, NEW q \in Closed(p)
  PROVE  /\ q \in Plots
         /\ q.file = FALSE /\ q.buf = << >> /\ q.size = p.size
         /\ q.handles = IF p.file THEN p.handles - 1 ELSE p.handles
         /\ q.failed \/ ~p.failed
         /\ q.failed \/ q.paper = IF p.file THEN p.paper \o p.buf ELSE p.paper
<1>1. PICK r \in Flushed(p, p.buf) :
        q = [r EXCEPT !.file = FALSE, !.buf = << >>, !.alloc = FALSE,
                      !.handles = IF p.file THEN @ - 1 ELSE @]
  BY DEF Closed
<1>2. /\ r \in Plots /\ r.handles = p.handles /\ r.size = p.size
      /\ r.failed \/ ~p.failed
      /\ r.failed \/ r.paper = IF p.file THEN p.paper \o p.buf ELSE p.paper
  BY FlushedEffect, PlotFields
<1>3. << >> \in Seq(0 .. MaxPrinted)
  BY EmptySeq
<1>4. (IF p.file THEN r.handles - 1 ELSE r.handles) \in Nat
  BY <1>2, PlotFields
<1> QED
  BY <1>1, <1>2, <1>3, <1>4, PlotFields DEF Plots

LEMMA ZerosTyped ==
  ASSUME NEW n \in Nat
  PROVE  Zeros(n) \in Seq(Chars)
  BY Consts DEF Zeros, Chars

LEMMA OpenedEffect ==
  ASSUME NEW p \in Plots, NEW q \in Opened(p)
  PROVE  /\ q \in Plots
         /\ q.file => q.handles = p.handles + 1
         /\ ~q.file => q.handles = p.handles
         /\ q.failed \/ ~p.failed
         /\ q.failed \/ ( /\ q.file /\ q.alloc /\ q.paper = p.paper
                          /\ q.buf = Zeros(Len(p.buf)) )
<1> DEFINE fopen == [p EXCEPT !.file = TRUE, !.handles = @ + 1,
                              !.buf = Zeros(Len(p.buf))]
<1>1. Zeros(Len(p.buf)) \in Seq(Chars)
  BY ZerosTyped, LenProperties, PlotFields
<1>2. fopen \in Plots /\ fopen.file /\ fopen.handles = p.handles + 1
      /\ fopen.failed = p.failed /\ fopen.paper = p.paper
      /\ fopen.buf = Zeros(Len(p.buf))
  <2>1. p.handles + 1 \in Nat
    BY PlotFields
  <2> DEFINE zeros == Zeros(Len(p.buf))
  <2>2. zeros \in Seq(0 .. MaxPrinted)
    BY <1>1 DEF Chars
  <2> HIDE DEF zeros
  <2>3. /\ [p EXCEPT !.file = TRUE, !.handles = p.handles + 1, !.buf = zeros] \in Plots
        /\ [p EXCEPT !.file = TRUE, !.handles = p.handles + 1, !.buf = zeros].buf = zeros
    BY <2>1, <2>2, PlotFields DEF Plots
  <2> QED
    BY <2>1, <2>3, PlotFields DEF Plots, zeros
<1> HIDE DEF fopen
<1>3. CASE q = [fopen EXCEPT !.alloc = TRUE, !.size = BufSize]
  BY <1>2, <1>3, PlotFields DEF Plots
<1>4. CASE q = [p EXCEPT !.file = FALSE, !.failed = TRUE]
  BY <1>4, PlotFields DEF Plots
<1>5. CASE \E r \in Closed(fopen) :
             q = [r EXCEPT !.size = BufSize, !.failed = TRUE]
  <2>1. PICK r \in Closed(fopen) :
          q = [r EXCEPT !.size = BufSize, !.failed = TRUE]
    BY <1>5
  <2>2. fopen.handles > 0
    BY <1>2, PlotFields
  <2>3. r \in Plots /\ r.file = FALSE /\ r.handles = IF fopen.file THEN fopen.handles - 1 ELSE fopen.handles
    BY <1>2, <2>1, <2>2, ClosedEffect
  <2>4. r.handles = p.handles
    BY <1>2, <2>3, PlotFields
  <2>5. q \in Plots /\ q.file = FALSE /\ q.handles = r.handles /\ q.failed
    BY <2>1, <2>3, PlotFields, Consts DEF Plots
  <2> QED
    BY <2>4, <2>5
<1> QED
  BY <1>3, <1>4, <1>5 DEF Opened, fopen

LEMMA AppendConcat ==
  ASSUME NEW s \in Seq(Chars), NEW t \in Seq(Chars), NEW e \in Chars
  PROVE  s \o Append(t, e) = Append(s \o t, e)
<1>1. Append(t, e) \in Seq(Chars) /\ Len(Append(t, e)) = Len(t) + 1
  BY AppendProperties
<1>2. s \o t \in Seq(Chars) /\ Len(s \o t) = Len(s) + Len(t)
  BY ConcatProperties
<1>3. /\ s \o Append(t, e) \in Seq(Chars)
      /\ Len(s \o Append(t, e)) = Len(s) + Len(t) + 1
  BY <1>1, ConcatProperties, LenProperties
<1>4. /\ Append(s \o t, e) \in Seq(Chars)
      /\ Len(Append(s \o t, e)) = Len(s) + Len(t) + 1
  BY <1>2, AppendProperties
<1>5. ASSUME NEW i \in 1 .. Len(s) + Len(t) + 1
      PROVE  (s \o Append(t, e))[i] = Append(s \o t, e)[i]
  <2>1. Len(s) \in Nat /\ Len(t) \in Nat
    BY LenProperties
  <2>2. (s \o Append(t, e))[i] =
          IF i <= Len(s) THEN s[i] ELSE Append(t, e)[i - Len(s)]
    BY <1>1, <2>1, ConcatProperties
  <2>3. CASE i <= Len(s) + Len(t)
    <3>1. Append(s \o t, e)[i] = (s \o t)[i]
      BY <1>2, <2>1, <2>3, AppendProperties
    <3>2. (s \o t)[i] = IF i <= Len(s) THEN s[i] ELSE t[i - Len(s)]
      BY <2>1, <2>3, ConcatProperties
    <3>3. ~(i <= Len(s)) => Append(t, e)[i - Len(s)] = t[i - Len(s)]
      BY <2>1, <2>3, AppendProperties
    <3> QED
      BY <2>2, <3>1, <3>2, <3>3
  <2>4. CASE i = Len(s) + Len(t) + 1
    <3>1. Append(s \o t, e)[i] = e
      BY <1>2, <2>4, AppendProperties
    <3>2. Append(t, e)[Len(t) + 1] = e
      BY AppendProperties
    <3>3. i - Len(s) = Len(t) + 1 /\ ~(i <= Len(s))
      BY <2>1, <2>4
    <3> QED
      BY <2>2, <3>1, <3>2, <3>3
  <2> QED
    BY <2>1, <2>3, <2>4
<1> DEFINE l == s \o Append(t, e)
<1> DEFINE r == Append(s \o t, e)
<1>6. /\ l \in Seq(Chars) /\ r \in Seq(Chars)
      /\ Len(l) = Len(s) + Len(t) + 1 /\ Len(l) = Len(r)
      /\ \A i \in 1 .. Len(l) : l[i] = r[i]
  BY <1>3, <1>4, <1>5
<1> HIDE DEF l, r
<1>7. l = r
  BY <1>6, SeqEqual
<1> QED
  BY <1>7 DEF l, r

LEMMA StoredEffect ==
  ASSUME NEW p \in Plots, NEW val \in Chars, NEW q \in Stored(p, val)
  PROVE  /\ q \in Plots
         /\ q.file = p.file /\ q.handles = p.handles /\ q.alloc = p.alloc
         /\ q.failed \/ ~p.failed
         /\ p.file /\ p.alloc /\ ~q.failed =>
              q.paper \o q.buf = Append(p.paper \o p.buf, val)
<1> DEFINE full == Append(p.buf, IF p.alloc THEN val ELSE 0)
<1>1. p.buf \in Seq(Chars) /\ p.paper \in Seq(Chars) /\ 0 \in Chars
  BY PlotFields, Consts DEF Chars
<1>2. full \in Seq(Chars)
  BY <1>1, AppendProperties
<1> HIDE DEF full
<1>0. p.alloc => full = Append(p.buf, val)
  BY DEF full
<1>3. p.alloc => p.paper \o full = Append(p.paper \o p.buf, val)
  <2>1. p.paper \o Append(p.buf, val) = Append(p.paper \o p.buf, val)
    BY <1>1, AppendConcat
  <2> QED
    BY <1>0, <2>1
<1>4. CASE q = [p EXCEPT !.buf = full]
  <2>1. q \in Plots /\ q.buf = full /\ q.paper = p.paper
    BY <1>2, <1>4, PlotFields DEF Plots, Chars
  <2>2. /\ q.file = p.file /\ q.handles = p.handles /\ q.alloc = p.alloc
        /\ q.failed = p.failed
    BY <1>4, PlotFields DEF Plots
  <2> QED
    BY <1>3, <2>1, <2>2
<1>5. CASE \E r \in Flushed(p, full) : q = [r EXCEPT !.buf = << >>]
  <2>1. PICK r \in Flushed(p, full) : q = [r EXCEPT !.buf = << >>]
    BY <1>5
  <2>2. /\ r \in Plots
        /\ r.file = p.file /\ r.handles = p.handles /\ r.alloc = p.alloc
        /\ r.failed \/ ~p.failed
        /\ r.failed \/ r.paper = IF p.file THEN p.paper \o full ELSE p.paper
    BY <1>2, FlushedEffect
  <2>3. << >> \in Seq(Chars) /\ r.paper \o << >> = r.paper
    BY <2>2, EmptySeq, ConcatEmptySeq, PlotFields
  <2>4. q \in Plots
    BY <2>1, <2>2, <2>3, PlotFields DEF Plots, Chars
  <2> QED
    BY <2>1, <2>2, <2>3, <2>4, <1>3, PlotFields DEF Plots
<1> QED
  BY <1>4, <1>5 DEF Stored, full

(* A capture that is open has a handle.                                    *)
CaptureOK(p) == p \in Plots /\ (p.file => p.handles > 0)

LEMMA CaptureOps ==
  ASSUME NEW p, CaptureOK(p), NEW val \in Chars
  PROVE  /\ \A q \in Closed(p) : CaptureOK(q)
         /\ \A q \in Opened(p) : CaptureOK(q)
         /\ \A q \in Stored(p, val) : CaptureOK(q)
<1>1. p \in Plots /\ (p.file => p.handles > 0) /\ p.handles \in Nat
  BY PlotFields DEF CaptureOK
<1>2. ASSUME NEW q \in Closed(p) PROVE CaptureOK(q)
  BY <1>1, ClosedEffect DEF CaptureOK
<1>3. ASSUME NEW q \in Opened(p) PROVE CaptureOK(q)
  BY <1>1, OpenedEffect DEF CaptureOK
<1>4. ASSUME NEW q \in Stored(p, val) PROVE CaptureOK(q)
  BY <1>1, StoredEffect DEF CaptureOK
<1> QED
  BY <1>2, <1>3, <1>4

(***************************************************************************)
(* What a step does to the poll register.                                  *)
(***************************************************************************)
LEMMA BothMeansOne ==
  /\ Both(AMIGOs) => talking \in AMIGOs \/ listening \in AMIGOs
  /\ Both(SS80s) => talking \in SS80s \/ listening \in SS80s
  BY DEF Both

LEMMA CommandsPoll ==
  ASSUME NEW s, NEW n, GpibCommands(s, n)
  PROVE  Unpolled \/ \E d \in Disks : Works(d)
<1>1. CASE Both(AMIGOs) /\ AmigoCommands(s, n)
  BY <1>1, BothMeansOne DEF AmigoCommands, Disks
<1>2. CASE Both(SS80s) /\ Ss80Commands(s, n)
  BY <1>2, BothMeansOne DEF Ss80Commands, Disks
<1> QED
  BY <1>1, <1>2 DEF GpibCommands

DisksOK == ss80 \in SS80s /\ amigo \in AMIGOs

LEMMA PollStep ==
  ASSUME DisksOK, [Next]_vars
  PROVE  \/ Unpolled
         \/ ppr' = {} /\ asked' = {}
         \/ \E d \in Disks : TurnsOn(d) \/ TurnsOff(d) \/ Works(d)
         \/ \E c, d \in Disks : /\ ppr' = BitSet(BitSet(ppr, c), d)
                               /\ asked' = asked \cup {c, d}
<1>1. CASE Reset
  BY <1>1 DEF Reset
<1>2. CASE Unlisten \/ Untalk \/ SerialPollDisable \/ PrinterData \/ Skip
  BY <1>2 DEF Unlisten, Untalk, SerialPollDisable, PrinterData, Skip, disk, Unpolled
<1>3. CASE SerialPollEnable \/ \E a \in Addresses : Listen(a) \/ Talk(a)
  BY <1>3 DEF SerialPollEnable, Listen, Talk
<1>4. CASE SelectedDeviceClear \/ \E a \in Addresses : SecondaryAddress(a)
  BY <1>4 DEF SelectedDeviceClear, SecondaryAddress
<1>5. CASE DeviceClear
  <2>1. ss80 \in Disks /\ amigo \in Disks
    BY DEF DisksOK, Disks
  <2> QED
    BY <1>5, <2>1 DEF DeviceClear
<1>6. CASE Data \/ \E s \in Secondaries : Secondary(s)
  BY <1>6, CommandsPoll DEF Data, Secondary
<1>7. CASE UNCHANGED vars
  BY <1>7 DEF vars, disk, Unpolled
<1> QED
  BY <1>1, <1>2, <1>3, <1>4, <1>5, <1>6, <1>7 DEF Next

LEMMA PollTyped ==
  ASSUME NEW reg \in SUBSET Bits, NEW d \in Disks
  PROVE  BitSet(reg, d) \in SUBSET Bits /\ BitClr(reg, d) \in SUBSET Bits
<1>1. Ppr[d] \in Bits
  BY Consts
<1>2. ASSUME NEW bits \in SUBSET Bits PROVE Reversed(bits) \in SUBSET Bits
  BY DEF Reversed, Bits
<1> QED
  BY <1>1, <1>2 DEF BitSet, BitClr

(***************************************************************************)
(* Type correctness.                                                       *)
(***************************************************************************)
AddressOK ==
  /\ talking \in Addresses \cup {None, UNT}
  /\ listening \in Addresses \cup {None}
  /\ secondary \in Secondaries \cup {None}
  /\ spoll \in BOOLEAN /\ lastcmd \in BOOLEAN

TypeInv ==
  /\ AddressOK /\ DisksOK
  /\ ppr \in SUBSET Bits /\ asked \in SUBSET Disks
  /\ served \in Nat
  /\ CaptureOK(plot)
  /\ printed \in 0 .. MaxPrinted

LEMMA CommandsTyped ==
  ASSUME AddressOK, DisksOK, served \in Nat,
         NEW s \in Secondaries, NEW n \in Nat, GpibCommands(s, n)
  PROVE  /\ secondary' \in Secondaries \cup {None}
         /\ DisksOK' /\ served' \in {n, n + 1}
<1>1. secondary' \in Secondaries \cup {None}
  BY DEF GpibCommands
<1>2. CASE Both(AMIGOs) /\ AmigoCommands(s, n)
  BY <1>1, <1>2, BothMeansOne DEF AmigoCommands, DisksOK
<1>3. CASE Both(SS80s) /\ Ss80Commands(s, n)
  BY <1>1, <1>3, BothMeansOne DEF Ss80Commands, DisksOK
<1> QED
  BY <1>1, <1>2, <1>3 DEF GpibCommands, DisksOK

LEMMA StepAddress ==
  ASSUME TypeInv, [Next]_vars
  PROVE  AddressOK' /\ DisksOK'
<1> USE DEF TypeInv
<1>1. CASE Reset
  BY <1>1, Consts DEF Reset, AddressOK, DisksOK
<1>2. CASE Unlisten \/ Untalk \/ SerialPollDisable \/ PrinterData \/ Skip
  BY <1>2 DEF Unlisten, Untalk, SerialPollDisable, PrinterData, Skip, disk,
              AddressOK, DisksOK
<1>3. CASE \E a \in Addresses : Listen(a) \/ Talk(a) \/ SecondaryAddress(a)
  BY <1>3 DEF Listen, Talk, SecondaryAddress, Activate, AddressOK, DisksOK
<1>4. CASE SerialPollEnable \/ SelectedDeviceClear \/ DeviceClear
  BY <1>4 DEF SerialPollEnable, SelectedDeviceClear, DeviceClear, Activate,
              AddressOK, DisksOK
<1>5. CASE Data \/ \E s \in Secondaries : Secondary(s)
  <2>1. PICK s \in Secondaries, n \in Nat : GpibCommands(s, n)
    BY <1>5 DEF Data, Secondary, AddressOK
  <2>2. secondary' \in Secondaries \cup {None} /\ DisksOK'
    BY <2>1, CommandsTyped
  <2> QED
    BY <1>5, <2>2 DEF Data, Secondary, AddressOK
<1>6. CASE UNCHANGED vars
  BY <1>6 DEF vars, address, disk, AddressOK, DisksOK
<1> QED
  BY <1>1, <1>2, <1>3, <1>4, <1>5, <1>6 DEF Next

LEMMA StepPoll ==
  ASSUME TypeInv, [Next]_vars
  PROVE  ppr' \in SUBSET Bits /\ asked' \in SUBSET Disks
<1>1. DisksOK /\ ppr \in SUBSET Bits /\ asked \in SUBSET Disks
  BY DEF TypeInv
<1>2. CASE Unpolled \/ (ppr' = {} /\ asked' = {})
  BY <1>1, <1>2 DEF Unpolled
<1>3. CASE \E d \in Disks : TurnsOn(d) \/ TurnsOff(d) \/ Works(d)
  <2>1. PICK d \in Disks : TurnsOn(d) \/ TurnsOff(d) \/ Works(d)
    BY <1>3
  <2>2. /\ BitSet(ppr, d) \in SUBSET Bits /\ BitClr(ppr, d) \in SUBSET Bits
        /\ BitSet(BitClr(ppr, d), d) \in SUBSET Bits
    BY <1>1, PollTyped
  <2> QED
    BY <1>1, <2>1, <2>2 DEF TurnsOn, TurnsOff, Works
<1>4. CASE \E c, d \in Disks : /\ ppr' = BitSet(BitSet(ppr, c), d)
                             /\ asked' = asked \cup {c, d}
  BY <1>1, <1>4, PollTyped
<1> QED
  BY <1>1, <1>2, <1>3, <1>4, PollStep

LEMMA StepServed ==
  ASSUME TypeInv, [Next]_vars
  PROVE  served' \in Nat
<1>1. served \in Nat /\ AddressOK /\ DisksOK
  BY DEF TypeInv
<1>2. CASE Data \/ \E s \in Secondaries : Secondary(s)
  <2>1. PICK s \in Secondaries, n \in Nat : GpibCommands(s, n)
    BY <1>1, <1>2 DEF Data, Secondary, AddressOK
  <2> QED
    BY <1>1, <2>1, CommandsTyped
<1>3. CASE Reset
  BY <1>3 DEF Reset
<1>4. CASE ~Data /\ ~(\E s \in Secondaries : Secondary(s)) /\ ~Reset
  BY <1>1, <1>4 DEF Next, vars, disk, Unlisten, Untalk, Listen, Talk,
     SecondaryAddress, SerialPollEnable, SerialPollDisable,
     SelectedDeviceClear, DeviceClear, PrinterData, Skip
<1> QED
  BY <1>2, <1>3, <1>4

(* How a step changes the capture.                                         *)
LEMMA StepCapture ==
  ASSUME TypeInv, [Next]_vars
  PROVE  CaptureOK(plot') /\ printed' \in 0 .. MaxPrinted
<1>1. CaptureOK(plot) /\ printed \in 0 .. MaxPrinted /\ 0 \in Chars
  BY Consts DEF TypeInv, Chars
<1>2. \A q \in Closed(plot) : CaptureOK(q)
  BY <1>1, CaptureOps
<1>3. \A q \in Cleaned : CaptureOK(q)
  BY <1>1, <1>2 DEF Cleaned
<1>4. ASSUME NEW p, CaptureOK(p), NEW q \in Opened(p) PROVE CaptureOK(q)
  BY <1>1, <1>4, CaptureOps
<1>5. CASE Reset \/ Unlisten \/ DeviceClear
  BY <1>1, <1>2, <1>3, <1>5 DEF Reset, Unlisten, DeviceClear
<1>6. CASE \E a \in Addresses : Listen(a) \/ Talk(a)
  BY <1>1, <1>3, <1>4, <1>6 DEF Listen, Talk
<1>7. CASE PrinterData
  <2>1. printed' \in 0 .. MaxPrinted /\ plot' \in Stored(plot, printed')
    BY <1>1, <1>7, Consts DEF PrinterData
  <2> QED
    BY <1>1, <2>1, CaptureOps DEF Chars
<1>8. CASE UNCHANGED <<plot, printed>>
  BY <1>1, <1>8
<1> QED
  BY <1>5, <1>6, <1>7, <1>8 DEF Next, vars, Unprinted, Untalk,
     SecondaryAddress, SerialPollEnable, SerialPollDisable,
     SelectedDeviceClear, Secondary, Data, Skip

LEMMA TypeInvariant == Spec => []TypeInv
<1>1. Init => TypeInv
  <2> SUFFICES ASSUME Init PROVE TypeInv
    OBVIOUS
  <2>1. CaptureOK(plot)
    BY EmptySeq DEF Init, NoPlot, Plots, CaptureOK
  <2>2. AddressOK /\ DisksOK
    BY Consts DEF Init, AddressOK, DisksOK
  <2>3. /\ ppr \in SUBSET Bits /\ asked \in SUBSET Disks
        /\ served \in Nat /\ printed \in 0 .. MaxPrinted
    BY Consts DEF Init
  <2> QED
    BY <2>1, <2>2, <2>3 DEF TypeInv
<1>2. TypeInv /\ [Next]_vars => TypeInv'
  BY StepAddress, StepPoll, StepServed, StepCapture DEF TypeInv
<1> QED
  BY <1>1, <1>2, PTL DEF Spec

(* Whatever the host sends, every variable keeps its type: the poll        *)
(* register stays a byte of poll bits, the capture a capture.              *)
THEOREM TypeCorrect == Spec => []TypeOK
<1>1. TypeInv => TypeOK
  BY DEF TypeInv, TypeOK, AddressOK, DisksOK, CaptureOK
<1> QED
  BY <1>1, TypeInvariant, PTL

(***************************************************************************)
(* Secondary commands: one that is pending has not been carried out.       *)
(***************************************************************************)
ServedInv ==
  /\ served \in Nat /\ served <= 1
  /\ secondary # None => served = 0

LEMMA CommandsServe ==
  ASSUME AddressOK, DisksOK, served \in Nat,
         NEW s \in Secondaries, GpibCommands(s, 0)
  PROVE  served' \in {0, 1} /\ (secondary' # None => served' = 0)
<1>1. served' \in {0, 1}
  BY CommandsTyped
<1>2. Both(AMIGOs) \/ Both(SS80s) => Both(Devices)
  BY DEF Both, Devices, Disks
<1>3. secondary' # None => ~Both(Devices)
  BY DEF GpibCommands
<1>4. secondary' # None => served' = 0
  BY <1>2, <1>3 DEF GpibCommands
<1> QED
  BY <1>1, <1>4

(* A secondary command is carried out at most once: when it has been, it   *)
(* is no longer pending, so a later data byte does not bring it back       *)
(* (gpib_task.c, gpib_task and GPIB_COMMANDS).                             *)
THEOREM SecondaryServedOnce == Spec => []ServedOnce
<1>1. Init => ServedInv
  BY DEF Init, ServedInv
<1>2. TypeInv /\ ServedInv /\ [Next]_vars => ServedInv'
  <2> SUFFICES ASSUME TypeInv, ServedInv, [Next]_vars PROVE ServedInv'
    OBVIOUS
  <2>1. AddressOK /\ DisksOK /\ served \in Nat /\ None \notin Secondaries
    BY GpibTaskAssumption DEF TypeInv, GpibTaskAssumption
  <2>2. CASE Data \/ \E s \in Secondaries : Secondary(s)
    <3>1. PICK s \in Secondaries : GpibCommands(s, 0)
      BY <2>1, <2>2 DEF Data, Secondary, AddressOK, ServedInv
    <3>2. served' \in {0, 1} /\ (secondary' # None => served' = 0)
      BY <2>1, <3>1, CommandsServe
    <3> QED
      BY <3>2 DEF ServedInv
  <2>3. CASE Reset \/ \E a \in Addresses : SecondaryAddress(a)
    BY <2>3 DEF Reset, SecondaryAddress, ServedInv
  <2>4. CASE UNCHANGED <<secondary, served>>
    BY <2>4 DEF ServedInv
  <2> QED
    BY <2>2, <2>3, <2>4 DEF Next, vars, address, disk, Unlisten, Untalk,
       Listen, Talk, SerialPollEnable, SerialPollDisable,
       SelectedDeviceClear, DeviceClear, PrinterData, Skip
<1>3. ServedInv => ServedOnce
  BY DEF ServedInv, ServedOnce
<1> QED
  BY <1>1, <1>2, <1>3, TypeInvariant, PTL DEF Spec

(***************************************************************************)
(* The poll lines, for a build that does not reverse the register.         *)
(***************************************************************************)
Lines(disks) == {Ppr[d] : d \in disks}

LEMMA LinesOf ==
  ASSUME NEW A \in SUBSET Disks, NEW d \in Disks
  PROVE  /\ Lines(A \cup {d}) = Lines(A) \cup {Ppr[d]}
         /\ Lines(A \ {d}) = Lines(A) \ {Ppr[d]}
         /\ Lines((A \ {d}) \cup {d}) = Lines(A \ {d}) \cup {Ppr[d]}
  BY Consts DEF Lines

(* Without PPR_REVERSE_BITS a parallel poll is answered by exactly the     *)
(* disks whose response is on, whatever the others do: no ppr_bit_set or   *)
(* ppr_bit_clr of one disk touches another's line.                         *)
THEOREM PollAnswersAsked ==
  ASSUME ~REVERSE
  PROVE  Spec => []PollLines
<1> DEFINE Inv == ppr = Lines(asked)
<1>1. Init => Inv
  BY DEF Init, Lines
<1>2. TypeInv /\ Inv /\ [Next]_vars => Inv'
  <2> SUFFICES ASSUME TypeInv, ppr = Lines(asked), [Next]_vars
               PROVE  ppr' = Lines(asked')
    BY DEF Lines
  <2>1. DisksOK /\ asked \in SUBSET Disks
    BY DEF TypeInv
  <2>2. \A reg, d : /\ BitSet(reg, d) = reg \cup {Ppr[d]}
                   /\ BitClr(reg, d) = reg \ {Ppr[d]}
    BY DEF BitSet, BitClr, Reversed
  <2>3. CASE Unpolled \/ (ppr' = {} /\ asked' = {})
    BY <2>3 DEF Unpolled, Lines
  <2>4. CASE \E d \in Disks : TurnsOn(d) \/ TurnsOff(d) \/ Works(d)
    <3>1. PICK d \in Disks : TurnsOn(d) \/ TurnsOff(d) \/ Works(d)
      BY <2>4
    <3>2. /\ Lines(asked \cup {d}) = Lines(asked) \cup {Ppr[d]}
          /\ Lines(asked \ {d}) = Lines(asked) \ {Ppr[d]}
      BY <2>1, LinesOf
    <3>3. CASE TurnsOn(d)
      BY <2>2, <3>2, <3>3 DEF TurnsOn
    <3>4. CASE TurnsOff(d)
      BY <2>2, <3>2, <3>4 DEF TurnsOff
    <3>5. CASE /\ ppr' = BitSet(BitClr(ppr, d), d)
               /\ asked' = asked \cup {d}
      <4>1. ppr' = Lines(asked) \cup {Ppr[d]}
        BY <2>2, <3>5
      <4> QED
        BY <3>2, <3>5, <4>1
    <3> QED
      BY <3>1, <3>3, <3>4, <3>5 DEF Works
  <2>5. CASE \E c, d \in Disks : /\ ppr' = BitSet(BitSet(ppr, c), d)
                               /\ asked' = asked \cup {c, d}
    <3>1. PICK c \in Disks, d \in Disks : /\ ppr' = BitSet(BitSet(ppr, c), d)
                                       /\ asked' = asked \cup {c, d}
      BY <2>5
    <3>2. Lines((asked \cup {c}) \cup {d}) = Lines(asked) \cup {Ppr[c]} \cup {Ppr[d]}
      <4>1. Lines(asked \cup {c}) = Lines(asked) \cup {Ppr[c]}
        BY <2>1, LinesOf
      <4>2. (asked \cup {c}) \in SUBSET Disks
        BY <2>1
      <4> QED
        BY <4>1, <4>2, LinesOf
    <3>3. asked \cup {c, d} = (asked \cup {c}) \cup {d}
      OBVIOUS
    <3> QED
      BY <2>2, <3>1, <3>2, <3>3
  <2> QED
    BY <2>1, <2>3, <2>4, <2>5, PollStep
<1>3. Inv => PollLines
  BY DEF PollLines, Reversed, Lines
<1> QED
  BY <1>1, <1>2, <1>3, TypeInvariant, PTL DEF Spec

(***************************************************************************)
(* The capture, when the host is orderly: it is open exactly while the     *)
(* printer listens to somebody, and what it holds is what was sent.        *)
(***************************************************************************)
Sent(n) == [i \in 1 .. n |-> i]

Shut(p, n) ==
  /\ p \in Plots
  /\ p.file = FALSE /\ p.handles = 0
  /\ p.failed \/ p.buf = << >>
  /\ p.failed \/ p.paper = Sent(n)

Capturing(p, n) ==
  /\ p \in Plots
  /\ p.handles = IF p.file THEN 1 ELSE 0
  /\ p.failed \/ (p.file /\ p.alloc)
  /\ p.failed \/ p.paper \o p.buf = Sent(n)

CaptureInv == IF Printing /\ talking # UNT THEN Capturing(plot, printed)
                                          ELSE Shut(plot, printed)

LEMMA ClosedShut ==
  ASSUME NEW p, NEW n, Shut(p, n) \/ Capturing(p, n), NEW q \in Closed(p)
  PROVE  Shut(q, n)
<1>1. p \in Plots /\ p.handles = IF p.file THEN 1 ELSE 0
  BY DEF Shut, Capturing
<1>2. /\ q \in Plots /\ q.file = FALSE /\ q.buf = << >>
      /\ q.handles = IF p.file THEN p.handles - 1 ELSE p.handles
      /\ q.failed \/ ~p.failed
      /\ q.failed \/ q.paper = IF p.file THEN p.paper \o p.buf ELSE p.paper
  <2>1. p.file => p.handles > 0
    BY <1>1
  <2> QED
    BY <1>1, <2>1, ClosedEffect
<1>3. q.handles = 0
  BY <1>1, <1>2, PlotFields
<1>4. q.failed \/ q.paper = Sent(n)
  <2>1. CASE Shut(p, n)
    BY <1>2, <2>1 DEF Shut
  <2>2. CASE Capturing(p, n)
    BY <1>2, <2>2 DEF Capturing
  <2> QED
    BY <2>1, <2>2
<1> QED
  BY <1>2, <1>3, <1>4 DEF Shut

LEMMA OpenedCaptures ==
  ASSUME NEW p, NEW n, Shut(p, n), NEW q \in Opened(p)
  PROVE  Capturing(q, n)
<1>1. /\ p \in Plots /\ p.handles = 0
      /\ p.failed \/ p.buf = << >>
      /\ p.failed \/ p.paper = Sent(n)
  BY DEF Shut
<1>2. /\ q \in Plots
      /\ q.file => q.handles = p.handles + 1
      /\ ~q.file => q.handles = p.handles
      /\ q.failed \/ ~p.failed
      /\ q.failed \/ ( /\ q.file /\ q.alloc /\ q.paper = p.paper
                       /\ q.buf = Zeros(Len(p.buf)) )
  BY <1>1, OpenedEffect
<1>3. q.handles = IF q.file THEN 1 ELSE 0
  BY <1>1, <1>2
<1>4. q.failed \/ q.paper \o q.buf = Sent(n)
  <2> SUFFICES ASSUME ~q.failed PROVE q.paper \o q.buf = Sent(n)
    BY <1>2, PlotFields
  <2>1. ~p.failed /\ q.paper = p.paper /\ q.buf = Zeros(Len(p.buf))
    BY <1>1, <1>2, PlotFields
  <2>2. p.buf = << >> /\ q.paper = Sent(n)
    BY <1>1, <2>1
  <2>3. q.buf = << >>
    BY <2>1, <2>2 DEF Zeros
  <2> QED
    BY <1>2, <2>2, <2>3, PlotFields, ConcatEmptySeq
<1> QED
  BY <1>2, <1>3, <1>4 DEF Capturing

LEMMA SentMore ==
  ASSUME NEW n \in Nat
  PROVE  Append(Sent(n), n + 1) = Sent(n + 1)
  BY DEF Sent

LEMMA StoredCaptures ==
  ASSUME NEW p, NEW n \in Nat, Capturing(p, n), n + 1 \in Chars,
         NEW q \in Stored(p, n + 1)
  PROVE  Capturing(q, n + 1)
<1>1. /\ p \in Plots /\ p.handles = IF p.file THEN 1 ELSE 0
      /\ p.failed \/ (p.file /\ p.alloc)
      /\ p.failed \/ p.paper \o p.buf = Sent(n)
  BY DEF Capturing
<1>2. /\ q \in Plots
      /\ q.file = p.file /\ q.handles = p.handles /\ q.alloc = p.alloc
      /\ q.failed \/ ~p.failed
      /\ p.file /\ p.alloc /\ ~q.failed =>
           q.paper \o q.buf = Append(p.paper \o p.buf, n + 1)
  BY <1>1, StoredEffect
<1>3. /\ q.handles = IF q.file THEN 1 ELSE 0
      /\ q.failed \/ (q.file /\ q.alloc)
  BY <1>1, <1>2
<1>4. q.failed \/ q.paper \o q.buf = Sent(n + 1)
  BY <1>1, <1>2, SentMore
<1> QED
  BY <1>2, <1>3, <1>4 DEF Capturing

LEMMA NotPrinters ==
  /\ None \notin Printers /\ UNT \notin Addresses
  /\ UNT \notin Others \cup {None}
  BY GpibTaskAssumption DEF GpibTaskAssumption, Addresses, Devices

LEMMA CaptureInitially == Init => CaptureInv
<1> SUFFICES ASSUME Init PROVE CaptureInv
  OBVIOUS
<1>1. plot \in Plots /\ Printing = FALSE
  BY EmptySeq, NotPrinters DEF Init, NoPlot, Plots, Printing
<1>2. Shut(plot, printed)
  BY <1>1 DEF Init, NoPlot, Shut, Sent
<1> QED
  BY <1>1, <1>2 DEF CaptureInv

LEMMA CapturePreserved ==
  ASSUME Orderly, TypeInv, CaptureInv, [Next]_vars
  PROVE  CaptureInv'
<1>1. CASE Reset
  <2>1. Shut(plot', printed)
    BY <1>1, ClosedShut DEF Reset, CaptureInv
  <2>2. Printing' = FALSE
    BY <1>1, NotPrinters DEF Reset, Printing
  <2> QED
    BY <1>1, <2>1, <2>2 DEF CaptureInv, Reset
<1>2. \A p \in Cleaned : Shut(p, printed)
  BY ClosedShut DEF Cleaned, CaptureInv, Printing
<1>3. CASE Unlisten
  <2>1. Printing' = FALSE
    BY <1>3, NotPrinters DEF Unlisten, Printing
  <2> QED
    BY <1>2, <1>3, <2>1 DEF Unlisten, CaptureInv
<1>4. CASE \E a \in Addresses : Listen(a)
  <2>1. PICK a \in Addresses : Listen(a)
    BY <1>4
  <2>2. Printing' <=> a \in Printers
    BY <2>1 DEF Listen, Printing
  <2>3. talking' = talking /\ printed' = printed
    BY <2>1 DEF Listen
  <2>4. CASE a \in Printers /\ talking # UNT
    <3>1. PICK p \in Cleaned : plot' \in Opened(p)
      BY <2>1, <2>4 DEF Listen
    <3>2. Capturing(plot', printed)
      BY <1>2, <3>1, OpenedCaptures
    <3> QED
      BY <2>2, <2>3, <2>4, <3>2 DEF CaptureInv
  <2>5. CASE ~(a \in Printers /\ talking # UNT)
    <3>1. Shut(plot', printed)
      BY <1>2, <2>1, <2>5 DEF Listen
    <3> QED
      BY <2>2, <2>3, <2>5, <3>1 DEF CaptureInv
  <2> QED
    BY <2>4, <2>5
<1>5. CASE Untalk \/ DeviceClear
  <2>1. ~Printing /\ Shut(plot, printed)
    BY <1>5 DEF Untalk, DeviceClear, CaptureInv
  <2>2. ~Printing'
    BY <1>5, <2>1 DEF Untalk, DeviceClear, Printing
  <2>3. Shut(plot', printed)
    BY <1>5, <2>1, ClosedShut DEF Untalk, DeviceClear
  <2>4. printed' = printed
    BY <1>5 DEF Untalk, DeviceClear
  <2> QED
    BY <2>2, <2>3, <2>4 DEF CaptureInv
<1>6. CASE \E a \in Addresses : Talk(a)
  <2>1. PICK a \in Addresses : Talk(a)
    BY <1>6
  <2>2. Printing => talking = UNT /\ a \in Others
    BY <2>1 DEF Talk
  <2>3. Shut(plot, printed)
    BY <2>2 DEF CaptureInv
  <2>4. Printing' = Printing /\ talking' = a /\ a # UNT /\ printed' = printed
    BY <2>1, NotPrinters DEF Talk, Printing
  <2>5. CASE Printing
    <3>1. plot' \in Opened(plot)
      BY <2>1, <2>2, <2>5 DEF Talk
    <3>2. Capturing(plot', printed)
      BY <2>3, <3>1, OpenedCaptures
    <3> QED
      BY <2>4, <2>5, <3>2 DEF CaptureInv
  <2>6. CASE ~Printing
    <3>1. plot' = plot
      BY <2>1, <2>6 DEF Talk
    <3> QED
      BY <2>3, <2>4, <2>6, <3>1 DEF CaptureInv
  <2> QED
    BY <2>5, <2>6
<1>7. CASE PrinterData
  <2>1. Printing /\ talking # UNT
    BY <1>7, NotPrinters DEF PrinterData
  <2>2. Capturing(plot, printed) /\ printed \in Nat
    BY <2>1, Consts DEF CaptureInv, TypeInv
  <2>3. /\ printed' = printed + 1 /\ printed + 1 \in Chars
        /\ plot' \in Stored(plot, printed + 1)
    BY <1>7, <2>2, Consts DEF PrinterData, Chars
  <2>4. Capturing(plot', printed + 1)
    BY <2>2, <2>3, StoredCaptures
  <2>5. Printing' /\ talking' # UNT
    BY <1>7, <2>1 DEF PrinterData, Printing
  <2> QED
    BY <2>3, <2>4, <2>5 DEF CaptureInv
<1>8. CASE UNCHANGED <<talking, listening, plot, printed>>
  BY <1>8 DEF CaptureInv, Printing
<1> QED
  BY <1>1, <1>3, <1>4, <1>5, <1>6, <1>7, <1>8 DEF Next, vars, address,
     SecondaryAddress, SerialPollEnable, SerialPollDisable,
     SelectedDeviceClear, Secondary, Data, Skip, Unprinted

LEMMA CaptureInvariant ==
  ASSUME Orderly
  PROVE  Spec => []CaptureInv
<1>1. TypeInv /\ CaptureInv /\ [Next]_vars => CaptureInv'
  BY CapturePreserved
<1> QED
  BY <1>1, CaptureInitially, TypeInvariant, PTL DEF Spec

(* With an orderly host, however captures are opened, fail and end, no     *)
(* file is left open when no printer listens (listen_cleanup).             *)
THEOREM CapturesAreClosed ==
  ASSUME Orderly
  PROVE  Spec => []CapturesClosed
<1>1. CaptureInv => CapturesClosed
  BY DEF CaptureInv, CapturesClosed, Shut
<1> QED
  BY <1>1, CaptureInvariant, PTL

(* With an orderly host, every byte sent to the printer is in its capture  *)
(* or in the buffer, once and in order, unless a file operation failed     *)
(* (printer_open, printer_buffer, receive_plot_flush, printer_close).      *)
THEOREM PrintedBytesCaptured ==
  ASSUME Orderly
  PROVE  Spec => []PrintedIsCaptured
<1>1. CaptureInv => PrintedIsCaptured
  <2> SUFFICES ASSUME CaptureInv, ~plot.failed
               PROVE  plot.paper \o plot.buf = Sent(printed)
    BY DEF PrintedIsCaptured, Sent
  <2>1. CASE Capturing(plot, printed)
    BY <2>1 DEF Capturing
  <2>2. CASE Shut(plot, printed)
    <3>1. plot \in Plots /\ plot.buf = << >> /\ plot.paper = Sent(printed)
      BY <2>2 DEF Shut
    <3> QED
      BY <3>1, PlotFields, ConcatEmptySeq
  <2> QED
    BY <2>1, <2>2 DEF CaptureInv
<1> QED
  BY <1>1, CaptureInvariant, PTL

(***************************************************************************)
(* The bus with the device table.                                          *)
(***************************************************************************)
(***************************************************************************)
(* The least of some numbers.                                              *)
(***************************************************************************)
LEMMA Least ==
  ASSUME NEW S, S \subseteq Nat, S # {}
  PROVE  Min(S) \in S /\ \A x \in S : Min(S) <= x
  <1> DEFINE T == {0 .. x : x \in S}
             R == StrictSubsetOrdering(Nat)
             F == FiniteSubsetsOf(Nat)
  <1>1. T \subseteq F /\ T # {}
    <2>1. ASSUME NEW x \in S PROVE 0 .. x \in F
      <3>1. IsFiniteSet(0 .. x)
        BY FS_Interval
      <3>2. QED
        BY <3>1 DEF FiniteSubsetsOf
    <2>2. QED
      BY <2>1
  <1>2. IsWellFoundedOn(R, F)
    BY FS_StrictSubsetOrderingWellFounded
  <1>3. PICK t \in T : \A u \in T : ~(<<u, t>> \in R)
    <2> HIDE DEF T, R, F
    <2>1. QED
      BY <1>1, <1>2, WFMin
  <1>4. PICK x \in S : t = 0 .. x
    BY <1>3
  <1>5. ASSUME NEW y \in S PROVE x <= y
    <2>1. SUFFICES ASSUME y < x PROVE FALSE
      OBVIOUS
    <2>2. (0 .. y) \subseteq (0 .. x) /\ x \in 0 .. x /\ x \notin 0 .. y
      BY <2>1
    <2>3. <<0 .. y, 0 .. x>> \in R
      BY <2>2 DEF StrictSubsetOrdering
    <2>4. QED
      BY <1>3, <1>4, <2>3
  <1>6. QED
    BY <1>5 DEF Min

LEMMA FirstIn ==
  ASSUME NEW S, S \subseteq Slots
  PROVE  /\ S = {} => First(S) = 0
         /\ S # {} => First(S) \in S
  <1>1. S \subseteq Nat
    BY DEF Slots
  <1>2. ASSUME S # {} PROVE Min(S) \in S
    BY <1>1, <1>2, Least
  <1>3. QED
    BY <1>2 DEF First

LEMMA FreeSlot ==
  ASSUME NEW table
  PROVE  LET free == find_type(table, "NO_TYPE")
         IN  /\ free = 0 => \A i \in Slots : table[i].TYPE # "NO_TYPE"
             /\ free # 0 => free \in Slots /\ table[free].TYPE = "NO_TYPE"
  <1> DEFINE S == {i \in Slots : table[i].TYPE = "NO_TYPE"}
  <1>1. 0 \notin Slots
    BY DEF Slots
  <1>2. /\ S = {} => First(S) = 0
        /\ S # {} => First(S) \in S
    <2> S \subseteq Slots
      OBVIOUS
    <2> HIDE DEF S
    <2> QED
      BY FirstIn
  <1>3. find_type(table, "NO_TYPE") = First(S)
    BY DEF find_type
  <1>4. QED
    BY <1>1, <1>2, <1>3

(***************************************************************************)
(* The states of the parser: a device's, and those of its sections.        *)
(***************************************************************************)
LEMMA TheParts ==
  /\ DOMAIN Parts = {"PRINTER_STATE", "SS80_STATE", "AMIGO_STATE"}
  /\ PartsOf("PRINTER_STATE") = {"PRINTER_CONFIG"}
  /\ PartsOf("SS80_STATE") = {"SS80_HEADER", "SS80_CONFIG", "SS80_CONTROLLER", "SS80_UNIT",
                              "SS80_VOLUME"}
  /\ PartsOf("AMIGO_STATE") = {"AMIGO_HEADER", "AMIGO_CONFIG", "AMIGO_GEOMETRY"}
  <1>1. DOMAIN Parts = {"PRINTER_STATE", "SS80_STATE", "AMIGO_STATE"}
    BY DEF Parts
  <1>2. PartsOf("PRINTER_STATE") = {"PRINTER_CONFIG"}
    BY DEF Parts, PartsOf
  <1>3. PartsOf("SS80_STATE") = {"SS80_HEADER", "SS80_CONFIG", "SS80_CONTROLLER", "SS80_UNIT",
                              "SS80_VOLUME"}
    BY DEF Parts, PartsOf
  <1>4. PartsOf("AMIGO_STATE") = {"AMIGO_HEADER", "AMIGO_CONFIG", "AMIGO_GEOMETRY"}
    BY DEF Parts, PartsOf
  <1>5. QED
    BY <1>1, <1>2, <1>3, <1>4

LEMMA TheSections ==
  DOMAIN Sections =
    {"PRINTER_CONFIG", "SS80_HEADER", "SS80_CONFIG", "SS80_CONTROLLER", "SS80_UNIT",
     "SS80_VOLUME", "AMIGO_HEADER", "AMIGO_CONFIG", "AMIGO_GEOMETRY"}
  BY DEF Sections

(* A section is one device's.                                              *)
LEMMA OneOwner ==
  ASSUME NEW s \in DOMAIN Sections
  PROVE  /\ Of(s) \in DOMAIN Parts /\ s \in PartsOf(Of(s))
         /\ \A d \in DOMAIN Parts : s \in PartsOf(d) => d = Of(s)
  <1>1. \E d \in DOMAIN Parts : s \in PartsOf(d)
    BY TheParts, TheSections
  <1>2. \A d, e \in DOMAIN Parts : s \in PartsOf(d) /\ s \in PartsOf(e) => d = e
    BY TheParts
  <1>3. Of(s) \in DOMAIN Parts /\ s \in PartsOf(Of(s))
    BY <1>1 DEF Of
  <1>4. QED
    BY <1>2, <1>3

LEMMA PartIsSection ==
  ASSUME NEW d \in DOMAIN Parts, NEW t \in DOMAIN Parts[d]
  PROVE  Parts[d][t] \in DOMAIN Sections /\ Of(Parts[d][t]) = d
  <1>1. Parts[d][t] \in PartsOf(d)
    BY DEF PartsOf
  <1>2. Parts[d][t] \in DOMAIN Sections
    BY <1>1, TheParts, TheSections
  <1>3. QED
    BY <1>1, <1>2, OneOwner

LEMMA StatesApart ==
  /\ "START_STATE" \notin DOMAIN Parts /\ "START_STATE" \notin DOMAIN Sections
  /\ DOMAIN Parts \cap DOMAIN Sections = {}
  BY TheParts, TheSections

LEMMA TheOpenings ==
  /\ \A t \in DOMAIN Openings : /\ Openings[t].state \in DOMAIN Parts
                                /\ Openings[t].type \in Types
                                /\ StateOf(Openings[t].type) = Openings[t].state
  /\ "NO_TYPE" \notin Types
  <1>1. DOMAIN Openings = {"SS80_DEFAULT", "SS80", "CS80", "AMIGO", "PRINTER"}
    BY DEF Openings
  <1>2. ASSUME NEW t \in DOMAIN Openings
        PROVE  /\ Openings[t].state \in DOMAIN Parts
               /\ StateOf(Openings[t].type) = Openings[t].state
               /\ Openings[t].type # "NO_TYPE"
    BY <1>1, TheParts DEF Openings, StateOf
  <1>3. QED
    BY <1>2 DEF Types

(***************************************************************************)
(* The inductive invariant: the parser's variables are there, and where    *)
(* the parser is in a device is as Described says.                         *)
(***************************************************************************)
DeviceFields == {"TYPE", "ADDRESS", "dev"}

Tabled(table) ==
  /\ DOMAIN table = Slots
  /\ \A i \in Slots : DeviceFields \subseteq DOMAIN table[i]

ParserTypes(p) ==
  /\ {"state", "stack", "index", "pointer", "table", "errors"} \subseteq DOMAIN p
  /\ p.state \in States /\ p.stack \in Seq(States)
  /\ DOMAIN p.pointer = DOMAIN Parts
  /\ Tabled(p.table)

ParserInv(p) == ParserTypes(p) /\ Described(p)

(* A device keeps its type, whatever is entered.                           *)
LEMMA EntryKeepsType ==
  ASSUME NEW device, DeviceFields \subseteq DOMAIN device,
         NEW section, NEW field, NEW value
  PROVE  LET e == Entry(device, section, field, value)
         IN  DeviceFields \subseteq DOMAIN e /\ e.TYPE = device.TYPE
  <1>1. CASE field = "ADDRESS"
    BY <1>1 DEF Entry, DeviceFields
  <1>2. CASE field = "PPR"
    BY <1>2 DEF Entry, DeviceFields
  <1>3. CASE field \notin {"ADDRESS", "PPR"}
    BY <1>3 DEF Entry, DeviceFields
  <1>4. QED
    BY <1>1, <1>2, <1>3

LEMMA WithModelKeepsType ==
  ASSUME NEW device, DeviceFields \subseteq DOMAIN device, NEW model
  PROVE  LET e == WithModel(device, model)
         IN  DeviceFields \subseteq DOMAIN e /\ e.TYPE = device.TYPE
  BY DEF WithModel, DeviceFields

LEMMA AllocatedType ==
  ASSUME NEW table, NEW type
  PROVE  LET e == Allocated(table, type)
         IN  DeviceFields \subseteq DOMAIN e /\ e.TYPE = type
  BY DEF Allocated, NoDevice, DeviceFields

LEMMA PostedKeepsType ==
  ASSUME NEW device, DeviceFields \subseteq DOMAIN device
  PROVE  LET e == Posted(device)
         IN  DeviceFields \subseteq DOMAIN e /\ e.TYPE = device.TYPE
  <1>1. CASE device.TYPE = "SS80_TYPE"
    BY <1>1 DEF Posted, DeviceFields
  <1>2. CASE device.TYPE = "AMIGO_TYPE"
    BY <1>2 DEF Posted, DeviceFields
  <1>3. CASE device.TYPE \notin {"SS80_TYPE", "AMIGO_TYPE"}
    BY <1>3 DEF Posted, DeviceFields
  <1>4. QED
    BY <1>1, <1>2, <1>3

(***************************************************************************)
(* The stack.                                                              *)
(***************************************************************************)
LEMMA Pushed ==
  ASSUME NEW p, ParserTypes(p), NEW s \in States
  PROVE  LET e == Entered(p, s)
         IN  /\ ParserTypes(e)
             /\ e.state = s
             /\ e.stack = IF Len(p.stack) < MaxStack THEN Append(p.stack, p.state) ELSE p.stack
             /\ e.index = p.index /\ e.pointer = p.pointer /\ e.table = p.table
             /\ e.errors = p.errors
  <1>1. Append(p.stack, p.state) \in Seq(States)
    BY DEF ParserTypes
  <1>2. QED
    BY <1>1 DEF Entered, ParserTypes

(* END leaves a section for its device, a device for the start, and at the *)
(* start nothing but a device that was not entered.                        *)
LEMMA EndKeeps ==
  ASSUME NEW p, ParserInv(p)
  PROVE  ParserInv(EndLine(p))
  <1> DEFINE n == Len(p.stack)
             e == EndLine(p)
  <1> USE DEF ParserInv
  <1>1. n \in Nat /\ (p.stack # << >> => n >= 1 /\ p.stack[n] \in States)
    BY DEF ParserTypes
  <1>2. ParserTypes(e)
    <2>1. p.stack # << >> => SubSeq(p.stack, 1, n - 1) \in Seq(States)
      BY <1>1 DEF ParserTypes
    <2>2. "START_STATE" \in States
      BY DEF States
    <2>3. QED
      BY <1>1, <2>1, <2>2 DEF EndLine, ParserTypes
  <1>3. /\ e.index = p.index /\ e.pointer = p.pointer /\ e.table = p.table
        /\ p.stack = << >> => e.state = "START_STATE" /\ e.stack = << >>
        /\ p.stack # << >> => e.state = p.stack[n] /\ e.stack = SubSeq(p.stack, 1, n - 1)
    BY DEF EndLine, ParserTypes
  <1> SUFFICES ParserInv(e)
    OBVIOUS
  <1> HIDE DEF e
  <1>4. CASE p.state = "START_STATE"
    <2>1. CASE p.stack = << >>
      <3>1. \A k \in 1 .. Len(e.stack) : e.stack[k] = "START_STATE"
        BY <1>3, <2>1
      <3>2. QED
        BY <1>2, <1>3, <2>1, <3>1 DEF Described
    <2>2. CASE p.stack # << >>
      <3>1. \A k \in 1 .. n : p.stack[k] = "START_STATE"
        BY <1>4 DEF Described
      <3>2. \A i \in Slots : p.table[i].TYPE # "NO_TYPE"
        BY <1>4, <2>2 DEF Described
      <3>3. Len(e.stack) = n - 1 /\ \A k \in 1 .. n - 1 : e.stack[k] = p.stack[k]
        BY <1>1, <1>3, <2>2 DEF ParserTypes
      <3>4. e.state = "START_STATE"
        BY <1>1, <1>3, <2>2, <3>1
      <3>5. \A k \in 1 .. Len(e.stack) : e.stack[k] = "START_STATE"
        BY <1>1, <3>1, <3>3
      <3>6. QED
        BY <1>2, <1>3, <3>2, <3>4, <3>5 DEF Described
    <2>3. QED
      BY <2>1, <2>2
  <1>5. CASE p.state \in DOMAIN Parts
    <2>1. p.stack = <<"START_STATE">>
      BY <1>5, StatesApart DEF Described
    <2>2. n = 1 /\ p.stack # << >> /\ p.stack[n] = "START_STATE"
      BY <2>1
    <2>3. e.state = "START_STATE" /\ e.stack = << >>
      <3>1. n - 1 \in Int /\ n - 1 < 1
        BY <2>2
      <3>2. SubSeq(p.stack, 1, n - 1) = << >>
        BY <3>1, SubSeqEmpty
      <3>3. QED
        BY <1>3, <2>2, <3>2
    <2>4. \A k \in 1 .. Len(e.stack) : e.stack[k] = "START_STATE"
      BY <2>3
    <2>5. QED
      BY <1>2, <2>3, <2>4 DEF Described
  <1>6. CASE p.state \in DOMAIN Sections
    <2>1. p.stack = <<"START_STATE", Of(p.state)>>
      BY <1>6, StatesApart DEF Described
    <2>2. e.state = Of(p.state) /\ e.stack = <<"START_STATE">>
      <3>1. n = 2 /\ p.stack # << >> /\ p.stack[n] = Of(p.state)
        BY <2>1
      <3>2. n - 1 \in Int /\ n - 1 = 1
        BY <3>1
      <3>3. \A i \in 1 .. n - 1 : p.stack[i] \in {"START_STATE"}
        BY <2>1, <3>2
      <3>4. /\ SubSeq(p.stack, 1, n - 1) \in Seq({"START_STATE"})
            /\ Len(SubSeq(p.stack, 1, n - 1)) = 1
        <4> DEFINE m == n - 1
        <4>1. m \in Int /\ m = 1 /\ \A i \in 1 .. m : p.stack[i] \in {"START_STATE"}
          BY <3>2, <3>3
        <4> HIDE DEF m
        <4>2. /\ SubSeq(p.stack, 1, m) \in Seq({"START_STATE"})
              /\ Len(SubSeq(p.stack, 1, m)) = IF 1 <= m THEN m - 1 + 1 ELSE 0
          BY <4>1, SubSeqProperties
        <4>3. SubSeq(p.stack, 1, m) \in Seq({"START_STATE"}) /\ Len(SubSeq(p.stack, 1, m)) = 1
          BY <4>1, <4>2
        <4>4. QED
          BY <4>3, Zenon DEF m
      <3>5. \A t \in Seq({"START_STATE"}) : Len(t) = 1 => t = <<"START_STATE">>
        <4>1. <<"START_STATE">> \in Seq({"START_STATE"}) /\ Len(<<"START_STATE">>) = 1
          OBVIOUS
        <4>2. TAKE t \in Seq({"START_STATE"})
        <4>3. HAVE Len(t) = 1
        <4>4. \A i \in 1 .. Len(t) : t[i] = <<"START_STATE">>[i]
          BY <4>2, <4>3
        <4>5. QED
          BY <4>1, <4>2, <4>3, <4>4, SeqEqual
      <3>6. QED
        BY <1>3, <3>1, <3>4, <3>5
    <2>3. Of(p.state) \in DOMAIN Parts
      BY <1>6, OneOwner
    <2>4. DeviceOf(e.state) = DeviceOf(p.state)
      BY <1>6, <2>2, <2>3, StatesApart DEF DeviceOf
    <2>5. QED
      BY <1>2, <1>3, <1>6, <2>2, <2>3, <2>4, StatesApart DEF Described
  <1>7. QED
    BY <1>4, <1>5, <1>6 DEF ParserTypes, States

LEMMA WrongKeeps ==
  ASSUME NEW p, ParserInv(p)
  PROVE  ParserInv(Wrong(p))
  BY DEF ParserInv, ParserTypes, Described, Wrong

(* The line of a device finds a free slot and opens it, or, in a full      *)
(* table, leaves a start on the stack.                                     *)
LEMMA StartKeeps ==
  ASSUME NEW p, ParserInv(p), p.state = "START_STATE", NEW line
  PROVE  ParserInv(StartLine(p, line))
  <1> DEFINE new == Openings[line.token]
             free == find_type(p.table, "NO_TYPE")
             in == Entered(p, new.state)
             full == [in EXCEPT !.state = "START_STATE", !.index = 0]
             device == WithModel(Allocated(p.table, new.type), line.name)
             opened == [in EXCEPT !.index = free, !.pointer[new.state] = free,
                                  !.table[free] = device]
  <1>1. CASE line.token \in {"DEBUG", "PRINTER_DEFAULT_ADDRESS"}
    BY <1>1 DEF StartLine
  <1>2. CASE /\ line.token \notin {"DEBUG", "PRINTER_DEFAULT_ADDRESS"}
             /\ line.token \notin DOMAIN Openings
    BY <1>2, WrongKeeps DEF StartLine
  <1>3. ASSUME line.token \in DOMAIN Openings
        PROVE  /\ new.state \in DOMAIN Parts /\ new.state \in States
               /\ new.type \in Types /\ StateOf(new.type) = new.state
    BY <1>3, TheOpenings DEF States
  <1>4. ASSUME line.token \in DOMAIN Openings
        PROVE  /\ ParserTypes(in)
               /\ in.stack = IF Len(p.stack) < MaxStack THEN Append(p.stack, p.state) ELSE p.stack
               /\ in.index = p.index /\ in.pointer = p.pointer /\ in.table = p.table
    <2> HIDE DEF in, new
    <2> QED
      BY <1>3, <1>4, Pushed DEF ParserInv, in
  <1>5. CASE line.token \in DOMAIN Openings /\ free = 0
    <2> HIDE DEF in, new, free
    <2>1. \A i \in Slots : p.table[i].TYPE # "NO_TYPE"
      BY <1>5, FreeSlot DEF free
    <2>2. ParserTypes(full)
      BY <1>4, <1>5 DEF ParserTypes, States
    <2>3. full.state = "START_STATE" /\ full.stack = in.stack /\ full.table = p.table
      BY <1>4, <1>5 DEF ParserTypes
    <2>4. \A k \in 1 .. Len(p.stack) : p.stack[k] = "START_STATE"
      BY DEF ParserInv, Described
    <2>5. \A k \in 1 .. Len(in.stack) : in.stack[k] = "START_STATE"
      <3>1. p.stack \in Seq(States)
        BY DEF ParserInv, ParserTypes
      <3>2. CASE in.stack = p.stack
        BY <2>4, <3>2
      <3>3. CASE in.stack = Append(p.stack, "START_STATE")
        BY <2>4, <3>1, <3>3
      <3>4. QED
        BY <1>4, <1>5, <3>2, <3>3
    <2>6. ParserInv(full)
      BY <2>1, <2>2, <2>3, <2>5 DEF ParserInv, Described
    <2>7. QED
      BY <1>5, <2>6, TheOpenings DEF StartLine, in, new, free
  <1>6. CASE /\ line.token \notin {"DEBUG", "PRINTER_DEFAULT_ADDRESS"}
             /\ line.token \in DOMAIN Openings /\ free # 0
    <2> HIDE DEF in, new, free, device
    <2>1. free \in Slots /\ p.table[free].TYPE = "NO_TYPE"
      BY <1>6, FreeSlot DEF free
    <2>2. p.stack = << >>
      BY <2>1 DEF ParserInv, Described
    <2>3. in.stack = <<"START_STATE">>
      <3>1. 0 < MaxStack
        BY DrivesAssumption
      <3>2. Len(p.stack) = 0 /\ Append(p.stack, p.state) = <<"START_STATE">>
        BY <2>2
      <3>3. QED
        BY <1>4, <1>6, <3>1, <3>2
    <2>4. DeviceFields \subseteq DOMAIN device /\ device.TYPE = new.type
      <3>1. /\ DeviceFields \subseteq DOMAIN Allocated(p.table, new.type)
            /\ Allocated(p.table, new.type).TYPE = new.type
        BY AllocatedType
      <3>2. QED
        BY <3>1, WithModelKeepsType DEF device
    <2>5. /\ opened.state = in.state /\ opened.stack = in.stack /\ opened.index = free
          /\ opened.pointer = [p.pointer EXCEPT ![new.state] = free]
          /\ opened.table = [p.table EXCEPT ![free] = device]
          /\ DOMAIN opened = DOMAIN in
      BY <1>4, <1>6 DEF ParserTypes
    <2>6. in.state = new.state
      BY <1>3, <1>6, Pushed DEF ParserInv, in
    <2>7. Tabled(opened.table)
      BY <2>1, <2>4, <2>5 DEF ParserInv, ParserTypes, Tabled
    <2>8. ParserTypes(opened)
      BY <1>4, <1>6, <2>5, <2>7 DEF ParserTypes
    <2>9. opened.pointer[new.state] = free /\ opened.table[free] = device
      BY <1>3, <1>6, <2>1, <2>5 DEF ParserInv, ParserTypes, Tabled
    <2>10. ParserInv(opened)
      BY <1>3, <1>6, <2>1, <2>3, <2>4, <2>5, <2>6, <2>8, <2>9, StatesApart
         DEF ParserInv, Described, DeviceOf
    <2>11. StartLine(p, line) = opened
      BY <1>6 DEF StartLine, in, new, free, device
    <2>12. QED
      BY <2>10, <2>11
  <1>7. QED
    BY <1>1, <1>2, <1>5, <1>6

(* The line of a section enters it.                                        *)
LEMMA DeviceKeeps ==
  ASSUME NEW p, ParserInv(p), p.state \in DOMAIN Parts, NEW line
  PROVE  ParserInv(DeviceLine(p, line))
  <1> DEFINE to == Parts[p.state][line.token]
             e == Entered(p, to)
  <1>1. CASE line.token \notin DOMAIN Parts[p.state]
    BY <1>1, WrongKeeps DEF DeviceLine
  <1>2. CASE line.token \in DOMAIN Parts[p.state]
    <2>1. to \in DOMAIN Sections /\ Of(to) = p.state
      BY <1>2, PartIsSection
    <2>2. to \in States /\ to \notin DOMAIN Parts /\ to # "START_STATE"
      BY <2>1, StatesApart DEF States
    <2> HIDE DEF to
    <2>3. /\ ParserTypes(e) /\ e.state = to
          /\ e.stack = IF Len(p.stack) < MaxStack THEN Append(p.stack, p.state) ELSE p.stack
          /\ e.index = p.index /\ e.pointer = p.pointer /\ e.table = p.table
      BY <2>2, Pushed DEF ParserInv
    <2> HIDE DEF e
    <2>4. p.stack = <<"START_STATE">> /\ p.state # "START_STATE"
      BY StatesApart DEF ParserInv, Described
    <2>5. e.stack = <<"START_STATE", Of(to)>>
      <3>1. Len(p.stack) = 1 /\ 1 < MaxStack
        BY <2>4, DrivesAssumption
      <3>2. Append(p.stack, p.state) = <<"START_STATE", p.state>>
        <4> DEFINE t == <<"START_STATE", p.state>>
        <4>1. p.stack \in Seq(States) /\ p.state \in States /\ Len(p.stack) = 1
          BY <2>4 DEF ParserInv, ParserTypes
        <4>2. /\ Append(p.stack, p.state) \in Seq(States)
              /\ Len(Append(p.stack, p.state)) = 2
              /\ Append(p.stack, p.state)[1] = "START_STATE"
              /\ Append(p.stack, p.state)[2] = p.state
          BY <2>4, <4>1, AppendProperties
        <4>3. t \in Seq(States) /\ Len(t) = 2 /\ t[1] = "START_STATE" /\ t[2] = p.state
          BY <4>1 DEF States
        <4>4. \A i \in 1 .. 2 : Append(p.stack, p.state)[i] = t[i]
          BY <4>2, <4>3
        <4> HIDE DEF t
        <4>5. Append(p.stack, p.state) = t
          BY <4>2, <4>3, <4>4, SeqEqual
        <4>6. QED
          BY <4>5 DEF t
      <3>3. QED
        BY <2>1, <2>3, <3>1, <3>2
    <2>6. DeviceOf(e.state) = DeviceOf(p.state)
      BY <2>1, <2>2, <2>3 DEF DeviceOf
    <2>7. Described(e)
      BY <2>2, <2>3, <2>4, <2>5, <2>6 DEF ParserInv, Described
    <2>8. QED
      BY <1>2, <2>3, <2>7 DEF DeviceLine, ParserInv, e, to
  <1>3. QED
    BY <1>1, <1>2

(* The line of a field changes no type, no stack and no index.             *)
LEMMA SectionKeeps ==
  ASSUME NEW p, ParserInv(p), p.state \in DOMAIN Sections, NEW line
  PROVE  ParserInv(SectionLine(p, line))
  <1> DEFINE field == Spelled(line.token)
             value == IF field = "FILE" THEN line.name ELSE Kept(field, line.val)
             own == p.pointer[Of(p.state)]
             entry == [p.table EXCEPT ![p.index] = Entry(@, p.state, field, value)]
             bad == field # "FILE" /\ TooLarge(field, line.val)
             table == [entry EXCEPT ![own].dev = Own(@, p.state, field, value)]
             set == [p EXCEPT !.table = table, !.errors = IF bad THEN @ + 1 ELSE @]
  <1>1. CASE p.state = "AMIGO_HEADER" /\ field = "DRIVE"
    BY <1>1 DEF SectionLine
  <1>2. CASE /\ ~(p.state = "AMIGO_HEADER" /\ field = "DRIVE")
             /\ field \notin Sections[p.state]
    BY <1>2, WrongKeeps DEF SectionLine
  <1>3. CASE /\ ~(p.state = "AMIGO_HEADER" /\ field = "DRIVE")
             /\ field \in Sections[p.state]
    <2>1. p.index \in Slots /\ own = p.index
      BY StatesApart DEF ParserInv, Described, DeviceOf
    <2>2. /\ DOMAIN entry = Slots
          /\ \A i \in Slots : DeviceFields \subseteq DOMAIN entry[i]
                              /\ entry[i].TYPE = p.table[i].TYPE
      <3>1. DOMAIN entry = Slots
        BY DEF ParserInv, ParserTypes, Tabled
      <3>2. ASSUME NEW i \in Slots
            PROVE  DeviceFields \subseteq DOMAIN entry[i] /\ entry[i].TYPE = p.table[i].TYPE
        <4>1. DeviceFields \subseteq DOMAIN p.table[i]
          BY DEF ParserInv, ParserTypes, Tabled
        <4> HIDE DEF field, value
        <4>2. CASE i = p.index
          BY <2>1, <4>1, <4>2, EntryKeepsType DEF ParserInv, ParserTypes, Tabled
        <4>3. CASE i # p.index
          BY <2>1, <4>1, <4>3 DEF ParserInv, ParserTypes, Tabled
        <4>4. QED
          BY <4>2, <4>3
      <3>3. QED
        BY <3>1, <3>2
    <2> HIDE DEF entry, field, value
    <2>3. Tabled(table) /\ \A i \in Slots : table[i].TYPE = p.table[i].TYPE
      <3>1. DOMAIN table = Slots
        BY <2>2
      <3>2. ASSUME NEW i \in Slots
            PROVE  DeviceFields \subseteq DOMAIN table[i] /\ table[i].TYPE = p.table[i].TYPE
        BY <2>1, <2>2, <3>1 DEF DeviceFields
      <3>3. QED
        BY <3>1, <3>2 DEF Tabled
    <2> HIDE DEF table, bad
    <2>4. /\ set.table = table /\ set.state = p.state /\ set.stack = p.stack
          /\ set.index = p.index /\ set.pointer = p.pointer /\ DOMAIN set = DOMAIN p
      BY DEF ParserInv, ParserTypes
    <2>5. ParserTypes(set)
      BY <2>3, <2>4 DEF ParserInv, ParserTypes
    <2>6. Described(set)
      BY <2>1, <2>3, <2>4, StatesApart DEF ParserInv, Described
    <2>7. SectionLine(p, line) = set
      BY <1>3 DEF SectionLine, set, table, entry, own, value, field, bad
    <2>8. QED
      BY <2>5, <2>6, <2>7 DEF ParserInv
  <1>4. QED
    BY <1>1, <1>2, <1>3

LEMMA LineKeeps ==
  ASSUME NEW p, ParserInv(p), NEW line
  PROVE  ParserInv(ParseLine(p, line))
  <1>1. p.state = "START_STATE" \/ p.state \in DOMAIN Parts \/ p.state \in DOMAIN Sections
    BY DEF ParserInv, ParserTypes, States
  <1>2. CASE line.token = "END"
    BY <1>2, EndKeeps DEF ParseLine
  <1>3. CASE line.token # "END" /\ p.state = "START_STATE"
    BY <1>3, StatesApart, StartKeeps DEF ParseLine
  <1>4. CASE line.token # "END" /\ p.state \in DOMAIN Parts
    BY <1>4, StatesApart, DeviceKeeps DEF ParseLine
  <1>5. CASE line.token # "END" /\ p.state \in DOMAIN Sections
    BY <1>5, StatesApart, SectionKeeps DEF ParseLine
  <1>6. QED
    BY <1>1, <1>2, <1>3, <1>4, <1>5

(***************************************************************************)
(* DescribesOne: whatever is missing from a text, twice in it or out of    *)
(* place, every line goes to the device that is written around it.         *)
(***************************************************************************)
LEMMA BootBegins == BootInit => ParserInv(config)
  <1>1. << >> \in Seq(States)
    OBVIOUS
  <1>2. SUFFICES ParserInv(init_Devices)
    BY DEF BootInit
  <1>3. ParserTypes(init_Devices)
    BY <1>1 DEF ParserTypes, Tabled, init_Devices, NoDevice, States, DeviceFields
  <1>4. Described(init_Devices)
    BY DEF Described, init_Devices
  <1>5. QED
    BY <1>3, <1>4 DEF ParserInv

LEMMA BootKeeps == ParserInv(config) /\ [BootNext]_boot => ParserInv(config)'
  <1> SUFFICES ASSUME ParserInv(config), [BootNext]_boot PROVE ParserInv(config')
    OBVIOUS
  <1>1. CASE ReadLine
    BY <1>1, LineKeeps DEF ReadLine
  <1>2. CASE EndOfFile
    <2> DEFINE table == [i \in Slots |-> Posted(config.table[i])]
    <2>1. Tabled(table) /\ \A i \in Slots : table[i].TYPE = config.table[i].TYPE
      BY PostedKeepsType DEF ParserInv, ParserTypes, Tabled
    <2> HIDE DEF table
    <2>2. /\ config'.table = table /\ config'.state = config.state
          /\ config'.stack = config.stack /\ config'.index = config.index
          /\ config'.pointer = config.pointer /\ DOMAIN config' = DOMAIN config
      BY <1>2 DEF EndOfFile, ParserInv, ParserTypes, table
    <2>3. ParserTypes(config')
      BY <2>1, <2>2 DEF ParserInv, ParserTypes
    <2>4. Described(config')
      BY <2>1, <2>2 DEF ParserInv, Described
    <2>5. QED
      BY <2>3, <2>4 DEF ParserInv
  <1>3. CASE FormatSlot \/ FormatForever \/ UNCHANGED boot
    BY <1>3 DEF FormatSlot, FormatForever, boot
  <1>4. QED
    BY <1>1, <1>2, <1>3 DEF BootNext

(* BootSpec reads every line into the device that is written around it.   *)
THEOREM EveryLineHasItsDevice == BootSpec => []DescribesOne
  <1>1. ParserInv(config) => DescribesOne
    BY DEF ParserInv, DescribesOne
  <1>2. QED
    BY <1>1, BootBegins, BootKeeps, PTL DEF BootSpec

(***************************************************************************)
(* ReadAsWritten.  The slot of the device that line k begins; the devices  *)
(* that the first n lines begin, and what they say of a field of one.      *)
(***************************************************************************)
Place(k) == Cardinality(Before(k)) + 1
Begun(n) == {k \in Begins : k <= n}
Seen(k, field, n) == {j \in On(k, field) : j <= n}

Argument(line, field) == IF field = "FILE" THEN line.name ELSE Kept(field, line.val)

Fields(k) == UNION {Sections[s] : s \in PartsOf(StateOf(TypeOf(k)))}

(* What a field is before a line of the device itself sets it.             *)
Given(k, field) ==
  LET set == ModelFields(TypeOf(k), Hpdir[hpdir_find_drive(text[k].name)])
  IN IF IsModel(TypeOf(k), text[k].name) /\ field \in DOMAIN set THEN set[field]
     ELSE IF HasDefault(k, field) THEN Default(k, field)
     ELSE Zeroed(TypeOf(k))[field]

Latest(k, field, n) == Argument(text[Max(Seen(k, field, n))], field)

(* The device is what the first n lines say of the one that k begins.      *)
InPlace(device, k, n) ==
  /\ device.TYPE = TypeOf(k)
  /\ DOMAIN device.dev = FieldsOf(TypeOf(k))
  /\ \A f \in Fields(k) :
       device.dev[f] = IF Seen(k, f, n) = {} THEN Given(k, f) ELSE Latest(k, f, n)
  /\ device.ADDRESS = IF Seen(k, "ADDRESS", n) = {} THEN 0 ELSE Latest(k, "ADDRESS", n)

(* The lines that do nothing where no device is being described.           *)
Idle == {"END", "DEBUG", "PRINTER_DEFAULT_ADDRESS"}

(* The inductive invariant: after n lines without an error, each slot in   *)
(* use is a device's that is begun, with what has been said of it; of one  *)
(* without a slot nothing has been said; and the device that is being      *)
(* described is the last that is begun.                                    *)
Written(p, n) ==
  /\ \A i \in Slots : p.table[i].TYPE # "NO_TYPE" => \E k \in Begun(n) : Place(k) = i
  /\ \A k \in Begun(n) : Place(k) \in Slots => InPlace(p.table[Place(k)], k, n)
  /\ \A k \in Begun(n) : Place(k) \notin Slots =>
       \A j \in About(k) : j <= n => text[j].token \in Idle
  /\ p.state # "START_STATE" =>
       \E k \in Begun(n) : p.index = Place(k) /\ \A b \in Begun(n) : b <= k

(* The slots are taken one after the other.                                *)
AllPlaces(n) == \A i \in 1 .. Cardinality(Begun(n)) : \E k \in Begun(n) : Place(k) = i

LEMMA Greatest ==
  ASSUME NEW S, S \subseteq Int, NEW m \in S, \A x \in S : x <= m
  PROVE  Max(S) = m
  <1>1. Max(S) \in S /\ \A y \in S : Max(S) >= y
    BY DEF Max
  <1>2. m \in Int /\ Max(S) \in Int /\ Max(S) >= m /\ Max(S) <= m
    BY <1>1
  <1>3. QED
    BY <1>2

LEMMA Smallest ==
  ASSUME NEW S, S \subseteq Int, NEW m \in S, \A x \in S : m <= x
  PROVE  Min(S) = m
  <1>1. Min(S) \in S /\ \A y \in S : Min(S) <= y
    BY DEF Min
  <1>2. m \in Int /\ Min(S) \in Int /\ Min(S) <= m /\ Min(S) >= m
    BY <1>1
  <1>3. QED
    BY <1>2

LEMMA TextLines ==
  ASSUME text \in Texts
  PROVE  /\ Len(text) \in Nat /\ DOMAIN text = 1 .. Len(text)
         /\ \A i \in 1 .. Len(text) : text[i].val \in Int
         /\ Begins \subseteq 1 .. Len(text) /\ IsFiniteSet(Begins)
  <1>1. Len(text) \in Nat /\ DOMAIN text = 1 .. Len(text)
    BY TextsAssumption
  <1>2. \A i \in 1 .. Len(text) : text[i].val \in Int
    BY <1>1, TextsAssumption
  <1>3. Begins \subseteq 1 .. Len(text)
    BY DEF Begins
  <1>4. IsFiniteSet(1 .. Len(text))
    BY <1>1, FS_Interval
  <1>5. QED
    BY <1>1, <1>2, <1>3, <1>4, FS_Subset

LEMMA Places ==
  ASSUME text \in Texts
  PROVE  /\ \A k \in Begins : Place(k) \in Nat /\ Place(k) >= 1
         /\ \A j, k \in Begins : j < k => Place(j) < Place(k)
         /\ \A j, k \in Begins : Place(j) = Place(k) => j = k
  <1>1. \A k : IsFiniteSet(Before(k))
    BY TextLines, FS_Subset DEF Before
  <1>2. \A k : Cardinality(Before(k)) \in Nat
    BY <1>1, FS_CardinalityType
  <1>3. ASSUME NEW j \in Begins, NEW k \in Begins, j < k PROVE Place(j) < Place(k)
    <2>1. j \notin Before(j)
      BY TextLines DEF Before
    <2>2. Cardinality(Before(j) \cup {j}) = Cardinality(Before(j)) + 1
      BY <1>1, <2>1, FS_AddElement
    <2>3. Before(j) \cup {j} \subseteq Before(k)
      BY <1>3, TextLines DEF Before
    <2>4. Cardinality(Before(j) \cup {j}) <= Cardinality(Before(k))
      BY <1>1, <2>3, FS_Subset
    <2>5. QED
      BY <1>2, <2>2, <2>4 DEF Place
  <1>4. \A k \in Begins : Place(k) \in Nat /\ Place(k) >= 1
    BY <1>2 DEF Place
  <1>5. \A j, k \in Begins : Place(j) = Place(k) => j = k
    <2> TAKE j, k \in Begins
    <2>1. j \in Int /\ k \in Int
      BY TextLines
    <2>2. j < k \/ k < j \/ j = k
      BY <2>1
    <2>3. QED
      BY <1>3, <1>4, <2>2
  <1>6. QED
    BY <1>3, <1>4, <1>5

(* One more line: it begins a device, behind all there are, or none.       *)
LEMMA OneMoreLine ==
  ASSUME text \in Texts, NEW n \in Nat, n < Len(text)
  PROVE  /\ n + 1 \in Begins =>
              /\ Begun(n + 1) = Begun(n) \cup {n + 1}
              /\ Begun(n) = Before(n + 1)
              /\ Place(n + 1) = Cardinality(Begun(n)) + 1
              /\ Cardinality(Begun(n + 1)) = Cardinality(Begun(n)) + 1
         /\ n + 1 \notin Begins => Begun(n + 1) = Begun(n)
         /\ Cardinality(Begun(n)) \in Nat
  <1>1. IsFiniteSet(Begun(n)) /\ Begins \subseteq Nat
    BY TextLines, FS_Subset DEF Begun
  <1>2. Cardinality(Begun(n)) \in Nat
    BY <1>1, FS_CardinalityType
  <1>3. n + 1 \notin Begun(n)
    BY DEF Begun
  <1>0. \A k \in Begins : (k <= n + 1 <=> k <= n \/ k = n + 1) /\ (k <= n <=> k < n + 1)
    <2> TAKE k \in Begins
    <2>1. k \in Int
      BY <1>1
    <2>2. QED
      BY <2>1
  <1>4. n + 1 \in Begins => Begun(n + 1) = Begun(n) \cup {n + 1}
    BY <1>0 DEF Begun
  <1>5. n + 1 \notin Begins => Begun(n + 1) = Begun(n)
    BY <1>0 DEF Begun
  <1>6. Begun(n) = Before(n + 1)
    BY <1>0 DEF Begun, Before
  <1>7. Cardinality(Begun(n) \cup {n + 1}) = Cardinality(Begun(n)) + 1
    BY <1>1, <1>3, FS_AddElement
  <1>8. QED
    BY <1>2, <1>4, <1>5, <1>6, <1>7 DEF Place

LEMMA AllPlacesStay ==
  ASSUME text \in Texts, NEW n \in Nat, n < Len(text), AllPlaces(n)
  PROVE  AllPlaces(n + 1)
  <1>1. CASE n + 1 \notin Begins
    BY <1>1, OneMoreLine DEF AllPlaces
  <1>2. CASE n + 1 \in Begins
    <2> DEFINE c == Cardinality(Begun(n))
    <2>1. c \in Nat /\ Cardinality(Begun(n + 1)) = c + 1 /\ Place(n + 1) = c + 1
      BY <1>2, OneMoreLine
    <2>2. Begun(n) \subseteq Begun(n + 1) /\ n + 1 \in Begun(n + 1)
      BY <1>2, OneMoreLine
    <2>3. ASSUME NEW i \in 1 .. c + 1 PROVE \E k \in Begun(n + 1) : Place(k) = i
      <3>1. i \in 1 .. c \/ i = c + 1
        BY <2>1
      <3>2. QED
        BY <2>1, <2>2, <3>1 DEF AllPlaces
    <2>4. QED
      BY <2>1, <2>3 DEF AllPlaces
  <1>3. QED
    BY <1>1, <1>2

(***************************************************************************)
(* What a line does that is read without an error.                         *)
(***************************************************************************)
AllFields == UNION {Sections[s] : s \in DOMAIN Sections}

(* It passes the end of a section or a device, or enters a section.        *)
Passes(p, line, q) ==
  /\ line.token \notin DOMAIN Openings /\ Spelled(line.token) \notin AllFields
  /\ q.table = p.table
  /\ q.state # "START_STATE" => p.state # "START_STATE" /\ q.index = p.index
  /\ p.state = "START_STATE" => line.token \in Idle

(* It opens a device, if there is room.                                    *)
Opens(p, line, q) ==
  LET free == find_type(p.table, "NO_TYPE")
      new == WithModel(Allocated(p.table, Openings[line.token].type), line.name)
  IN /\ line.token \in DOMAIN Openings /\ p.state = "START_STATE"
     /\ free = 0 => q.table = p.table /\ q.state = "START_STATE"
     /\ free # 0 => q.index = free /\ q.table = [p.table EXCEPT ![free] = new]

(* It sets a field of the device that is being described.                  *)
SetsField(p, line, q) ==
  LET field == Spelled(line.token)
      old == p.table[p.index]
      new == q.table[p.index]
  IN /\ line.token \notin DOMAIN Openings
     /\ p.state \in DOMAIN Sections /\ field \in Sections[p.state]
     /\ q.state = p.state /\ q.index = p.index
     /\ \A i \in Slots : i # p.index => q.table[i] = p.table[i]
     /\ new.TYPE = old.TYPE
     /\ new.dev = Own(old.dev, p.state, field, Argument(line, field))
     /\ new.ADDRESS = IF field = "ADDRESS" THEN Argument(line, field) ELSE old.ADDRESS

Innocent(p, line, q) ==
  /\ q.errors \in Nat
  /\ q.errors = 0 =>
       p.errors = 0 /\ (Passes(p, line, q) \/ Opens(p, line, q) \/ SetsField(p, line, q))

LEMMA TheFields ==
  AllFields =
    {"ADDRESS", "PPR", "FILE", "ID", "UNITS_INSTALLED", "TRANSFER_RATE", "TYPE",
     "UNIT_TYPE", "DEVICE_NUMBER", "BYTES_PER_BLOCK", "BUFFERED_BLOCKS", "BURST_SIZE",
     "BLOCK_TIME", "CONTINUOUS_TRANSFER_RATE", "OPTIMAL_RETRY_TIME", "ACCESS_TIME",
     "MAXIMUM_INTERLEAVE", "FIXED_VOLUMES", "REMOVABLE_VOLUMES", "MAX_CYLINDER", "MAX_HEAD",
     "MAX_SECTOR", "MAX_BLOCK_NUMBER", "INTERLEAVE", "BYTES_PER_SECTOR",
     "SECTORS_PER_TRACK", "HEADS", "CYLINDERS"}
  BY TheSections DEF AllFields, Sections

LEMMA TokensApart ==
  /\ "DRIVE" \notin AllFields
  /\ \A t \in DOMAIN Openings \cup Idle : Spelled(t) \notin AllFields
  /\ DOMAIN Openings \cap Idle = {}
  /\ \A d \in DOMAIN Parts : \A t \in DOMAIN Parts[d] :
       t \notin DOMAIN Openings /\ Spelled(t) \notin AllFields
  <1>1. DOMAIN Openings = {"SS80_DEFAULT", "SS80", "CS80", "AMIGO", "PRINTER"}
    BY DEF Openings
  <1>2. \A t \in DOMAIN Openings \cup Idle : Spelled(t) \notin AllFields
    BY <1>1, TheFields DEF Spelled, Idle
  <1>3. \A d \in DOMAIN Parts : \A t \in DOMAIN Parts[d] :
          t \in {"HEADER", "CONFIG", "CONTROLLER", "UNIT", "VOLUME", "GEOMETRY"}
    BY DEF Parts
  <1>4. \A t \in {"HEADER", "CONFIG", "CONTROLLER", "UNIT", "VOLUME", "GEOMETRY"} :
          t \notin DOMAIN Openings /\ Spelled(t) \notin AllFields
    BY <1>1, TheFields DEF Spelled
  <1>5. "DRIVE" \notin AllFields /\ DOMAIN Openings \cap Idle = {}
    BY <1>1, TheFields DEF Idle
  <1>6. QED
    BY <1>2, <1>3, <1>4, <1>5

LEMMA WrongCounts ==
  ASSUME NEW p, ParserTypes(p), p.errors \in Nat, NEW line
  PROVE  Innocent(p, line, Wrong(p))
  <1>1. Wrong(p).errors = p.errors + 1
    BY DEF Wrong, ParserTypes
  <1>2. QED
    BY <1>1 DEF Innocent

LEMMA EndIsInnocent ==
  ASSUME NEW p, ParserInv(p), p.errors \in Nat, NEW line, line.token = "END"
  PROVE  Innocent(p, line, EndLine(p))
  <1> DEFINE n == Len(p.stack)
             e == EndLine(p)
  <1>1. /\ e.errors = p.errors /\ e.index = p.index /\ e.table = p.table
        /\ e.state = IF p.stack = << >> THEN "START_STATE" ELSE p.stack[n]
    BY DEF EndLine, ParserInv, ParserTypes
  <1>2. p.state = "START_STATE" => e.state = "START_STATE"
    <2>1. p.stack # << >> => n \in 1 .. n
      BY DEF ParserInv, ParserTypes
    <2>2. QED
      BY <1>1, <2>1 DEF ParserInv, Described
  <1>3. line.token \in Idle
    BY DEF Idle
  <1>4. line.token \notin DOMAIN Openings /\ Spelled(line.token) \notin AllFields
    BY <1>3, TokensApart
  <1> HIDE DEF e
  <1>5. Passes(p, line, e)
    BY <1>1, <1>2, <1>3, <1>4 DEF Passes
  <1>6. QED
    BY <1>1, <1>5 DEF Innocent, e

LEMMA StartIsInnocent ==
  ASSUME NEW p, ParserInv(p), p.errors \in Nat, p.state = "START_STATE", NEW line,
         line.token # "END"
  PROVE  Innocent(p, line, StartLine(p, line))
  <1> DEFINE new == Openings[line.token]
             free == find_type(p.table, "NO_TYPE")
             in == Entered(p, new.state)
             full == [in EXCEPT !.state = "START_STATE", !.index = 0]
             device == WithModel(Allocated(p.table, new.type), line.name)
             opened == [in EXCEPT !.index = free, !.pointer[new.state] = free,
                                  !.table[free] = device]
  <1>1. CASE line.token \in {"DEBUG", "PRINTER_DEFAULT_ADDRESS"}
    <2>1. StartLine(p, line) = p
      BY <1>1 DEF StartLine
    <2>2. line.token \in Idle
      BY <1>1 DEF Idle
    <2>3. Passes(p, line, p)
      BY <2>2, TokensApart DEF Passes
    <2>4. QED
      BY <2>1, <2>3 DEF Innocent
  <1>2. CASE /\ line.token \notin {"DEBUG", "PRINTER_DEFAULT_ADDRESS"}
             /\ line.token \notin DOMAIN Openings
    BY <1>2, WrongCounts DEF StartLine, ParserInv
  <1>3. CASE /\ line.token \notin {"DEBUG", "PRINTER_DEFAULT_ADDRESS"}
             /\ line.token \in DOMAIN Openings
    <2>1. new.state \in States
      BY <1>3, TheOpenings DEF States
    <2>2. ParserTypes(in) /\ in.table = p.table /\ in.errors = p.errors
      <3> HIDE DEF in, new
      <3> QED
        BY <2>1, Pushed DEF ParserInv, in
    <2> HIDE DEF in, new, free, device
    <2>3. CASE free = 0
      <3>1. full.state = "START_STATE" /\ full.table = p.table /\ full.errors = p.errors
        BY <2>2 DEF ParserTypes
      <3>2. Opens(p, line, full)
        BY <1>3, <2>3, <3>1 DEF Opens, free
      <3>3. StartLine(p, line) = full
        BY <1>3, <2>3 DEF StartLine, in, new, free
      <3>4. QED
        BY <3>1, <3>2, <3>3 DEF Innocent
    <2>4. CASE free # 0
      <3>1. /\ opened.index = free /\ opened.errors = p.errors
            /\ opened.table = [p.table EXCEPT ![free] = device]
        BY <2>2 DEF ParserTypes
      <3>2. Opens(p, line, opened)
        BY <1>3, <2>4, <3>1 DEF Opens, free, device, new
      <3>3. StartLine(p, line) = opened
        BY <1>3, <2>4 DEF StartLine, in, new, free, device
      <3>4. QED
        BY <3>1, <3>2, <3>3 DEF Innocent
    <2>5. QED
      BY <2>3, <2>4
  <1>4. QED
    BY <1>1, <1>2, <1>3

LEMMA DeviceIsInnocent ==
  ASSUME NEW p, ParserInv(p), p.errors \in Nat, p.state \in DOMAIN Parts, NEW line
  PROVE  Innocent(p, line, DeviceLine(p, line))
  <1> DEFINE to == Parts[p.state][line.token]
             e == Entered(p, to)
  <1>1. CASE line.token \notin DOMAIN Parts[p.state]
    BY <1>1, WrongCounts DEF DeviceLine, ParserInv
  <1>2. CASE line.token \in DOMAIN Parts[p.state]
    <2>1. to \in States
      BY <1>2, PartIsSection DEF States
    <2> HIDE DEF to
    <2>2. e.table = p.table /\ e.index = p.index /\ e.errors = p.errors
      BY <2>1, Pushed DEF ParserInv
    <2> HIDE DEF e
    <2>3. Passes(p, line, e)
      BY <1>2, <2>2, TokensApart, StatesApart DEF Passes
    <2>4. QED
      BY <1>2, <2>2, <2>3 DEF DeviceLine, Innocent, e, to
  <1>3. QED
    BY <1>1, <1>2

LEMMA SectionIsInnocent ==
  ASSUME NEW p, ParserInv(p), p.errors \in Nat, p.state \in DOMAIN Sections, NEW line
  PROVE  Innocent(p, line, SectionLine(p, line))
  <1> DEFINE field == Spelled(line.token)
             value == Argument(line, field)
             i == p.index
             own == p.pointer[Of(p.state)]
             entry == [p.table EXCEPT ![i] = Entry(@, p.state, field, value)]
             bad == field # "FILE" /\ TooLarge(field, line.val)
             table == [entry EXCEPT ![own].dev = Own(@, p.state, field, value)]
             q == [p EXCEPT !.table = table, !.errors = IF bad THEN @ + 1 ELSE @]
  <1>1. CASE p.state = "AMIGO_HEADER" /\ field = "DRIVE"
    <2>1. SectionLine(p, line) = p
      BY <1>1 DEF SectionLine
    <2>2. line.token \notin DOMAIN Openings
      <3>1. line.token = "DRIVE"
        BY <1>1 DEF Spelled
      <3>2. QED
        BY <3>1 DEF Openings
    <2>3. Passes(p, line, p)
      BY <1>1, <2>2, TokensApart DEF Passes
    <2>4. QED
      BY <2>1, <2>3 DEF Innocent
  <1>2. CASE /\ ~(p.state = "AMIGO_HEADER" /\ field = "DRIVE")
             /\ field \notin Sections[p.state]
    BY <1>2, WrongCounts DEF SectionLine, ParserInv
  <1>3. CASE /\ ~(p.state = "AMIGO_HEADER" /\ field = "DRIVE")
             /\ field \in Sections[p.state]
    <2>1. i \in Slots /\ own = i
      BY StatesApart DEF ParserInv, Described, DeviceOf
    <2>2. DOMAIN p.table = Slots /\ DeviceFields \subseteq DOMAIN p.table[i]
      BY <2>1 DEF ParserInv, ParserTypes, Tabled
    <2>3. SectionLine(p, line) = q
      BY <1>3 DEF SectionLine, Argument
    <2>4. line.token \notin DOMAIN Openings
      <3>1. field \in AllFields
        BY <1>3 DEF AllFields
      <3>2. QED
        BY <3>1, TokensApart
    <2> HIDE DEF field, value, bad
    <2>5. /\ DOMAIN entry = Slots /\ entry[i] = Entry(p.table[i], p.state, field, value)
          /\ \A j \in Slots : j # i => entry[j] = p.table[j]
      BY <2>1, <2>2
    <2>6. /\ DeviceFields \subseteq DOMAIN entry[i] /\ entry[i].TYPE = p.table[i].TYPE
          /\ entry[i].ADDRESS = IF field = "ADDRESS" THEN value ELSE p.table[i].ADDRESS
          /\ entry[i].dev = p.table[i].dev
      <3> DEFINE d == p.table[i]
                 e == Entry(d, p.state, field, value)
      <3>1. CASE field = "ADDRESS"
        <4>1. e = [d EXCEPT !.ADDRESS = value,
                            !.PPR = IF p.state = "PRINTER_CONFIG" THEN 255 ELSE @]
          BY <3>1 DEF Entry
        <4> HIDE DEF e, d
        <4>2. DeviceFields \subseteq DOMAIN d
          BY <2>2 DEF d
        <4>3. QED
          BY <2>5, <3>1, <4>1, <4>2 DEF DeviceFields, d, e
      <3>2. CASE field = "PPR"
        <4>1. e = [d EXCEPT !.PPR = value]
          BY <3>2 DEF Entry
        <4> HIDE DEF e, d
        <4>2. DeviceFields \subseteq DOMAIN d
          BY <2>2 DEF d
        <4>3. QED
          BY <2>5, <3>2, <4>1, <4>2 DEF DeviceFields, d, e
      <3>3. CASE field \notin {"ADDRESS", "PPR"}
        <4>1. e = d
          BY <3>3 DEF Entry
        <4>2. QED
          BY <2>2, <2>5, <3>3, <4>1
      <3>4. QED
        BY <3>1, <3>2, <3>3
    <2> HIDE DEF entry
    <2>7. /\ table[i].TYPE = entry[i].TYPE /\ table[i].ADDRESS = entry[i].ADDRESS
          /\ table[i].dev = Own(entry[i].dev, p.state, field, value)
          /\ \A j \in Slots : j # i => table[j] = entry[j]
      BY <2>1, <2>5, <2>6 DEF DeviceFields
    <2> HIDE DEF table
    <2>8. /\ q.table = table /\ q.state = p.state /\ q.index = i
          /\ q.errors = IF bad THEN p.errors + 1 ELSE p.errors
      BY DEF ParserInv, ParserTypes
    <2> HIDE DEF q
    <2>9. SetsField(p, line, q)
      <3>1. \A j \in Slots : j # i => q.table[j] = p.table[j]
        BY <2>5, <2>7, <2>8
      <3>2. q.table[i].TYPE = p.table[i].TYPE
        BY <2>6, <2>7, <2>8
      <3>3. q.table[i].dev = Own(p.table[i].dev, p.state, field, value)
        BY <2>6, <2>7, <2>8
      <3>4. q.table[i].ADDRESS = IF field = "ADDRESS" THEN value ELSE p.table[i].ADDRESS
        BY <2>6, <2>7, <2>8
      <3>5. QED
        BY <1>3, <2>4, <2>8, <3>1, <3>2, <3>3, <3>4 DEF SetsField, field, value
    <2>10. q.errors \in Nat /\ (q.errors = 0 => p.errors = 0)
      BY <2>8
    <2>11. QED
      BY <2>3, <2>9, <2>10 DEF Innocent
  <1>4. QED
    BY <1>1, <1>2, <1>3

LEMMA LineIsInnocent ==
  ASSUME NEW p, ParserInv(p), p.errors \in Nat, NEW line
  PROVE  Innocent(p, line, ParseLine(p, line))
  <1>1. p.state = "START_STATE" \/ p.state \in DOMAIN Parts \/ p.state \in DOMAIN Sections
    BY DEF ParserInv, ParserTypes, States
  <1>2. CASE line.token = "END"
    BY <1>2, EndIsInnocent DEF ParseLine
  <1>3. CASE line.token # "END" /\ p.state = "START_STATE"
    BY <1>3, StatesApart, StartIsInnocent DEF ParseLine
  <1>4. CASE line.token # "END" /\ p.state \in DOMAIN Parts
    BY <1>4, StatesApart, DeviceIsInnocent DEF ParseLine
  <1>5. CASE line.token # "END" /\ p.state \in DOMAIN Sections
    BY <1>5, StatesApart, SectionIsInnocent DEF ParseLine
  <1>6. QED
    BY <1>1, <1>2, <1>3, <1>4, <1>5

(***************************************************************************)
(* What line n + 1 says, and of which device.                              *)
(***************************************************************************)
LEMMA AboutLast ==
  ASSUME text \in Texts, NEW n \in Nat, n < Len(text), NEW k \in Begun(n)
  PROVE  /\ n + 1 \in Begins => n + 1 \notin About(k)
         /\ n + 1 \notin Begins => (n + 1 \in About(k) <=> \A b \in Begun(n) : b <= k)
  <1>1. Begins \subseteq 1 .. Len(text) /\ Len(text) \in Nat /\ k \in Begins /\ k <= n
    BY TextLines DEF Begun
  <1>2. k \in Nat /\ n + 1 \in k + 1 .. Len(text)
    BY <1>1
  <1>3. n + 1 \in About(k) <=> ~\E b \in Begins : k < b /\ b <= n + 1
    BY <1>2 DEF About
  <1>4. CASE n + 1 \in Begins
    BY <1>1, <1>2, <1>3, <1>4
  <1>5. CASE n + 1 \notin Begins
    <2>1. \A b \in Begins : b \in Nat /\ (b <= n + 1 <=> b <= n)
      <3> TAKE b \in Begins
      <3>1. b \in Nat /\ b # n + 1
        BY <1>1, <1>5
      <3>2. QED
        BY <3>1
    <2>2. \A b \in Begins : (k < b) <=> ~(b <= k)
      BY <1>2, <2>1
    <2>3. (\E b \in Begins : k < b /\ b <= n + 1) <=> \E b \in Begun(n) : ~(b <= k)
      BY <2>1, <2>2 DEF Begun
    <2>4. QED
      BY <1>3, <1>5, <2>3
  <1>6. QED
    BY <1>4, <1>5

LEMMA SeenMore ==
  ASSUME text \in Texts, NEW n \in Nat, n < Len(text), NEW k, NEW f
  PROVE  /\ n + 1 \notin On(k, f) => Seen(k, f, n + 1) = Seen(k, f, n)
         /\ n + 1 \in On(k, f) => /\ Seen(k, f, n + 1) # {}
                                  /\ Latest(k, f, n + 1) = Argument(text[n + 1], f)
  <1> DEFINE S == Seen(k, f, n + 1)
  <1>1. On(k, f) \subseteq Int
    BY DEF On, About
  <1>2. \A j \in On(k, f) : j <= n + 1 <=> j <= n \/ j = n + 1
    <2> TAKE j \in On(k, f)
    <2>1. j \in Int
      BY <1>1
    <2>2. QED
      BY <2>1
  <1>3. n + 1 \notin On(k, f) => S = Seen(k, f, n)
    BY <1>2 DEF Seen
  <1>4. ASSUME n + 1 \in On(k, f)
        PROVE  S # {} /\ Latest(k, f, n + 1) = Argument(text[n + 1], f)
    <2>1. S \subseteq Int /\ n + 1 \in S /\ \A j \in S : j <= n + 1
      BY <1>1, <1>4 DEF Seen
    <2>2. Max(S) = n + 1
      <3> HIDE DEF S
      <3> QED
        BY <2>1, Greatest
    <2>3. QED
      BY <2>1, <2>2 DEF Latest
  <1>5. QED
    BY <1>3, <1>4

LEMMA FieldsAreFields ==
  ASSUME NEW k \in Begins
  PROVE  Fields(k) \subseteq AllFields
  <1>1. StateOf(TypeOf(k)) \in DOMAIN Parts
    BY TheOpenings DEF Begins, TypeOf
  <1>2. PartsOf(StateOf(TypeOf(k))) \subseteq DOMAIN Sections
    BY <1>1, PartIsSection DEF PartsOf
  <1>3. QED
    BY <1>2 DEF Fields, AllFields

(* Nothing more has been said of this device.                              *)
LEMMA InPlaceStays ==
  ASSUME text \in Texts, NEW n \in Nat, n < Len(text), NEW k \in Begun(n), NEW device,
         InPlace(device, k, n), \A f \in AllFields : n + 1 \notin On(k, f)
  PROVE  InPlace(device, k, n + 1)
  <1>1. Fields(k) \subseteq AllFields
    BY FieldsAreFields DEF Begun
  <1>2. "ADDRESS" \in AllFields
    BY TheFields
  <1>3. \A f \in AllFields : Seen(k, f, n + 1) = Seen(k, f, n)
    BY SeenMore
  <1>4. \A f \in AllFields : Latest(k, f, n + 1) = Latest(k, f, n)
    BY <1>3 DEF Latest
  <1>5. QED
    BY <1>1, <1>2, <1>3, <1>4 DEF InPlace

(* A device that is being described is the last begun, and has a slot.     *)
LEMMA Describing ==
  ASSUME text \in Texts, NEW n \in Nat, NEW p, ParserInv(p), Written(p, n),
         NEW k \in Begun(n), \A b \in Begun(n) : b <= k, p.state # "START_STATE"
  PROVE  p.index = Place(k) /\ Place(k) \in Slots
  <1>1. p.index \in Slots
    BY DEF ParserInv, Described
  <1>2. PICK c \in Begun(n) : p.index = Place(c) /\ \A b \in Begun(n) : b <= c
    BY DEF Written
  <1>3. c \in Int /\ k \in Int /\ c <= k /\ k <= c
    BY <1>2, TextLines DEF Begun
  <1>4. c = k
    BY <1>3
  <1>5. QED
    BY <1>1, <1>2, <1>4

LEMMA PassKeeps ==
  ASSUME text \in Texts, NEW n \in Nat, n < Len(text), NEW p, ParserInv(p), Written(p, n),
         NEW q, Passes(p, text[n + 1], q)
  PROVE  Written(q, n + 1)
  <1>1. n + 1 \notin Begins /\ Begun(n + 1) = Begun(n)
    BY OneMoreLine DEF Passes, Begins
  <1>2. \A k, f : f \in AllFields => n + 1 \notin On(k, f)
    BY DEF On, Passes
  <1>3. ASSUME NEW i \in Slots, q.table[i].TYPE # "NO_TYPE"
        PROVE  \E k \in Begun(n + 1) : Place(k) = i
    BY <1>1, <1>3 DEF Passes, Written
  <1>4. ASSUME NEW k \in Begun(n + 1), Place(k) \in Slots
        PROVE  InPlace(q.table[Place(k)], k, n + 1)
    <2>1. k \in Begun(n) /\ InPlace(p.table[Place(k)], k, n)
      BY <1>1, <1>4 DEF Written
    <2>2. QED
      BY <1>2, <2>1, InPlaceStays DEF Passes
  <1>5. ASSUME NEW k \in Begun(n + 1), Place(k) \notin Slots,
               NEW j \in About(k), j <= n + 1
        PROVE  text[j].token \in Idle
    <2>1. k \in Begun(n) /\ j \in Int
      BY <1>1 DEF About
    <2>2. CASE j <= n
      BY <1>5, <2>1, <2>2 DEF Written
    <2>3. CASE j = n + 1
      <3>1. \A b \in Begun(n) : b <= k
        BY <1>1, <1>5, <2>1, <2>3, AboutLast
      <3>2. p.state = "START_STATE"
        BY <1>5, <2>1, <3>1, Describing
      <3>3. QED
        BY <2>3, <3>2 DEF Passes
    <2>4. QED
      BY <1>5, <2>1, <2>2, <2>3
  <1>6. ASSUME q.state # "START_STATE"
        PROVE  \E k \in Begun(n + 1) : q.index = Place(k) /\ \A b \in Begun(n + 1) : b <= k
    BY <1>1, <1>6 DEF Passes, Written
  <1>7. QED
    BY <1>3, <1>4, <1>5, <1>6 DEF Written

LEMMA FieldKeeps ==
  ASSUME text \in Texts, NEW n \in Nat, n < Len(text), NEW p, ParserInv(p), Written(p, n),
         NEW q, SetsField(p, text[n + 1], q)
  PROVE  Written(q, n + 1)
  <1> DEFINE line == text[n + 1]
             field == Spelled(line.token)
             i == p.index
  <1>1. n + 1 \notin Begins /\ Begun(n + 1) = Begun(n)
    BY OneMoreLine DEF SetsField, Begins
  <1>2. p.state # "START_STATE" /\ q.state = p.state /\ q.index = i /\ i \in Slots
    BY StatesApart DEF SetsField, ParserInv, Described
  <1>3. PICK k \in Begun(n) : i = Place(k) /\ \A b \in Begun(n) : b <= k
    BY <1>2 DEF Written
  <1>4. n + 1 \in About(k) /\ k \in Begins
    BY <1>1, <1>3, AboutLast DEF Begun
  <1>5. \A f : n + 1 \in On(k, f) <=> f = field
    BY <1>4 DEF On
  <1>6. ASSUME NEW c \in Begun(n), c # k
        PROVE  /\ Place(c) # i
               /\ n + 1 \notin About(c)
               /\ \A f : n + 1 \notin On(c, f)
    <2>1. Place(c) # i
      BY <1>3, <1>6, Places DEF Begun
    <2>2. c \in Int /\ k \in Int /\ c <= k
      BY <1>3, TextLines DEF Begun
    <2>3. ~(k <= c)
      BY <1>6, <2>2
    <2>4. n + 1 \notin About(c)
      BY <1>1, <2>3, AboutLast
    <2>5. QED
      BY <2>1, <2>4 DEF On
  <1>7. InPlace(p.table[i], k, n)
    BY <1>2, <1>3 DEF Written
  <1>8. ASSUME NEW j \in Slots, q.table[j].TYPE # "NO_TYPE"
        PROVE  \E c \in Begun(n + 1) : Place(c) = j
    <2>1. q.table[j].TYPE = p.table[j].TYPE
      BY DEF SetsField
    <2>2. QED
      BY <1>1, <1>8, <2>1 DEF Written
  <1>9. InPlace(q.table[i], k, n + 1)
    <2> DEFINE old == p.table[i]
               new == q.table[i]
               value == Argument(line, field)
    <2>1. /\ new.TYPE = old.TYPE
          /\ new.dev = Own(old.dev, p.state, field, value)
          /\ new.ADDRESS = IF field = "ADDRESS" THEN value ELSE old.ADDRESS
      BY DEF SetsField
    <2>2. /\ old.TYPE = TypeOf(k) /\ DOMAIN old.dev = FieldsOf(TypeOf(k))
          /\ \A f \in Fields(k) : old.dev[f] = IF Seen(k, f, n) = {} THEN Given(k, f)
                                               ELSE Latest(k, f, n)
          /\ old.ADDRESS = IF Seen(k, "ADDRESS", n) = {} THEN 0 ELSE Latest(k, "ADDRESS", n)
      BY <1>7 DEF InPlace
    <2>3. /\ Seen(k, field, n + 1) # {} /\ Latest(k, field, n + 1) = value
          /\ \A f : f # field => /\ Seen(k, f, n + 1) = Seen(k, f, n)
                                 /\ Latest(k, f, n + 1) = Latest(k, f, n)
      <3>1. Seen(k, field, n + 1) # {} /\ Latest(k, field, n + 1) = value
        BY <1>5, SeenMore
      <3>2. \A f : f # field => Seen(k, f, n + 1) = Seen(k, f, n)
        BY <1>5, SeenMore
      <3>3. QED
        BY <3>1, <3>2 DEF Latest
    <2>4. Fields(k) \subseteq DOMAIN old.dev
      BY <2>2 DEF Fields, FieldsOf
    <2>5. p.state = "PRINTER_CONFIG" => "PPR" \notin Fields(k)
      <3> SUFFICES ASSUME p.state = "PRINTER_CONFIG" PROVE "PPR" \notin Fields(k)
        OBVIOUS
      <3>1. DeviceOf(p.state) = "PRINTER_STATE"
        BY TheParts, TheSections, OneOwner, StatesApart DEF DeviceOf
      <3>2. StateOf(p.table[i].TYPE) = "PRINTER_STATE"
        BY <1>2, <3>1 DEF ParserInv, Described
      <3>3. Fields(k) = {"ADDRESS"}
        <4>1. Fields(k) = UNION {Sections[s] : s \in {"PRINTER_CONFIG"}}
          BY <2>2, <3>2, TheParts DEF Fields
        <4>2. Sections["PRINTER_CONFIG"] = {"ADDRESS"}
          BY DEF Sections
        <4>3. QED
          BY <4>1, <4>2
      <3>4. QED
        BY <3>3
    <2> HIDE DEF new, old, value, field
    <2>6. DOMAIN new.dev = DOMAIN old.dev
      BY <2>1 DEF Own
    <2>7. \A f \in Fields(k) : new.dev[f] = IF f = field THEN value ELSE old.dev[f]
      BY <2>1, <2>4, <2>5 DEF Own
    <2>8. \A f \in Fields(k) : new.dev[f] = IF Seen(k, f, n + 1) = {} THEN Given(k, f)
                                            ELSE Latest(k, f, n + 1)
      BY <2>2, <2>3, <2>7
    <2>9. new.ADDRESS = IF Seen(k, "ADDRESS", n + 1) = {} THEN 0
                        ELSE Latest(k, "ADDRESS", n + 1)
      BY <2>1, <2>2, <2>3
    <2>10. InPlace(new, k, n + 1)
      BY <2>1, <2>2, <2>6, <2>8, <2>9 DEF InPlace
    <2>11. QED
      BY <2>10 DEF new
  <1>10. ASSUME NEW c \in Begun(n + 1), Place(c) \in Slots
         PROVE  InPlace(q.table[Place(c)], c, n + 1)
    <2>1. CASE c = k
      BY <1>3, <1>9, <2>1
    <2>2. CASE c # k
      <3>1. c \in Begun(n) /\ InPlace(p.table[Place(c)], c, n)
        BY <1>1, <1>10 DEF Written
      <3>2. q.table[Place(c)] = p.table[Place(c)]
        BY <1>6, <1>10, <2>2, <3>1 DEF SetsField
      <3>3. QED
        BY <1>6, <2>2, <3>1, <3>2, InPlaceStays
    <2>3. QED
      BY <2>1, <2>2
  <1>11. ASSUME NEW c \in Begun(n + 1), Place(c) \notin Slots,
                NEW j \in About(c), j <= n + 1
         PROVE  text[j].token \in Idle
    <2>1. c \in Begun(n) /\ c # k /\ j \in Int /\ j # n + 1
      BY <1>1, <1>2, <1>3, <1>6, <1>11 DEF About
    <2>2. j <= n
      BY <1>11, <2>1
    <2>3. QED
      BY <1>11, <2>1, <2>2 DEF Written
  <1>12. \E c \in Begun(n + 1) : q.index = Place(c) /\ \A b \in Begun(n + 1) : b <= c
    BY <1>1, <1>2, <1>3
  <1>13. QED
    BY <1>8, <1>10, <1>11, <1>12 DEF Written

(***************************************************************************)
(* A line that opens a device.                                             *)
(***************************************************************************)
LEMMA NextSlot ==
  ASSUME text \in Texts, NEW n \in Nat, n < Len(text), NEW p, Written(p, n), AllPlaces(n),
         n + 1 \in Begins
  PROVE  find_type(p.table, "NO_TYPE") = IF Place(n + 1) \in Slots THEN Place(n + 1) ELSE 0
  <1> DEFINE c == Cardinality(Begun(n))
             S == {i \in Slots : p.table[i].TYPE = "NO_TYPE"}
  <1>1. c \in Nat /\ Place(n + 1) = c + 1
    BY OneMoreLine
  <1>2. ASSUME NEW i \in S PROVE i \in Nat /\ i >= c + 1
    <2>1. i \in Slots /\ i \in Nat /\ i >= 1
      BY DEF Slots
    <2>2. SUFFICES ASSUME i \in 1 .. c PROVE FALSE
      BY <1>1, <2>1
    <2>3. PICK k \in Begun(n) : Place(k) = i
      BY <2>2 DEF AllPlaces
    <2>4. p.table[i].TYPE = TypeOf(k) /\ k \in Begins
      BY <2>1, <2>3 DEF Written, InPlace, Begun
    <2>5. TypeOf(k) # "NO_TYPE"
      BY <2>4, TheOpenings DEF Begins, TypeOf
    <2>6. QED
      BY <2>4, <2>5
  <1>3. ASSUME c + 1 \in Slots PROVE c + 1 \in S
    <2>1. SUFFICES ASSUME NEW k \in Begun(n), Place(k) = c + 1 PROVE FALSE
      BY <1>3 DEF Written
    <2>2. k \in Begins /\ k # n + 1
      BY DEF Begun
    <2>3. QED
      BY <1>1, <2>1, <2>2, Places
  <1>4. CASE c + 1 \in Slots
    <2>1. S \subseteq Int /\ c + 1 \in S /\ \A i \in S : c + 1 <= i
      BY <1>1, <1>2, <1>3, <1>4
    <2>2. Min(S) = c + 1 /\ S # {}
      <3> HIDE DEF S, c
      <3> QED
        BY <2>1, Smallest
    <2>3. QED
      BY <1>1, <1>4, <2>2 DEF find_type, First
  <1>5. CASE c + 1 \notin Slots
    <2>1. S = {}
      <3> SUFFICES ASSUME NEW i \in S PROVE FALSE
        OBVIOUS
      <3>1. i \in Slots /\ i \in Nat /\ i >= c + 1
        BY <1>2
      <3>2. QED
        BY <1>1, <1>5, <3>1, DrivesAssumption DEF Slots
    <2>2. QED
      BY <1>1, <1>5, <2>1 DEF find_type, First
  <1>6. QED
    BY <1>4, <1>5

(* The slot of the default is the first default's before it.               *)
LEMMA FirstDefault ==
  ASSUME text \in Texts, NEW n \in Nat, n < Len(text), NEW p, Written(p, n),
         n + 1 \in Begins, Place(n + 1) \in Slots
  PROVE  LET D == {j \in Before(n + 1) : text[j].token = "SS80_DEFAULT"}
             d == find_type(p.table, "SS80_DEFAULT_TYPE")
         IN  /\ D = {} => d = 0
             /\ D # {} => /\ Min(D) \in Begun(n) /\ text[Min(D)].token = "SS80_DEFAULT"
                          /\ d = Place(Min(D)) /\ d \in Slots
  <1> DEFINE D == {j \in Before(n + 1) : text[j].token = "SS80_DEFAULT"}
             S == {i \in Slots : p.table[i].TYPE = "SS80_DEFAULT_TYPE"}
  <1>0. Begins \subseteq Nat
    BY TextLines
  <1>1. Before(n + 1) = Begun(n) /\ Begun(n) \subseteq Begins /\ Begins \subseteq Nat
    BY <1>0, OneMoreLine DEF Begun
  <1>2. \A k \in Begins : TypeOf(k) = "SS80_DEFAULT_TYPE" <=> text[k].token = "SS80_DEFAULT"
    BY DEF Begins, TypeOf, Openings
  <1>3. ASSUME NEW k \in Begun(n) PROVE Place(k) \in Slots /\ p.table[Place(k)].TYPE = TypeOf(k)
    <2>1. k < n + 1 /\ k \in Begins
      BY <1>1 DEF Begun
    <2>2. Place(k) < Place(n + 1) /\ Place(k) \in Nat /\ Place(k) >= 1
      BY <2>1, Places
    <2>3. Place(n + 1) \in Nat
      BY Places
    <2>4. Place(k) \in Slots
      BY <2>2, <2>3, DrivesAssumption DEF Slots
    <2>5. QED
      BY <2>4 DEF Written, InPlace
  <1>4. ASSUME NEW j \in D PROVE Place(j) \in S
    BY <1>1, <1>2, <1>3
  <1>5. ASSUME NEW i \in S PROVE \E j \in D : Place(j) = i
    <2>1. PICK k \in Begun(n) : Place(k) = i
      BY DEF Written
    <2>2. TypeOf(k) = "SS80_DEFAULT_TYPE"
      BY <1>3, <2>1
    <2>3. QED
      BY <1>1, <1>2, <2>1, <2>2
  <1>6. CASE D = {}
    <2>1. S = {}
      BY <1>5, <1>6
    <2>2. QED
      BY <1>6, <2>1 DEF find_type, First
  <1>7. CASE D # {}
    <2> DEFINE m == Min(D)
    <2>1. m \in D /\ \A j \in D : m <= j
      <3>1. D \subseteq Nat
        BY <1>1
      <3> HIDE DEF D
      <3>2. QED
        BY <1>7, <3>1, Least
    <2>2. m \in Begun(n) /\ text[m].token = "SS80_DEFAULT" /\ m \in Begins
      BY <1>1, <2>1
    <2> HIDE DEF m
    <2>3. Place(m) \in S /\ S \subseteq Int
      BY <1>4, <2>1 DEF Slots
    <2>4. ASSUME NEW i \in S PROVE Place(m) <= i
      <3>1. PICK j \in D : Place(j) = i
        BY <1>5
      <3>2. j \in Begins /\ j \in Nat /\ m \in Nat /\ m <= j
        BY <1>1, <2>1, <2>2
      <3>3. m = j \/ m < j
        BY <3>2
      <3>4. QED
        BY <2>2, <3>1, <3>2, <3>3, Places
    <2>5. Min(S) = Place(m) /\ S # {}
      <3> HIDE DEF S
      <3> QED
        BY <2>3, <2>4, Smallest
    <2>6. find_type(p.table, "SS80_DEFAULT_TYPE") = Place(m)
      BY <2>5 DEF find_type, First
    <2>7. QED
      BY <1>7, <2>2, <2>3, <2>6 DEF m
  <1>8. QED
    BY <1>6, <1>7

(* What alloc_device gives a field: the default's or nothing.              *)
LEMMA NewFields ==
  ASSUME text \in Texts, NEW n \in Nat, n < Len(text), NEW p, Written(p, n),
         n + 1 \in Begins, Place(n + 1) \in Slots
  PROVE  LET k == n + 1
             device == Allocated(p.table, TypeOf(k))
         IN  /\ device.TYPE = TypeOf(k) /\ device.ADDRESS = 0
             /\ {"TYPE", "ADDRESS", "BLOCKS", "model", "dev"} \subseteq DOMAIN device
             /\ DOMAIN device.dev = FieldsOf(TypeOf(k))
             /\ \A f \in Fields(k) :
                  device.dev[f] = IF HasDefault(k, f) THEN Default(k, f) ELSE Zeroed(TypeOf(k))[f]
  <1> DEFINE k == n + 1
             type == TypeOf(k)
             device == Allocated(p.table, type)
             D == {j \in Before(k) : text[j].token = "SS80_DEFAULT"}
             d == find_type(p.table, "SS80_DEFAULT_TYPE")
  <1>1. /\ device.TYPE = type /\ device.ADDRESS = 0
        /\ {"TYPE", "ADDRESS", "BLOCKS", "model", "dev"} \subseteq DOMAIN device
        /\ device.dev = IF type = "SS80_TYPE" THEN Defaulted(p.table, Zeroed(type))
                        ELSE Zeroed(type)
    <2> HIDE DEF type
    <2> QED
      BY DEF Allocated, NoDevice, device
  <1>2. DOMAIN Zeroed(type) = FieldsOf(type) /\ Fields(k) \subseteq FieldsOf(type)
    BY DEF Zeroed, FieldsOf, Fields
  <1> HIDE DEF device
  <1>3. DOMAIN Defaulted(p.table, Zeroed(type)) = FieldsOf(type)
    BY <1>2 DEF Defaulted
  <1>4. DOMAIN device.dev = FieldsOf(type)
    BY <1>1, <1>2, <1>3
  <1>5. ASSUME NEW f \in Fields(k)
        PROVE  device.dev[f] = IF HasDefault(k, f) THEN Default(k, f) ELSE Zeroed(type)[f]
    <2>1. CASE type # "SS80_TYPE"
      BY <1>1, <2>1 DEF HasDefault
    <2>2. CASE type = "SS80_TYPE" /\ D = {}
      <3>1. d = 0
        BY <2>2, FirstDefault
      <3>2. Defaulted(p.table, Zeroed(type)) = Zeroed(type)
        BY <3>1 DEF Defaulted
      <3>3. ~HasDefault(k, f)
        BY <2>2 DEF HasDefault
      <3>4. QED
        BY <1>1, <2>2, <3>2, <3>3
    <2>3. CASE type = "SS80_TYPE" /\ D # {}
      <3> DEFINE m == Min(D)
      <3>1. /\ m \in Begun(n) /\ text[m].token = "SS80_DEFAULT"
            /\ d = Place(m) /\ d \in Slots
        BY <2>3, FirstDefault
      <3>2. d # 0
        BY <3>1 DEF Slots
      <3>3. device.dev[f] = IF f \in NotDefaulted THEN Zeroed(type)[f] ELSE p.table[d].dev[f]
        BY <1>1, <1>2, <2>3, <3>2 DEF Defaulted
      <3>4. HasDefault(k, f) <=> f \notin NotDefaulted
        BY <2>3 DEF HasDefault
      <3>5. ASSUME f \notin NotDefaulted PROVE p.table[d].dev[f] = Default(k, f)
        <4>1. TypeOf(m) = "SS80_DEFAULT_TYPE"
          BY <3>1 DEF TypeOf, Openings
        <4>2. Fields(m) = Fields(k) /\ FieldsOf(TypeOf(m)) = FieldsOf(type)
          BY <2>3, <4>1 DEF Fields, FieldsOf, StateOf
        <4>3. InPlace(p.table[d], m, n)
          BY <3>1 DEF Written
        <4>4. p.table[d].dev[f] = IF Seen(m, f, n) = {} THEN Given(m, f) ELSE Latest(m, f, n)
          BY <4>2, <4>3 DEF InPlace
        <4>5. Seen(m, f, n) = On(m, f)
          <5>1. m < k /\ k \in Nat /\ m \in Nat
            BY <3>1, TextLines DEF Begun
          <5>2. ASSUME NEW j \in About(m) PROVE j <= n
            <6> HIDE DEF m
            <6>1. j \in Int /\ ~\E b \in Begins : m < b /\ b <= j
              BY DEF About
            <6>2. ~(m < n + 1 /\ n + 1 <= j)
              BY <6>1
            <6>3. QED
              BY <5>1, <6>1, <6>2
          <5>3. \A j \in About(m) : j <= n
            BY <5>2
          <5>4. QED
            BY <5>3 DEF Seen, On
        <4>6. Given(m, f) = Zeroed("SS80_TYPE")[f]
          <5>1. ~IsModel(TypeOf(m), text[m].name) /\ ~HasDefault(m, f)
            BY <4>1 DEF IsModel, HasDefault
          <5>2. Given(m, f) = Zeroed(TypeOf(m))[f]
            BY <5>1 DEF Given
          <5>3. Zeroed(TypeOf(m)) = Zeroed("SS80_TYPE")
            BY <2>3, <4>2 DEF Zeroed
          <5>4. QED
            BY <5>2, <5>3
        <4>7. Latest(m, f, n) = Value(m, f)
          BY <4>5 DEF Latest, Value, Argument
        <4>8. Default(k, f) = IF On(m, f) # {} THEN Value(m, f) ELSE Zeroed("SS80_TYPE")[f]
          BY DEF Default
        <4>9. QED
          BY <4>4, <4>5, <4>6, <4>7, <4>8
      <3>6. QED
        BY <3>3, <3>4, <3>5
    <2>4. QED
      BY <2>1, <2>2, <2>3
  <1>6. QED
    BY <1>1, <1>4, <1>5 DEF device

(* With its model, the new device is as the text says so far.              *)
LEMMA NewInPlace ==
  ASSUME text \in Texts, NEW n \in Nat, n < Len(text), NEW p, Written(p, n),
         n + 1 \in Begins, Place(n + 1) \in Slots
  PROVE  InPlace(WithModel(Allocated(p.table, TypeOf(n + 1)), text[n + 1].name), n + 1, n + 1)
  <1> DEFINE k == n + 1
             type == TypeOf(k)
             model == text[k].name
             bare == Allocated(p.table, type)
             device == WithModel(bare, model)
             h == Hpdir[hpdir_find_drive(model)]
             set == ModelFields(type, h)
  <1>1. /\ bare.TYPE = type /\ bare.ADDRESS = 0
        /\ {"TYPE", "ADDRESS", "BLOCKS", "model", "dev"} \subseteq DOMAIN bare
        /\ DOMAIN bare.dev = FieldsOf(type)
        /\ \A f \in Fields(k) :
             bare.dev[f] = IF HasDefault(k, f) THEN Default(k, f) ELSE Zeroed(type)[f]
    BY NewFields
  <1>2. Fields(k) \subseteq FieldsOf(type)
    BY DEF FieldsOf, Fields
  <1>3. \A f : Seen(k, f, k) = {}
    BY DEF Seen, On, About
  <1>4. /\ device.TYPE = type /\ device.ADDRESS = 0 /\ DOMAIN device.dev = FieldsOf(type)
        /\ \A f \in Fields(k) : device.dev[f] = Given(k, f)
    <2> HIDE DEF bare
    <2>1. CASE ~IsModel(type, model)
      <3>1. device = bare
        BY <1>1, <2>1 DEF WithModel
      <3>2. QED
        BY <1>1, <2>1, <3>1 DEF Given
    <2>2. CASE IsModel(type, model)
      <3> DEFINE dev == [f \in DOMAIN bare.dev |-> IF f \in DOMAIN set THEN set[f] ELSE bare.dev[f]]
      <3>1. device = [bare EXCEPT !.BLOCKS = Blocks(h), !.model = model, !.dev = dev]
        BY <1>1, <2>2 DEF WithModel
      <3> HIDE DEF device, dev
      <3>2. device.TYPE = type /\ device.ADDRESS = 0 /\ device.dev = dev
        BY <1>1, <3>1
      <3>3. DOMAIN dev = FieldsOf(type)
        BY <1>1 DEF dev
      <3>4. \A f \in Fields(k) : dev[f] = IF f \in DOMAIN set THEN set[f] ELSE bare.dev[f]
        BY <1>1, <1>2 DEF dev
      <3>5. \A f \in Fields(k) : dev[f] = Given(k, f)
        BY <1>1, <2>2, <3>4 DEF Given
      <3>6. QED
        BY <3>2, <3>3, <3>5
    <2>3. QED
      BY <2>1, <2>2
  <1> HIDE DEF device
  <1>5. InPlace(device, k, k)
    BY <1>3, <1>4 DEF InPlace
  <1>6. QED
    BY <1>5 DEF device

LEMMA OpenKeeps ==
  ASSUME text \in Texts, NEW n \in Nat, n < Len(text), NEW p, ParserInv(p), Written(p, n),
         AllPlaces(n), NEW q, Opens(p, text[n + 1], q)
  PROVE  Written(q, n + 1)
  <1> DEFINE k == n + 1
             free == find_type(p.table, "NO_TYPE")
             new == WithModel(Allocated(p.table, TypeOf(k)), text[k].name)
  <1>1. k \in Begins /\ Begun(k) = Begun(n) \cup {k}
    <2>1. k \in Begins
      BY DEF Opens, Begins
    <2>2. QED
      BY <2>1, OneMoreLine
  <1>2. free = IF Place(k) \in Slots THEN Place(k) ELSE 0
    BY <1>1, NextSlot
  <1>3. 0 \notin Slots
    BY DEF Slots
  <1>4. /\ Place(k) \notin Slots => q.table = p.table /\ q.state = "START_STATE"
        /\ Place(k) \in Slots => /\ q.index = Place(k)
                                 /\ q.table = [p.table EXCEPT ![Place(k)] = new]
    BY <1>2, <1>3 DEF Opens, TypeOf
  <1> HIDE DEF free, new
  <1>5. DOMAIN p.table = Slots
    BY DEF ParserInv, ParserTypes, Tabled
  <1>6. ASSUME NEW c \in Begun(n)
        PROVE  c # k /\ Place(c) # Place(k) /\ \A f : k \notin On(c, f)
    <2>1. c \in Begins /\ c # k
      BY DEF Begun
    <2>2. Place(c) # Place(k)
      BY <1>1, <2>1, Places
    <2>3. k \notin About(c)
      BY <1>1, AboutLast
    <2>4. QED
      BY <2>1, <2>2, <2>3 DEF On
  <1>7. ASSUME NEW i \in Slots, i # Place(k) PROVE q.table[i] = p.table[i]
    BY <1>4, <1>5, <1>7
  <1>8. ASSUME NEW i \in Slots, q.table[i].TYPE # "NO_TYPE"
        PROVE  \E c \in Begun(k) : Place(c) = i
    BY <1>1, <1>7, <1>8 DEF Written
  <1>9. ASSUME NEW c \in Begun(k), Place(c) \in Slots
        PROVE  InPlace(q.table[Place(c)], c, k)
    <2>1. CASE c = k
      <3>1. q.table[Place(k)] = new
        BY <1>4, <1>5, <1>9, <2>1
      <3>2. QED
        BY <1>1, <1>9, <2>1, <3>1, NewInPlace DEF new
    <2>2. CASE c # k
      <3>1. c \in Begun(n) /\ InPlace(p.table[Place(c)], c, n)
        BY <1>1, <1>9, <2>2 DEF Written
      <3>2. q.table[Place(c)] = p.table[Place(c)]
        BY <1>6, <1>7, <1>9, <3>1
      <3>3. QED
        BY <1>6, <3>1, <3>2, InPlaceStays
    <2>3. QED
      BY <2>1, <2>2
  <1>10. ASSUME NEW c \in Begun(k), Place(c) \notin Slots, NEW j \in About(c), j <= k
         PROVE  text[j].token \in Idle
    <2>1. c # k /\ c \in Begun(n) /\ j \in Int
      BY <1>1, <1>10 DEF About
    <2>2. j # k
      BY <1>1, <2>1, AboutLast
    <2>3. j <= n
      BY <1>10, <2>1, <2>2
    <2>4. QED
      BY <1>10, <2>1, <2>3 DEF Written
  <1>11. ASSUME q.state # "START_STATE"
         PROVE  \E c \in Begun(k) : q.index = Place(c) /\ \A b \in Begun(k) : b <= c
    <2>1. q.index = Place(k)
      BY <1>4, <1>11
    <2>2. \A b \in Begun(k) : b <= k
      BY DEF Begun
    <2>3. QED
      BY <1>1, <2>1, <2>2
  <1>12. QED
    BY <1>8, <1>9, <1>10, <1>11 DEF Written

LEMMA LineKeepsWritten ==
  ASSUME text \in Texts, NEW n \in Nat, n < Len(text), AllPlaces(n),
         NEW p, ParserInv(p), p.errors \in Nat, p.errors = 0 => Written(p, n)
  PROVE  LET q == ParseLine(p, text[n + 1])
         IN  q.errors \in Nat /\ (q.errors = 0 => Written(q, n + 1))
  <1> DEFINE q == ParseLine(p, text[n + 1])
  <1>1. Innocent(p, text[n + 1], q)
    BY LineIsInnocent
  <1> HIDE DEF q
  <1>2. q.errors \in Nat
    BY <1>1 DEF Innocent
  <1>3. ASSUME q.errors = 0 PROVE Written(q, n + 1)
    <2>1. /\ Written(p, n)
          /\ \/ Passes(p, text[n + 1], q)
             \/ Opens(p, text[n + 1], q)
             \/ SetsField(p, text[n + 1], q)
      BY <1>1, <1>3 DEF Innocent
    <2>2. CASE Passes(p, text[n + 1], q)
      BY <2>1, <2>2, PassKeeps
    <2>3. CASE Opens(p, text[n + 1], q)
      BY <2>1, <2>3, OpenKeeps
    <2>4. CASE SetsField(p, text[n + 1], q)
      BY <2>1, <2>4, FieldKeeps
    <2>5. QED
      BY <2>1, <2>2, <2>3, <2>4
  <1>4. QED
    BY <1>2, <1>3 DEF q

(***************************************************************************)
(* The whole text has been read: what Post_Config makes of the table.      *)
(***************************************************************************)
AsSaid(table) ==
  /\ \A i \in Slots : table[i].TYPE # "NO_TYPE" => \E k \in Begins : Place(k) = i
  /\ \A k \in Begins : Place(k) \in Slots =>
       /\ table[Place(k)].TYPE = TypeOf(k)
       /\ \A f \in Fields(k) : table[Place(k)].dev[f] = Said(k, f)
       /\ table[Place(k)].ADDRESS = AddressOf(k)
  /\ \A k \in Begins : Place(k) \notin Slots => \A j \in About(k) : text[j].token \in Idle

LEMMA AllRead ==
  ASSUME text \in Texts
  PROVE  /\ Begun(Len(text)) = Begins
         /\ \A k, f : Seen(k, f, Len(text)) = On(k, f)
  <1>1. Len(text) \in Nat /\ Begins \subseteq 1 .. Len(text)
    BY TextLines
  <1>2. ASSUME NEW k, NEW j \in About(k) PROVE j <= Len(text)
    BY <1>1 DEF About
  <1>3. ASSUME NEW k, NEW f PROVE Seen(k, f, Len(text)) = On(k, f)
    BY <1>2 DEF Seen, On
  <1>4. \A k \in Begins : k <= Len(text)
    BY <1>1
  <1>5. Begun(Len(text)) = Begins
    BY <1>4 DEF Begun
  <1>6. QED
    BY <1>3, <1>5

LEMMA SectorBytesOfAmigo ==
  ASSUME NEW k \in Begins, "BYTES_PER_SECTOR" \in Fields(k)
  PROVE  TypeOf(k) = "AMIGO_TYPE"
  <1>1. TypeOf(k) \in {"SS80_TYPE", "SS80_DEFAULT_TYPE", "AMIGO_TYPE", "PRINTER_TYPE"}
    BY DEF Begins, TypeOf, Openings
  <1>2. CASE TypeOf(k) \in {"SS80_TYPE", "SS80_DEFAULT_TYPE"}
    <2>1. Fields(k) = UNION {Sections[s] : s \in PartsOf("SS80_STATE")}
      BY <1>2 DEF Fields, StateOf
    <2>2. "BYTES_PER_SECTOR" \notin UNION {Sections[s] : s \in PartsOf("SS80_STATE")}
      BY TheParts DEF Sections
    <2>3. QED
      BY <2>1, <2>2
  <1>3. CASE TypeOf(k) = "PRINTER_TYPE"
    <2>1. Fields(k) = UNION {Sections[s] : s \in PartsOf("PRINTER_STATE")}
      BY <1>3 DEF Fields, StateOf
    <2>2. "BYTES_PER_SECTOR" \notin UNION {Sections[s] : s \in PartsOf("PRINTER_STATE")}
      BY TheParts DEF Sections
    <2>3. QED
      BY <2>1, <2>2
  <1>4. QED
    BY <1>1, <1>2, <1>3

LEMMA PostedAsSaid ==
  ASSUME text \in Texts, NEW p, ParserInv(p), Written(p, Len(text))
  PROVE  AsSaid([i \in Slots |-> Posted(p.table[i])])
  <1> DEFINE table == [i \in Slots |-> Posted(p.table[i])]
             n == Len(text)
  <1>1. \A i \in Slots : DeviceFields \subseteq DOMAIN p.table[i]
    BY DEF ParserInv, ParserTypes, Tabled
  <1>2. ASSUME NEW i \in Slots
        PROVE  /\ table[i].TYPE = p.table[i].TYPE /\ table[i].ADDRESS = p.table[i].ADDRESS
               /\ \A f \in DOMAIN p.table[i].dev :
                    table[i].dev[f] = IF p.table[i].TYPE = "AMIGO_TYPE" /\ f = "BYTES_PER_SECTOR"
                                        THEN 256 ELSE p.table[i].dev[f]
    <2> DEFINE old == p.table[i]
    <2>1. table[i] = Posted(old) /\ DeviceFields \subseteq DOMAIN old
      BY <1>1
    <2> HIDE DEF old, table
    <2>2. CASE old.TYPE = "SS80_TYPE"
      <3>1. table[i] = [old EXCEPT !.BLOCKS = old.dev["MAX_BLOCK_NUMBER"] + 1]
        BY <2>1, <2>2 DEF Posted
      <3>2. QED
        BY <2>1, <2>2, <3>1 DEF DeviceFields, old
    <2>3. CASE old.TYPE = "AMIGO_TYPE"
      <3>1. PICK b : table[i] = [old EXCEPT !.BLOCKS = b, !.dev["BYTES_PER_SECTOR"] = 256]
        BY <2>1, <2>3 DEF Posted
      <3>2. QED
        BY <2>1, <2>3, <3>1 DEF DeviceFields, old
    <2>4. CASE old.TYPE \notin {"SS80_TYPE", "AMIGO_TYPE"}
      <3>1. table[i] = old
        BY <2>1, <2>4 DEF Posted
      <3>2. QED
        BY <2>4, <3>1 DEF old
    <2>5. QED
      BY <2>2, <2>3, <2>4
  <1> HIDE DEF table
  <1>3. Begun(n) = Begins /\ \A k, f : Seen(k, f, n) = On(k, f)
    BY AllRead
  <1>4. \A k, f : Latest(k, f, n) = Value(k, f)
    BY <1>3 DEF Latest, Value, Argument
  <1>5. ASSUME NEW i \in Slots, table[i].TYPE # "NO_TYPE" PROVE \E k \in Begins : Place(k) = i
    BY <1>2, <1>3, <1>5 DEF Written
  <1>6. ASSUME NEW k \in Begins, Place(k) \in Slots
        PROVE  /\ table[Place(k)].TYPE = TypeOf(k)
               /\ \A f \in Fields(k) : table[Place(k)].dev[f] = Said(k, f)
               /\ table[Place(k)].ADDRESS = AddressOf(k)
    <2> DEFINE old == p.table[Place(k)]
    <2>1. InPlace(old, k, n)
      BY <1>3, <1>6 DEF Written
    <2>2. /\ old.TYPE = TypeOf(k) /\ old.ADDRESS = AddressOf(k)
          /\ DOMAIN old.dev = FieldsOf(TypeOf(k))
          /\ \A f \in Fields(k) : old.dev[f] = IF On(k, f) = {} THEN Given(k, f) ELSE Value(k, f)
      BY <1>3, <1>4, <2>1 DEF InPlace, AddressOf
    <2>3. Fields(k) \subseteq DOMAIN old.dev
      BY <2>2 DEF Fields, FieldsOf
    <2>4. ASSUME NEW f \in Fields(k) PROVE table[Place(k)].dev[f] = Said(k, f)
      <3>1. CASE f = "BYTES_PER_SECTOR"
        <4>1. TypeOf(k) = "AMIGO_TYPE"
          BY <3>1, SectorBytesOfAmigo
        <4>2. Said(k, f) = 256
          BY <3>1 DEF Said
        <4>3. QED
          BY <1>2, <1>6, <2>2, <2>3, <3>1, <4>1, <4>2
      <3>2. CASE f # "BYTES_PER_SECTOR"
        <4>1. table[Place(k)].dev[f] = old.dev[f]
          BY <1>2, <1>6, <2>3, <3>2
        <4>2. Said(k, f) = IF On(k, f) = {} THEN Given(k, f) ELSE Value(k, f)
          <5>1. CASE On(k, f) = {}
            BY <3>2, <5>1 DEF Said, Given
          <5>2. CASE On(k, f) # {}
            BY <3>2, <5>2 DEF Said
          <5>3. QED
            BY <5>1, <5>2
        <4>3. QED
          BY <2>2, <4>1, <4>2
      <3>3. QED
        BY <3>1, <3>2
    <2>5. QED
      BY <1>2, <1>6, <2>2, <2>4
  <1>7. ASSUME NEW k \in Begins, Place(k) \notin Slots, NEW j \in About(k)
        PROVE  text[j].token \in Idle
    <2>1. j <= n
      BY TextLines DEF About
    <2>2. QED
      BY <1>3, <1>7, <2>1 DEF Written
  <1>8. AsSaid(table)
    BY <1>5, <1>6, <1>7 DEF AsSaid
  <1>9. QED
    BY <1>8 DEF table

LEMMA LargestIn ==
  ASSUME NEW n \in Nat, NEW S, S \subseteq 1 .. n, S # {}
  PROVE  Max(S) \in S
  <1> DEFINE T == {n - x : x \in S}
  <1>1. T \subseteq Nat /\ T # {}
    OBVIOUS
  <1>2. Min(T) \in T /\ \A y \in T : Min(T) <= y
    <2> HIDE DEF T
    <2> QED
      BY <1>1, Least
  <1>3. PICK m \in S : Min(T) = n - m
    BY <1>2
  <1>4. ASSUME NEW x \in S PROVE x <= m
    <2>1. n - x \in T /\ x \in Int /\ m \in Int
      BY <1>3
    <2>2. n - m <= n - x
      BY <1>2, <1>3, <2>1
    <2>3. QED
      BY <2>1, <2>2
  <1>5. S \subseteq Int
    OBVIOUS
  <1>6. QED
    BY <1>4, <1>5, Greatest

LEMMA AnAddress ==
  ASSUME text \in Texts, NEW k \in Begins
  PROVE  AddressOf(k) \in 0 .. 255
  <1>1. ASSUME On(k, "ADDRESS") # {} PROVE Value(k, "ADDRESS") \in 0 .. 255
    <2> DEFINE j == Max(On(k, "ADDRESS"))
               v == text[j].val
    <2>1. Begins \subseteq 1 .. Len(text) /\ Len(text) \in Nat
      BY TextLines
    <2>2. k \in Nat /\ k >= 1
      BY <2>1
    <2>3. On(k, "ADDRESS") \subseteq 1 .. Len(text)
      BY <2>2 DEF On, About
    <2>4. j \in 1 .. Len(text)
      BY <1>1, <2>1, <2>3, LargestIn
    <2>5. v \in Int
      BY <2>4, TextLines
    <2>6. Value(k, "ADDRESS") = Kept("ADDRESS", v)
      BY DEF Value
    <2> HIDE DEF v
    <2>7. Cut("ADDRESS", v) = v % 256
      BY DEF Cut, Bytes, Longs, Signed
    <2>8. Kept("ADDRESS", v) = 255 \/ Kept("ADDRESS", v) = v % 256
      BY <2>7 DEF Kept, Instead
    <2>9. v % 256 \in 0 .. 255
      BY <2>5
    <2>10. QED
      BY <2>6, <2>8, <2>9
  <1>2. QED
    BY <1>1 DEF AddressOf

(* The device is found at its address, whichever command addresses it.     *)
LEMMA FoundAt ==
  ASSUME text \in Texts, AsSaid(config.table), NEW k \in Begins, Place(k) \in Slots
  PROVE  Answers(k, Place(k))
  <1> DEFINE n == Place(k)
             a == AddressOf(k)
             type == TypeOf(k)
             table == config.table
             none == [d \in {"ss80", "amigo", "printer"} |-> 0]
             first == \A j \in Before(k) : TypeOf(j) = type => AddressOf(j) # a
  <1>1. /\ table[n].TYPE = type /\ table[n].ADDRESS = a
        /\ \A i \in Slots : table[i].TYPE # "NO_TYPE" => \E j \in Begins : Place(j) = i
        /\ \A j \in Begins : Place(j) \in Slots =>
             table[Place(j)].TYPE = TypeOf(j) /\ table[Place(j)].ADDRESS = AddressOf(j)
    BY DEF AsSaid
  <1>2. a \in 0 .. 255 /\ n \in Slots /\ n # 0
    BY AnAddress DEF Slots
  <1>3. type # "NO_TYPE"
    BY TheOpenings DEF Begins, TypeOf
  <1> HIDE DEF a, n, type, table
  <1>4. SUFFICES ASSUME type \in DOMAIN Active, a <= 30, first, NEW base \in Bases
                 PROVE  Addressed(table, none, type, base + a, base)
                          = [active |-> [none EXCEPT ![Active[type]] = n], ok |-> TRUE]
    BY DEF Answers, a, n, type, table
  <1>5. base \in {32, 64, 96}
    BY DEF Bases
  <1> DEFINE S == {i \in Slots : table[i].TYPE = type /\ table[i].ADDRESS = a}
  <1>6. find_device(table, type, base + a, base) = First(S)
    <2>1. /\ base + a >= 32 /\ base + a <= 96 + 30 /\ base + a >= base /\ base + a <= base + 30
          /\ (base + a) - base = a
      BY <1>2, <1>4, <1>5
    <2>2. ~(base + a < 32 \/ base + a > 96 + 30 \/ base + a < base \/ base + a > base + 30)
      BY <1>2, <1>5, <2>1
    <2>3. find_device(table, type, base + a, base)
            = First({i \in Slots : table[i].TYPE = type /\ table[i].ADDRESS = (base + a) - base})
      BY <2>2 DEF find_device
    <2>4. QED
      BY <2>1, <2>3
  <1>7. n \in S /\ S \subseteq Int
    BY <1>1, <1>2 DEF n, Slots
  <1>8. ASSUME NEW i \in S PROVE n <= i
    <2>1. i \in Slots /\ table[i].TYPE = type /\ table[i].ADDRESS = a
      OBVIOUS
    <2>2. PICK j \in Begins : Place(j) = i
      BY <1>1, <1>3, <2>1
    <2>3. TypeOf(j) = type /\ AddressOf(j) = a
      BY <1>1, <2>1, <2>2
    <2>4. j \in Int /\ k \in Int
      BY TextLines
    <2>5. ~(j < k)
      BY <1>4, <2>3 DEF Before
    <2>6. j = k \/ k < j
      BY <2>4, <2>5
    <2>7. Place(j) \in Nat /\ Place(k) \in Nat /\ (k < j => Place(k) < Place(j))
      BY Places
    <2>8. QED
      BY <2>2, <2>6, <2>7 DEF n
  <1>9. First(S) = n
    <2> HIDE DEF S
    <2>1. Min(S) = n /\ S # {}
      BY <1>7, <1>8, Smallest
    <2>2. QED
      BY <2>1 DEF First
  <1>10. set_active_device(table, none, n)
           = [active |-> [none EXCEPT ![Active[type]] = n], ok |-> TRUE]
    <2>1. ~(n = 0 \/ table[n].ADDRESS > 30 \/ table[n].TYPE \notin DOMAIN Active)
      BY <1>1, <1>2, <1>4
    <2>2. QED
      BY <1>1, <2>1 DEF set_active_device
  <1>11. QED
    BY <1>6, <1>9, <1>10 DEF Addressed

LEMMA SaidIsRead ==
  ASSUME text \in Texts,
         phase = "formatting" /\ config.errors = 0 => AsSaid(config.table)
  PROVE  ReadAsWritten
  <1> SUFFICES ASSUME AsSaid(config.table), NEW k \in Begins
               PROVE  IF Place(k) > MaxDevices
                        THEN \A j \in About(k) : text[j].token \in Idle
                        ELSE /\ config.table[Place(k)].TYPE = TypeOf(k)
                             /\ \A f \in Fields(k) : config.table[Place(k)].dev[f] = Said(k, f)
                             /\ Answers(k, Place(k))
    BY DEF ReadAsWritten, Place, Fields, Idle
  <1>1. Place(k) \in Nat /\ Place(k) >= 1
    BY Places
  <1>2. Place(k) \in Slots <=> ~(Place(k) > MaxDevices)
    BY <1>1, DrivesAssumption DEF Slots
  <1>3. QED
    BY <1>2, FoundAt DEF AsSaid

(***************************************************************************)
(* ReadAsWritten, for every text, hpdir.ini and number of devices.         *)
(***************************************************************************)
ReadInv ==
  /\ text \in Texts /\ at \in 0 .. Len(text) /\ config.errors \in Nat
  /\ AllPlaces(at)
  /\ phase = "reading" /\ config.errors = 0 => Written(config, at)
  /\ phase = "formatting" /\ config.errors = 0 => AsSaid(config.table)

LEMMA ReadBegins == BootInit => ReadInv
  <1> SUFFICES ASSUME BootInit PROVE ReadInv
    OBVIOUS
  <1>1. text \in Texts /\ at = 0 /\ config = init_Devices /\ phase = "reading"
    BY DEF BootInit
  <1>2. Len(text) \in Nat /\ Begins \subseteq 1 .. Len(text)
    BY <1>1, TextLines
  <1>3. Begun(0) = {}
    <2>1. \A k \in Begins : ~(k <= 0)
      BY <1>2
    <2>2. QED
      BY <2>1 DEF Begun
  <1>4. AllPlaces(0)
    <2>1. Cardinality({}) = 0
      BY FS_EmptySet
    <2>2. QED
      BY <1>3, <2>1 DEF AllPlaces
  <1>5. /\ config.errors = 0 /\ config.state = "START_STATE"
        /\ \A i \in Slots : config.table[i].TYPE = "NO_TYPE"
    BY <1>1 DEF init_Devices, NoDevice
  <1>6. Written(config, 0)
    BY <1>3, <1>5 DEF Written
  <1>7. QED
    BY <1>1, <1>2, <1>4, <1>5, <1>6 DEF ReadInv

(* While the text stays, so does what it says.                             *)
LEMMA TextStays ==
  ASSUME text' = text
  PROVE  /\ AllPlaces(at)' <=> AllPlaces(at')
         /\ Written(config, at)' <=> Written(config', at')
         /\ AsSaid(config.table)' <=> AsSaid(config'.table)
  BY DEF Begins, Begun, AllPlaces, Written, AsSaid, Place, Before, About, On, Seen, Latest,
         InPlace, Given, TypeOf, HasDefault, Default, Value, Fields, Said, AddressOf

LEMMA ReadKeeps ==
  ASSUME ParserInv(config), ReadInv, [BootNext]_boot
  PROVE  ReadInv'
  <1>1. text' = text
    BY DEF BootNext, ReadLine, EndOfFile, FormatSlot, FormatForever, boot
  <1>2. text \in Texts /\ Len(text) \in Nat /\ at \in 0 .. Len(text)
    BY TextLines DEF ReadInv
  <1>3. CASE ReadLine
    <2>1. /\ phase = "reading" /\ phase' = "reading" /\ at < Len(text) /\ at' = at + 1
          /\ config' = ParseLine(config, text[at + 1])
      BY <1>3 DEF ReadLine
    <2>2. at \in Nat /\ at' \in 0 .. Len(text)
      BY <1>2, <2>1
    <2>3. config'.errors \in Nat /\ (config'.errors = 0 => Written(config', at'))
      BY <1>2, <2>1, <2>2, LineKeepsWritten DEF ReadInv
    <2>4. AllPlaces(at')
      BY <1>2, <2>1, <2>2, AllPlacesStay DEF ReadInv
    <2>5. QED
      BY <1>1, <1>2, <2>1, <2>2, <2>3, <2>4, TextStays DEF ReadInv
  <1>4. CASE EndOfFile
    <2> DEFINE table == [i \in Slots |-> Posted(config.table[i])]
    <2>1. phase = "reading" /\ phase' = "formatting" /\ at = Len(text) /\ at' = at
      BY <1>4 DEF EndOfFile
    <2>2. /\ config'.table = table
          /\ config'.errors = config.errors \/ config'.errors = config.errors + 1
      BY <1>4 DEF EndOfFile, ParserInv, ParserTypes
    <2> HIDE DEF table
    <2>3. config'.errors \in Nat /\ (config'.errors = 0 => config.errors = 0)
      BY <2>2 DEF ReadInv
    <2>4. config.errors = 0 => AsSaid(table)
      BY <1>2, <2>1, PostedAsSaid DEF ReadInv, table
    <2>5. QED
      BY <1>1, <1>2, <2>1, <2>2, <2>3, <2>4, TextStays DEF ReadInv
  <1>5. CASE FormatSlot \/ FormatForever \/ UNCHANGED boot
    <2>1. /\ at' = at /\ config' = config
          /\ phase' # phase => phase' \notin {"reading", "formatting"}
      BY <1>5 DEF FormatSlot, FormatForever, boot
    <2>2. QED
      BY <1>1, <1>2, <2>1, TextStays DEF ReadInv
  <1>6. QED
    BY <1>3, <1>4, <1>5 DEF BootNext

(* A text that is read without an error is read as a person would, also    *)
(* where lines are missing, twice or out of place: Read_Config, with       *)
(* hpdir_find_drive, SS80_Set_Defaults and Post_Config, leaves in each     *)
(* slot what is written of its device, and find_device finds it there.     *)
THEOREM TableIsAsWritten == BootSpec => []ReadAsWritten
  <1>1. BootInit => ParserInv(config) /\ ReadInv
    BY BootBegins, ReadBegins
  <1>2. ParserInv(config) /\ ReadInv /\ [BootNext]_boot => (ParserInv(config) /\ ReadInv)'
    BY BootKeeps, ReadKeeps
  <1>3. ReadInv => ReadAsWritten
    BY SaidIsRead DEF ReadInv
  <1>4. QED
    BY <1>1, <1>2, <1>3, PTL DEF BootSpec

(***************************************************************************)
(* The composition: the emulator starts as Drives says and then serves the *)
(* bus as GpibTask says, so what is proved of either holds of it.          *)
(***************************************************************************)
LEMMA Composes == EmulatorSpec => BootSpec /\ Spec
  <1>1. EmulatorInit => BootInit /\ Init
    BY DEF EmulatorInit
  <1>2. [EmulatorNext]_<<vars, boot>> => [BootNext]_boot /\ [Next]_vars
    BY DEF EmulatorNext, Booting, Serving, Elsewhere
  <1>3. QED
    BY <1>1, <1>2, PTL DEF EmulatorSpec, BootSpec, Spec

(* In the whole emulator, too, every line of the configuration goes to the *)
(* device it is written for, what is read without an error is read as a    *)
(* person would, and no secondary command is run twice.                    *)
THEOREM EmulatorIsSound ==
  EmulatorSpec => []DescribesOne /\ []ReadAsWritten /\ []ServedOnce
  BY Composes, EveryLineHasItsDevice, TableIsAsWritten, SecondaryServedOnce, PTL

(* With an orderly host and without PPR_REVERSE_BITS, the whole emulator   *)
(* answers a parallel poll for exactly the disks that ask, leaves no       *)
(* capture open, and loses nothing of what is printed.                     *)
THEOREM EmulatorServes ==
  ASSUME ~REVERSE, Orderly
  PROVE  EmulatorSpec => []PollLines /\ []CapturesClosed /\ []PrintedIsCaptured
  BY Composes, PollAnswersAsked, CapturesAreClosed, PrintedBytesCaptured, PTL
==============================================================================
