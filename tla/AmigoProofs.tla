----------------------------- MODULE AmigoProofs ------------------------------
(***************************************************************************)
(* Proofs about Amigo for every geometry and every position, unit and      *)
(* sector count the host may name; what needs the numbers of the geometry, *)
(* or their products, to fit their types says so.                          *)
(***************************************************************************)
EXTENDS Amigo, TLAPS

(***************************************************************************)
(* Constants, names and arithmetic.                                        *)
(***************************************************************************)
LEMMA Consts ==
  /\ Cylinders \in Nat \ {0} /\ Heads \in Nat \ {0} /\ Track \in Nat \ {0}
  /\ Byte \in Nat \ {0}
  /\ IntMax \in Nat /\ Reach \in Nat /\ 4 * (IntMax + 1) <= Reach
  /\ Cylinders <= IntMax /\ Heads <= IntMax /\ Track <= IntMax
  /\ Targets \subseteq Positions /\ Counts \subseteq Nat
  /\ Units \subseteq Bytes
  BY AmigoAssumption DEF AmigoAssumption, Track, Bytes

LEMMA TimesNat ==
  ASSUME NEW m \in Nat, NEW n \in Nat
  PROVE  m * n \in Nat
  OBVIOUS

LEMMA TimesPositive ==
  ASSUME NEW m \in Nat \ {0}, NEW n \in Nat \ {0}
  PROVE  m * n \in Nat \ {0}
  OBVIOUS

LEMMA TimesMonotonic ==
  ASSUME NEW d \in Nat, NEW m \in Nat, NEW n \in Nat, m <= n
  PROVE  d * m <= d * n
  OBVIOUS

LEMMA TimesNext ==
  ASSUME NEW d \in Nat, NEW n \in Nat
  PROVE  d * (n + 1) = d * n + d
  OBVIOUS

LEMMA ModByte ==
  ASSUME NEW n \in Nat
  PROVE  /\ n % Byte \in Bytes
         /\ n < Byte => n % Byte = n
<1>1. /\ n % Byte \in 0 .. Byte - 1
      /\ n < Byte => n % Byte = n
  BY Consts
<1> QED
  BY <1>1 DEF Bytes

LEMMA Sizes ==
  /\ Track \in Nat \ {0} /\ Cylinder \in Nat \ {0} /\ Total \in Nat \ {0}
  /\ Cylinder = Track * Heads /\ Total = Cylinder * Cylinders
<1>1. Cylinder \in Nat \ {0} /\ Cylinder = Track * Heads
  BY Consts, TimesPositive DEF Cylinder, Track
<1>2. Total \in Nat \ {0} /\ Total = Cylinder * Cylinders
  BY <1>1, Consts, TimesPositive DEF Total
<1> QED
  BY <1>1, <1>2, Consts

LEMMA Names ==
  /\ "IDLE" \in States /\ "COLD_LOAD_READ" \in States /\ "READ" \in States
  /\ "WRITE" \in States /\ "REQUEST_STATUS" \in States
  /\ "REQUEST_LOGICAL_ADDRESS" \in States
  BY DEF States, Reads, Writes

LEMMA ErrorsNamed ==
  /\ {} \subseteq ErrorNames /\ {"GPIB"} \subseteq ErrorNames
  /\ {"SEEK"} \subseteq ErrorNames /\ {"READ"} \subseteq ErrorNames
  /\ {"WRITE"} \subseteq ErrorNames
  /\ \A u : UnitError(u) \subseteq ErrorNames
  /\ \A e \in DiskErrors : e \subseteq ErrorNames /\ e # {}
  BY DEF ErrorNames, DiskErrors, UnitError

(***************************************************************************)
(* Positions.                                                              *)
(***************************************************************************)
LEMMA StartTyped == Start \in Positions /\ Start \in Geometry
  BY Consts DEF Start, Positions, Geometry, Bytes, Track

LEMMA ModNat ==
  ASSUME NEW n \in Int, NEW m \in Nat \ {0}
  PROVE  n % m \in 0 .. m - 1
  OBVIOUS

LEMMA WrappedInt ==
  ASSUME NEW n \in Int
  PROVE  Wrapped(n) \in -(IntMax + 1) .. IntMax
<1> DEFINE w == 2 * (IntMax + 1)
<1>1. w \in Nat \ {0} /\ n + IntMax + 1 \in Int
  BY Consts
<1> HIDE DEF w
<1>2. (n + IntMax + 1) % w \in 0 .. w - 1
  BY <1>1, ModNat
<1>3. Wrapped(n) = ((n + IntMax + 1) % w) - (IntMax + 1)
  BY DEF Wrapped, w
<1>4. w = IntMax + IntMax + 2
  BY Consts DEF w
<1> QED
  BY <1>2, <1>3, <1>4, Consts

LEMMA LbaNat ==
  ASSUME NEW p \in Positions
  PROVE  Lba(p) \in Nat
<1> DEFINE a == Wrapped(Track * p.head)
           b == Wrapped(Wrapped(Cylinder) * p.cyl)
<1>1. p.cyl \in Int /\ p.head \in Int /\ p.sector \in Int
  BY Consts DEF Positions, Bytes
<1>2. a \in Int
  <2>1. Track * p.head \in Int
    BY <1>1, Consts
  <2> QED
    BY <2>1, WrappedInt, Consts
<1>3. b \in Int
  <2>1. Wrapped(Cylinder) \in Int
    BY WrappedInt, Sizes, Consts
  <2>2. Wrapped(Cylinder) * p.cyl \in Int
    BY <1>1, <2>1
  <2> QED
    BY <2>2, WrappedInt, Consts
<1> HIDE DEF a, b
<1>4. a + b + p.sector \in Int /\ Reach \in Nat \ {0}
  BY <1>1, <1>2, <1>3, Consts
<1>5. Lba(p) = (a + b + p.sector) % Reach
  BY DEF Lba, a, b
<1>6. (a + b + p.sector) % Reach \in 0 .. Reach - 1
  BY <1>4, ModNat
<1> QED
  BY <1>4, <1>5, <1>6

LEMMA NextTyped ==
  ASSUME NEW p \in Positions
  PROVE  NextSector(p) \in Positions
<1>1. p.sector + 1 \in Nat
  BY Consts DEF Positions, Bytes
<1>2. (p.sector + 1) % Byte \in Bytes
  BY <1>1, ModByte
<1> QED
  BY <1>2 DEF NextSector, Positions

LEMMA NormalTyped ==
  ASSUME NEW p \in Positions
  PROVE  Normal(p) \in Positions
<1>1. p.head + 1 \in Nat /\ p.cyl + 1 \in Nat
  BY Consts DEF Positions, Bytes
<1>2. (p.head + 1) % Byte \in Bytes /\ (p.cyl + 1) % Byte \in Bytes
  BY <1>1, ModByte
<1>3. 0 \in Bytes
  BY Consts DEF Bytes
<1> QED
  BY <1>2, <1>3 DEF Normal, Positions

(* A position with a cylinder and a head of the disk, that does not        *)
(* overflow, is normalised to a position of the disk.                      *)
LEMMA NormalInGeometry ==
  ASSUME NEW p \in Positions, p.cyl < Cylinders, p.head < Heads, ~Overflows(p)
  PROVE  Normal(p) \in Geometry
<1> DEFINE h == (p.head + 1) % Byte
           c == (p.cyl + 1) % Byte
<1>1. /\ p.cyl \in 0 .. Cylinders - 1 /\ p.head \in 0 .. Heads - 1
      /\ p.sector \in Nat
      /\ p.head + 1 \in Nat /\ p.cyl + 1 \in Nat
  BY Consts DEF Positions, Bytes
<1>2. h \in Nat /\ c \in Nat
  <2>1. h \in Bytes /\ c \in Bytes
    BY <1>1, ModByte
  <2> QED
    BY <2>1, Consts DEF Bytes
<1>3. CASE p.sector < Track
  <2>1. p.sector \in 0 .. Track - 1
    BY <1>1, <1>3, Consts
  <2>2. p = [cyl |-> p.cyl, head |-> p.head, sector |-> p.sector]
    BY DEF Positions
  <2>3. Normal(p) = [cyl |-> p.cyl, head |-> p.head, sector |-> p.sector]
    BY <1>3, <2>2 DEF Normal
  <2> QED
    BY <1>1, <2>1, <2>3 DEF Geometry, Track
<1>4. CASE ~(p.sector < Track)
  <2>1. p.sector >= Track
    BY <1>1, <1>4, Consts
  <2>2. 0 \in 0 .. Heads - 1 /\ 0 \in 0 .. Track - 1
    BY Consts
  <2>3. CASE h < Heads
    <3>1. h \in 0 .. Heads - 1
      BY <1>2, <2>3, Consts
    <3>2. Normal(p) = [cyl |-> p.cyl, head |-> h, sector |-> 0]
      BY <1>4, <2>3 DEF Normal
    <3> QED
      BY <1>1, <2>2, <3>1, <3>2 DEF Geometry, Track
  <2>4. CASE ~(h < Heads)
    <3>1. h >= Heads
      BY <1>2, <2>4, Consts
    <3>2. c \in 0 .. Cylinders - 1
      BY <1>2, <2>1, <3>1, Consts DEF Overflows
    <3>3. Normal(p) = [cyl |-> c, head |-> 0, sector |-> 0]
      BY <1>4, <2>4 DEF Normal
    <3> QED
      BY <2>2, <3>2, <3>3 DEF Geometry, Track
  <2> QED
    BY <2>3, <2>4
<1> QED
  BY <1>3, <1>4

LEMMA GeometryTyped ==
  ASSUME NEW p \in Geometry
  PROVE  /\ p.cyl < Cylinders /\ p.head < Heads /\ p.sector < Track
         /\ p.cyl \in Nat /\ p.head \in Nat /\ p.sector \in Nat
         /\ GeometryFitsBytes => p \in Positions
<1>1. /\ p.cyl \in 0 .. Cylinders - 1 /\ p.head \in 0 .. Heads - 1
      /\ p.sector \in 0 .. Track - 1
  BY DEF Geometry, Track
<1>2. GeometryFitsBytes => p.cyl \in Bytes /\ p.head \in Bytes /\ p.sector \in Bytes
  BY <1>1, Consts DEF Bytes, GeometryFitsBytes, Track
<1>3. p = [cyl |-> p.cyl, head |-> p.head, sector |-> p.sector]
  BY DEF Geometry
<1> QED
  BY <1>1, <1>2, <1>3, Consts DEF Positions

LEMMA AdvanceInGeometry ==
  ASSUME pos \in Geometry, pos \in Positions, Advance
  PROVE  pos' \in Geometry
<1>1. CASE AtEnd
  BY <1>1 DEF Advance
<1>2. CASE ~AtEnd
  <2>1. NextSector(pos) \in Positions
    BY NextTyped
  <2>2. NextSector(pos).cyl < Cylinders /\ NextSector(pos).head < Heads
    BY GeometryTyped DEF NextSector
  <2>3. Normal(NextSector(pos)) \in Geometry
    BY <1>2, <2>1, <2>2, NormalInGeometry DEF AtEnd
  <2> QED
    BY <1>2, <2>3 DEF Advance
<1> QED
  BY <1>1, <1>2

LEMMA AdvanceTyped ==
  ASSUME pos \in Positions, Advance
  PROVE  pos' \in Positions
  BY NextTyped, NormalTyped DEF Advance

(***************************************************************************)
(* Type correctness.                                                       *)
(***************************************************************************)
LEMMA StoreTyped ==
  ASSUME TypeOK, NEW d \in Data, Store(d)
  PROVE  size' \in Nat /\ image' \in [Disk -> Data \cup {Blank}]
<1>1. Lba(pos) \in Nat
  BY LbaNat DEF TypeOK
<1>2. size' \in Nat
  BY <1>1 DEF Store, Larger, TypeOK
<1>3. image' \in [Disk -> Data \cup {Blank}]
  BY DEF Store, TypeOK
<1> QED
  BY <1>2, <1>3

LEMMA AccessTyped ==
  ASSUME TypeOK, NEW e \in DiskErrors, ReadFails(e) \/ WriteFails(e)
  PROVE  /\ size' \in Nat /\ image' \in [Disk -> Data \cup {Blank}]
         /\ e \subseteq ErrorNames
<1>1. Lba(pos) \in Nat /\ size \in Nat
  BY LbaNat DEF TypeOK
<1>5. ASSUME LseekGrows PROVE size' \in Nat
  BY <1>1, <1>5 DEF LseekGrows, Larger
<1>2. CASE ReadFails(e)
  <2>1. e \subseteq ErrorNames
    BY <1>2, ErrorsNamed DEF ReadFails
  <2> QED
    BY <1>2, <1>5, <2>1 DEF ReadFails, TypeOK
<1>3. CASE WriteFails(e)
  <2>1. CASE LseekGrows /\ UNCHANGED image
    BY <1>5, <2>1, ErrorsNamed DEF TypeOK
  <2>2. CASE Store(Torn)
    BY <2>2, StoreTyped, ErrorsNamed DEF Data
  <2> QED
    BY <1>3, <2>1, <2>2 DEF WriteFails
<1> QED
  BY <1>2, <1>3

LEMMA NamedTyped ==
  ASSUME TypeOK, NEW u \in Units, Named(u)
  PROVE  unitNO' \in Bytes /\ errors' \subseteq ErrorNames
  BY Consts, ErrorsNamed DEF Named, UnitChecked, TypeOK

LEMMA SeekTyped ==
  ASSUME NEW p \in Targets, NEW d \in 0 .. 2, NEW e, e \subseteq ErrorNames,
         NEW o \in BOOLEAN, TypeOK, SeekTo(p, d, e, o)
  PROVE  /\ pos' \in Positions /\ dsj' \in 0 .. 2 /\ errors' \subseteq ErrorNames
         /\ ppr' \in BOOLEAN /\ owed' \in BOOLEAN
<1>1. CASE Overflows(p) /\ Fault(e \cup {"SEEK"}) /\ owed' = TRUE /\ UNCHANGED pos
  BY <1>1, ErrorsNamed DEF Fault, SeekTo, TypeOK
<1>2. CASE pos' = Normal(p) /\ dsj' = d /\ errors' = e /\ owed' = o
  BY <1>2, Consts, NormalTyped DEF SeekTo
<1> QED
  BY <1>1, <1>2 DEF SeekTo

LEMMA MovesOnTyped ==
  ASSUME TypeOK, MovesOn
  PROVE  /\ pos' \in Positions /\ dsj' \in 0 .. 2 /\ errors' \subseteq ErrorNames
         /\ ppr' \in BOOLEAN /\ owed' \in BOOLEAN
<1>1. pos' \in Positions
  BY AdvanceTyped DEF MovesOn, TypeOK
<1> QED
  BY <1>1, ErrorsNamed DEF MovesOn, Fault, TypeOK

LEMMA InitTyped == Init => TypeOK
<1> SUFFICES ASSUME Init PROVE TypeOK
  OBVIOUS
<1>1. pos \in Positions
  BY StartTyped DEF Init
<1>2. unitNO \in Bytes
  BY Consts DEF Init, Bytes
<1>3. size \in Nat
  BY Sizes DEF Init
<1>4. image \in [Disk -> Data \cup {Blank}]
  BY DEF Init
<1>5. state \in States /\ errors \subseteq ErrorNames
  BY Names, ErrorsNamed DEF Init
<1>6. dsj \in 0 .. 2 /\ left \in Nat
  BY DEF Init
<1>7. ppr \in BOOLEAN /\ owed \in BOOLEAN /\ phase \in {"task", "verify", "format"}
  BY DEF Init
<1> QED
  BY <1>1, <1>2, <1>3, <1>4, <1>5, <1>6, <1>7 DEF TypeOK

LEMMA StepTyped == TypeOK /\ [Next]_vars => TypeOK'
<1> SUFFICES ASSUME TypeOK, [Next]_vars
             PROVE  TypeOK'
  OBVIOUS
<1>1. CASE UNCHANGED vars
  BY <1>1 DEF vars, file, TypeOK
<1>2. CASE MessageFails
  <2>1. dsj' \in 0 .. 2 /\ errors' \subseteq ErrorNames
    BY <1>2, ErrorsNamed DEF MessageFails, Fault, TypeOK
  <2>2. ppr' \in BOOLEAN /\ owed' \in BOOLEAN
    BY <1>2 DEF MessageFails
  <2> QED
    BY <1>2, <2>1, <2>2 DEF MessageFails, AtTask, file, TypeOK
<1>3. CASE Seek
  <2>1. PICK u \in Units, p \in Targets :
          /\ unitNO' = UnitChecked(u)
          /\ SeekTo(p, dsj, errors \cup UnitError(u), owed)
    BY <1>3 DEF Seek
  <2>2. errors \cup UnitError(u) \subseteq ErrorNames
    BY ErrorsNamed DEF TypeOK
  <2>3. unitNO' \in Bytes
    BY <2>1, Consts DEF UnitChecked, TypeOK
  <2>4. dsj \in 0 .. 2 /\ owed \in BOOLEAN
    BY DEF TypeOK
  <2>5. /\ pos' \in Positions /\ dsj' \in 0 .. 2 /\ errors' \subseteq ErrorNames
        /\ ppr' \in BOOLEAN /\ owed' \in BOOLEAN
    BY <2>1, <2>2, <2>4, SeekTyped
  <2> QED
    BY <1>3, <2>3, <2>5 DEF Seek, AtTask, file, TypeOK
<1>4. CASE ColdLoad
  <2>1. PICK p \in Targets : SeekTo(p, 0, {}, FALSE)
    BY <1>4 DEF ColdLoad
  <2>2. 0 \in 0 .. 2 /\ FALSE \in BOOLEAN /\ {} \subseteq ErrorNames
    BY ErrorsNamed
  <2>3. /\ pos' \in Positions /\ dsj' \in 0 .. 2 /\ errors' \subseteq ErrorNames
        /\ ppr' \in BOOLEAN /\ owed' \in BOOLEAN
    BY <2>1, <2>2, SeekTyped
  <2>4. unitNO' \in Bytes
    BY <1>4, Consts DEF ColdLoad, Bytes
  <2> QED
    BY <1>4, <2>3, <2>4, Names DEF ColdLoad, AtTask, file, TypeOK
<1>5. CASE SetsState
  <2>1. unitNO' \in Bytes /\ errors' \subseteq ErrorNames
    BY <1>5, NamedTyped DEF SetsState
  <2> QED
    BY <1>5, <2>1, Names DEF SetsState, AtTask, file, TypeOK
<1>6. CASE RequestLogicalAddress
  BY <1>6, Names DEF RequestLogicalAddress, AtTask, file, TypeOK
<1>7. CASE Todo
  BY <1>7 DEF Todo, AtTask, Quiet, file, TypeOK
<1>8. CASE VerifyBegins
  <2>1. unitNO' \in Bytes /\ errors' \subseteq ErrorNames
    BY <1>8, NamedTyped DEF VerifyBegins
  <2>2. left' \in Nat
    BY <1>8, Consts DEF VerifyBegins
  <2> QED
    BY <1>8, <2>1, <2>2 DEF VerifyBegins, file, TypeOK
<1>9. CASE VerifySector
  <2>1. pos' \in Positions
    BY <1>9, AdvanceTyped DEF VerifySector, TypeOK
  <2>2. left' \in Nat
    BY <1>9 DEF VerifySector, TypeOK
  <2> QED
    BY <1>9, <2>1, <2>2 DEF VerifySector, file, TypeOK
<1>10. CASE VerifyFails
  <2>1. PICK e \in DiskErrors : ReadFails(e) /\ Fault(e \cup {"READ"})
    BY <1>10 DEF VerifyFails
  <2>2. /\ size' \in Nat /\ image' \in [Disk -> Data \cup {Blank}]
        /\ e \subseteq ErrorNames
    BY <2>1, AccessTyped
  <2>3. dsj' \in 0 .. 2 /\ errors' \subseteq ErrorNames
    BY <2>1, <2>2, ErrorsNamed DEF Fault
  <2> QED
    BY <1>10, <2>2, <2>3 DEF VerifyFails, LoopEnds, TypeOK
<1>11. CASE VerifyEnds
  BY <1>11 DEF VerifyEnds, LoopEnds, Quiet, file, TypeOK
<1>12. CASE FormatBegins
  <2>1. unitNO' \in Bytes /\ errors' \subseteq ErrorNames
    BY <1>12, NamedTyped DEF FormatBegins
  <2> QED
    BY <1>12, <2>1, StartTyped DEF FormatBegins, file, TypeOK
<1>13. CASE FormatSector
  <2>1. pos' \in Positions
    BY <1>13, AdvanceTyped DEF FormatSector, TypeOK
  <2>2. size' \in Nat /\ image' \in [Disk -> Data \cup {Blank}]
    BY <1>13, StoreTyped DEF FormatSector, Data
  <2> QED
    BY <1>13, <2>1, <2>2 DEF FormatSector, TypeOK
<1>14. CASE FormatEnds
  <2>1. size' \in Nat /\ image' \in [Disk -> Data \cup {Blank}]
    BY <1>14, StoreTyped DEF FormatEnds, Data
  <2>2. dsj' \in 0 .. 2 /\ left' \in Nat
    BY <1>14 DEF FormatEnds, LoopEnds
  <2>3. ppr' \in BOOLEAN /\ owed' \in BOOLEAN
    BY <1>14 DEF FormatEnds, LoopEnds
  <2>4. phase' \in {"task", "verify", "format"} /\ pos' \in Positions
    BY <1>14, StartTyped DEF FormatEnds, LoopEnds
  <2> QED
    BY <1>14, <2>1, <2>2, <2>3, <2>4 DEF FormatEnds, TypeOK
<1>15. CASE FormatFails
  <2>1. PICK e \in DiskErrors : WriteFails(e) /\ Fault(e \cup {"WRITE"})
    BY <1>15 DEF FormatFails
  <2>2. /\ size' \in Nat /\ image' \in [Disk -> Data \cup {Blank}]
        /\ e \subseteq ErrorNames
    BY <2>1, AccessTyped
  <2>3. dsj' \in 0 .. 2 /\ errors' \subseteq ErrorNames
    BY <2>1, <2>2, ErrorsNamed DEF Fault
  <2> QED
    BY <1>15, <2>2, <2>3 DEF FormatFails, LoopEnds, TypeOK
<1>16. CASE ExecuteIdle
  BY <1>16 DEF ExecuteIdle, Execute, AtTask, file, TypeOK
<1>17. CASE BufferedRead
  BY <1>17, MovesOnTyped DEF BufferedRead, Execute, AtTask, file, TypeOK
<1>18. CASE BufferedWrite
  <2>1. size' \in Nat /\ image' \in [Disk -> Data \cup {Blank}]
    BY <1>18, StoreTyped DEF BufferedWrite, Data
  <2>2. /\ pos' \in Positions /\ dsj' \in 0 .. 2 /\ errors' \subseteq ErrorNames
        /\ ppr' \in BOOLEAN /\ owed' \in BOOLEAN
    BY <1>18, MovesOnTyped DEF BufferedWrite
  <2> QED
    BY <1>18, <2>1, <2>2 DEF BufferedWrite, Execute, AtTask, TypeOK
<1>19. CASE TransferTimesOut
  BY <1>19, ErrorsNamed
  DEF TransferTimesOut, Execute, AtTask, Fault, file, TypeOK
<1>20. CASE DiskFails
  <2>1. PICK e \in DiskErrors : (ReadFails(e) \/ WriteFails(e)) /\ Fault(e)
    BY <1>20 DEF DiskFails
  <2>2. /\ size' \in Nat /\ image' \in [Disk -> Data \cup {Blank}]
        /\ e \subseteq ErrorNames
    BY <2>1, AccessTyped
  <2>3. dsj' \in 0 .. 2 /\ errors' \subseteq ErrorNames
    BY <2>1, <2>2 DEF Fault
  <2> QED
    BY <1>20, <2>2, <2>3 DEF DiskFails, Execute, AtTask, TypeOK
<1>21. CASE SendStatus
  <2>1. dsj' \in 0 .. 2 /\ errors' \subseteq ErrorNames
    BY <1>21, ErrorsNamed DEF SendStatus, Forgotten, Fault, TypeOK
  <2>2. ppr' \in BOOLEAN /\ owed' \in BOOLEAN
    BY <1>21 DEF SendStatus, Forgotten, TypeOK
  <2> QED
    BY <1>21, <2>1, <2>2 DEF SendStatus, Execute, AtTask, file, TypeOK
<1>22. CASE SendLogicalAddress
  BY <1>22, ErrorsNamed DEF SendLogicalAddress, Execute, AtTask, file, TypeOK
<1>23. CASE SendDsj
  <2>1. dsj' \in 0 .. 2 /\ errors' \subseteq ErrorNames
    BY <1>23, ErrorsNamed DEF SendDsj, Forgotten
  <2>2. ppr' \in BOOLEAN /\ owed' \in BOOLEAN
    BY <1>23 DEF SendDsj, Forgotten
  <2> QED
    BY <1>23, <2>1, <2>2 DEF SendDsj, AtTask, file, TypeOK
<1>24. CASE CmdClear
  <2>1. dsj' \in 0 .. 2 /\ errors' \subseteq ErrorNames
    BY <1>24, ErrorsNamed DEF CmdClear, Forgotten
  <2>2. ppr' \in BOOLEAN /\ owed' \in BOOLEAN
    BY <1>24 DEF CmdClear, Forgotten
  <2> QED
    BY <1>24, <2>1, <2>2, StartTyped DEF CmdClear, AtTask, file, TypeOK
<1>25. CASE Identify
  BY <1>25 DEF Identify, AtTask, Quiet, file, TypeOK
<1>26. ASSUME Restarted
       PROVE  /\ pos' \in Positions /\ unitNO' \in Bytes /\ state' \in States
              /\ errors' \subseteq ErrorNames
              /\ phase' = phase /\ left' = left /\ dsj' \in 0 .. 2
              /\ ppr' = FALSE /\ owed' = FALSE
  <2>1. unitNO' \in Bytes /\ dsj' \in 0 .. 2
    BY <1>26, Consts DEF Restarted, Bytes
  <2>2. state' \in States /\ errors' \subseteq ErrorNames /\ pos' \in Positions
    BY <1>26, ErrorsNamed, Names, StartTyped DEF Restarted
  <2> QED
    BY <1>26, <2>1, <2>2 DEF Restarted
<1>27. CASE Restart
  BY <1>26, <1>27 DEF Restart, file, TypeOK
<1>28. CASE KeyDuringWrite
  <2>1. size' \in Nat /\ image' \in [Disk -> Data \cup {Blank}]
    BY <1>28, StoreTyped DEF KeyDuringWrite, Data
  <2> QED
    BY <1>26, <1>28, <2>1 DEF KeyDuringWrite, TypeOK
<1> QED
  BY <1>1, <1>2, <1>3, <1>4, <1>5, <1>6, <1>7, <1>8, <1>9, <1>10, <1>11, <1>12,
     <1>13, <1>14, <1>15, <1>16, <1>17, <1>18, <1>19, <1>20, <1>21, <1>22,
     <1>23, <1>24, <1>25, <1>27, <1>28
  DEF Next, Message, Loop, Transfer

(* Every reachable state of the AMIGO disk is well typed.                  *)
THEOREM TypeCorrect == Spec => []TypeOK
<1>1. Init => TypeOK
  BY InitTyped
<1>2. TypeOK /\ [Next]_vars => TypeOK'
  BY StepTyped
<1> QED
  BY <1>1, <1>2, PTL DEF Spec

(***************************************************************************)
(* Faults: what a step does to dsj and Errors.                             *)
(***************************************************************************)
Keeps == dsj' = dsj /\ owed' = owed /\ errors \subseteq errors'
Faulty == dsj' = 1 /\ errors' # {}
Clears == dsj' # 1 /\ owed' = FALSE

LEMMA Outcomes ==
  ASSUME [Next]_vars
  PROVE  Keeps \/ Faulty \/ Clears
<1>1. CASE UNCHANGED vars
  BY <1>1 DEF vars, Keeps
<1>2. CASE MessageFails
  BY <1>2 DEF MessageFails, Fault, Faulty
<1>3. CASE Seek
  <2>1. PICK u \in Units, p \in Targets :
          SeekTo(p, dsj, errors \cup UnitError(u), owed)
    BY <1>3 DEF Seek
  <2> QED
    BY <2>1 DEF SeekTo, Fault, Faulty, Keeps
<1>4. CASE ColdLoad
  <2>1. PICK p \in Targets : SeekTo(p, 0, {}, FALSE)
    BY <1>4 DEF ColdLoad
  <2> QED
    BY <2>1 DEF SeekTo, Fault, Faulty, Clears
<1>5. CASE SetsState \/ VerifyBegins \/ FormatBegins
  BY <1>5 DEF SetsState, VerifyBegins, FormatBegins, Named, Keeps
<1>6. CASE RequestLogicalAddress \/ Todo \/ VerifySector \/ VerifyEnds
           \/ FormatSector \/ ExecuteIdle \/ Identify
  BY <1>6 DEF RequestLogicalAddress, Todo, VerifySector, VerifyEnds,
              FormatSector, ExecuteIdle, Identify, Quiet, Keeps
<1>7. CASE VerifyFails
  BY <1>7 DEF VerifyFails, Fault, Faulty
<1>8. CASE FormatFails
  BY <1>8 DEF FormatFails, Fault, Faulty
<1>9. CASE BufferedRead \/ BufferedWrite
  <2>1. CASE AtEnd
    BY <1>9, <2>1 DEF BufferedRead, BufferedWrite, MovesOn, Fault, Faulty
  <2>2. CASE ~AtEnd
    BY <1>9, <2>2 DEF BufferedRead, BufferedWrite, MovesOn, Keeps
  <2> QED
    BY <2>1, <2>2
<1>10. CASE TransferTimesOut
  BY <1>10 DEF TransferTimesOut, Fault, Faulty
<1>11. CASE DiskFails
  BY <1>11, ErrorsNamed DEF DiskFails, Fault, Faulty
<1>12. CASE FormatEnds
  BY <1>12 DEF FormatEnds, Clears
<1>13. CASE SendStatus
  BY <1>13 DEF SendStatus, Forgotten, Fault, Clears, Faulty
<1>14. CASE SendLogicalAddress
  BY <1>14 DEF SendLogicalAddress, Keeps, Faulty
<1>15. CASE SendDsj \/ CmdClear
  BY <1>15 DEF SendDsj, CmdClear, Forgotten, Clears
<1>16. CASE Restart \/ KeyDuringWrite
  BY <1>16 DEF Restart, KeyDuringWrite, Restarted, Clears
<1> QED
  BY <1>1, <1>2, <1>3, <1>4, <1>5, <1>6, <1>7, <1>8, <1>9, <1>10, <1>11,
     <1>12, <1>13, <1>14, <1>15, <1>16
  DEF Next, Message, Loop, Transfer

(* A failed transfer is not forgotten before the host has asked.           *)
THEOREM KeepsFailures == Spec => []FailureIsKept
<1>1. Init => FailureIsKept
  BY DEF Init, FailureIsKept
<1>2. FailureIsKept /\ [Next]_vars => FailureIsKept'
  <2> SUFFICES ASSUME FailureIsKept, [Next]_vars, owed'
               PROVE  dsj' # 0
    BY DEF FailureIsKept
  <2>1. CASE Keeps
    BY <2>1 DEF Keeps, FailureIsKept
  <2>2. CASE Faulty
    BY <2>2 DEF Faulty
  <2>3. CASE Clears
    BY <2>3 DEF Clears
  <2> QED
    BY <2>1, <2>2, <2>3, Outcomes
<1> QED
  BY <1>1, <1>2, PTL DEF Spec

(* The host that is told of a fault can ask for its cause.                 *)
THEOREM FaultsHaveCauses == Spec => []FaultHasCause
<1>1. Init => FaultHasCause
  BY DEF Init, FaultHasCause
<1>2. FaultHasCause /\ [Next]_vars => FaultHasCause'
  BY Outcomes DEF Keeps, Faulty, Clears, FaultHasCause
<1> QED
  BY <1>1, <1>2, PTL DEF Spec

(* A disk that verifies or formats has its poll response off.              *)
Silent == phase # "task" => ~ppr

(* Each step into a loop turns the response off, each out of it on.        *)
LEMMA LoopPolls ==
  ASSUME Silent, [Next]_vars
  PROVE  /\ Silent'
         /\ phase # "task" /\ phase' = "task" => ppr'
<1>1. CASE VerifyBegins \/ FormatBegins
  BY <1>1 DEF VerifyBegins, FormatBegins, Silent
<1>2. CASE VerifySector \/ FormatSector
  BY <1>2 DEF VerifySector, FormatSector, Silent
<1>3. CASE VerifyFails \/ VerifyEnds \/ FormatFails \/ FormatEnds
  BY <1>3 DEF VerifyFails, VerifyEnds, FormatFails, FormatEnds, LoopEnds, Silent
<1>4. CASE Message
  <2>1. phase = "task" /\ phase' = phase
    BY <1>4 DEF Message, MessageFails, Seek, ColdLoad, SetsState, RequestLogicalAddress,
       Todo, AtTask
  <2> QED
    BY <2>1 DEF Silent
<1>5. CASE Transfer
  <2>1. phase = "task" /\ phase' = phase
    BY <1>5 DEF Transfer, ExecuteIdle, BufferedRead, BufferedWrite, TransferTimesOut,
       DiskFails, SendStatus, SendLogicalAddress, SendDsj, Execute, AtTask
  <2> QED
    BY <2>1 DEF Silent
<1>6. CASE CmdClear \/ Identify \/ Restart \/ KeyDuringWrite
  <2>1. phase = "task" /\ phase' = phase
    BY <1>6 DEF CmdClear, Identify, Restart, KeyDuringWrite, Restarted, AtTask
  <2> QED
    BY <2>1 DEF Silent
<1>7. CASE UNCHANGED vars
  BY <1>7 DEF vars, Silent
<1> QED
  BY <1>1, <1>2, <1>3, <1>4, <1>5, <1>6, <1>7 DEF Next, Loop

(* While the disk verifies or formats it does not answer a parallel poll,  *)
(* and it answers when that is over, whatever ended it.                    *)
THEOREM PollsAfterWork == Spec => PollFollowsWork
<1>1. Init => Silent
  BY DEF Init, Silent
<1>2. Silent /\ [Next]_vars => Silent'
  BY LoopPolls
<1>3. Silent /\ [Next]_vars =>
        [/\ phase' # "task" => ~ppr'
         /\ phase # "task" /\ phase' = "task" => ppr']_vars
  BY LoopPolls DEF Silent
<1> QED
  BY <1>1, <1>2, <1>3, PTL DEF Spec, PollFollowsWork

(***************************************************************************)
(* The line of sectors.                                                    *)
(***************************************************************************)
LEMMA ModSmall ==
  ASSUME NEW n \in Nat, NEW m \in Nat, n < m
  PROVE  n % m = n
  OBVIOUS

LEMMA WrappedSame ==
  ASSUME NEW n \in 0 .. IntMax
  PROVE  Wrapped(n) = n
<1> DEFINE w == 2 * (IntMax + 1)
<1>1. w \in Nat /\ n + IntMax + 1 \in Nat /\ n + IntMax + 1 < w
  BY Consts
<1>2. Wrapped(n) = ((n + IntMax + 1) % w) - (IntMax + 1)
  BY DEF Wrapped, w
<1> HIDE DEF w
<1>3. (n + IntMax + 1) % w = n + IntMax + 1
  BY <1>1, ModSmall
<1> QED
  BY <1>2, <1>3, Consts

(* Where on the line of sectors a position is.                             *)
Place(p) == Track * p.head + Cylinder * p.cyl + p.sector

(* That is what amigo_chs_to_logical returns as long as its products fit.  *)
LEMMA LbaIsPlace ==
  ASSUME ProductsFit, NEW p \in Geometry, p \in Positions
  PROVE  Lba(p) = Place(p)
<1> DEFINE a == Track * p.head
           b == Cylinder * p.cyl
<1>1. /\ p.cyl \in Nat /\ p.head \in Nat /\ p.sector \in Nat
      /\ p.sector < Track
  BY GeometryTyped
<1>2. a \in 0 .. IntMax /\ b \in 0 .. IntMax
  BY <1>1, Consts, Sizes, TimesNat DEF ProductsFit
<1>3. Wrapped(Wrapped(Cylinder) * p.cyl) = b
  <2>1. CASE p.cyl = 0
    <3>1. Wrapped(Cylinder) \in Int
      BY WrappedInt, Sizes, Consts
    <3>2. Wrapped(Cylinder) * p.cyl = 0 /\ b = 0
      BY <2>1, <3>1, Sizes
    <3>3. Wrapped(0) = 0
      BY WrappedSame, Consts
    <3> HIDE DEF b
    <3> QED
      BY <3>2, <3>3
  <2>2. CASE p.cyl # 0
    <3>1. Cylinder \in Nat /\ p.cyl \in Nat /\ 1 \in Nat /\ 1 <= p.cyl
      BY <1>1, <2>2, Sizes
    <3>2. Cylinder * 1 <= Cylinder * p.cyl
      BY ONLY <3>1, TimesMonotonic
    <3>3. Cylinder * 1 = Cylinder
      BY <3>1
    <3>4. Cylinder \in 0 .. IntMax
      BY <1>2, <3>1, <3>2, <3>3, Consts
    <3>5. Wrapped(Cylinder) * p.cyl = b
      BY <3>4, WrappedSame
    <3> HIDE DEF b
    <3> QED
      BY <1>2, <3>5, WrappedSame
  <2> QED
    BY <2>1, <2>2
<1>4. Wrapped(Track * p.head) = a
  BY <1>2, WrappedSame
<1>5. Lba(p) = (a + b + p.sector) % Reach
  BY <1>3, <1>4 DEF Lba
<1> HIDE DEF a, b
<1>6. a + b + p.sector \in Nat /\ Reach \in Nat /\ a + b + p.sector < Reach
  BY <1>1, <1>2, Consts
<1>7. (a + b + p.sector) % Reach = a + b + p.sector
  BY <1>6, ModSmall
<1> QED
  BY <1>5, <1>7 DEF Place, a, b

LEMMA Quotient ==
  ASSUME NEW n \in Nat, NEW d \in Nat \ {0}
  PROVE  LET q == n \div d
         IN  q \in Nat /\ d * q <= n /\ n < d * q + d
  OBVIOUS

LEMMA ModAround ==
  ASSUME NEW m \in Nat \ {0}, NEW n \in -m .. 2 * m - 1
  PROVE  /\ m <= n => n % m = n - m
         /\ n < 0 => n % m = n + m
  OBVIOUS

(* A product just too large for an int wraps to a negative number, and the *)
(* DWORD it becomes lies far beyond the disk.                              *)
LEMMA WrapsOnce ==
  ASSUME NEW n \in IntMax + 1 .. 2 * IntMax + 1
  PROVE  /\ Wrapped(n) = n - 2 * (IntMax + 1)
         /\ Wrapped(Wrapped(n)) = Wrapped(n)
         /\ Wrapped(n) % Reach # n
<1> DEFINE w == 2 * (IntMax + 1)
           m == n - w
<1>1. /\ w \in Nat \ {0} /\ n \in Nat /\ m \in Int /\ m = n - w
      /\ n + IntMax + 1 \in Nat /\ n + IntMax + 1 = (m + IntMax + 1) + w
      /\ m + IntMax + 1 \in Nat /\ m + IntMax + 1 < w
      /\ m < 0 /\ m + Reach \in Nat /\ m + Reach < Reach /\ m + Reach # n
      /\ Reach \in Nat \ {0} /\ -Reach <= m
  BY Consts
<1>2. \A k \in Int : Wrapped(k) = ((k + IntMax + 1) % w) - (IntMax + 1)
  BY DEF Wrapped, w
<1> HIDE DEF w, m
<1>3. (m + IntMax + 1) % w = m + IntMax + 1
  BY <1>1, ModSmall
<1>4. (n + IntMax + 1) % w = m + IntMax + 1
  BY <1>1, ModAround
<1>5. /\ Wrapped(n) = ((n + IntMax + 1) % w) - (IntMax + 1)
      /\ Wrapped(m) = ((m + IntMax + 1) % w) - (IntMax + 1)
  BY <1>1, <1>2
<1>6. Wrapped(n) = m /\ Wrapped(m) = m
  <2>1. (m + IntMax + 1) - (IntMax + 1) = m
    BY <1>1, Consts
  <2> QED
    BY ONLY <1>3, <1>4, <1>5, <2>1, Zenon
<1>7. m \in -Reach .. 2 * Reach - 1 /\ Reach \in Nat \ {0}
  BY <1>1
<1>8. m % Reach = m + Reach
  BY <1>1, <1>7, ModAround
<1> QED
  BY <1>1, <1>6, <1>8 DEF m, w

(* The first multiple of d that is too large is not twice as large.        *)
LEMMA FirstTooLarge ==
  ASSUME NEW d \in 1 .. IntMax, NEW n \in Nat, d * n > IntMax
  PROVE  \E k \in 0 .. n : d * k \in IntMax + 1 .. 2 * IntMax + 1
<1> DEFINE q == IntMax \div d
<1>1. q \in Nat /\ d * q <= IntMax /\ IntMax < d * q + d
  BY Consts, Quotient
<1> HIDE DEF q
<1>2. q + 1 \in Nat /\ d * (q + 1) = d * q + d /\ d * q \in Nat /\ d \in Nat
  BY <1>1, Consts, TimesNat, TimesNext
<1>3. d * (q + 1) \in IntMax + 1 .. 2 * IntMax + 1
  BY <1>1, <1>2, Consts
<1>4. ASSUME n < q + 1 PROVE FALSE
  <2>1. d * n <= d * q
    BY <1>1, <1>2, <1>4, TimesMonotonic
  <2>2. d * n \in Nat
    BY <1>2, TimesNat
  <2> QED
    BY <1>1, <1>2, <2>1, <2>2, Consts
<1> QED
  BY <1>2, <1>3, <1>4

LEMMA AtSectorZero ==
  ASSUME GeometryFitsBytes, NEW c \in 0 .. Cylinders - 1, NEW h \in 0 .. Heads - 1
  PROVE  [cyl |-> c, head |-> h, sector |-> 0] \in Geometry \cap Positions
  BY Consts DEF GeometryFitsBytes, Geometry, Positions, Bytes, Track

(* No weaker hypothesis would do: amigo_chs_to_logical counts the sectors  *)
(* of the disk in their order exactly when none of its products wraps.     *)
THEOREM ProductsMustFit ==
  ASSUME GeometryFitsBytes
  PROVE  ProductsFit <=> \A p \in Geometry : Lba(p) = Place(p)
<1>1. ASSUME ProductsFit PROVE \A p \in Geometry : Lba(p) = Place(p)
  BY <1>1, GeometryTyped, LbaIsPlace
<1> DEFINE At(c, h) == [cyl |-> c, head |-> h, sector |-> 0]
<1>2. 0 \in 0 .. Cylinders - 1 /\ 0 \in 0 .. Heads - 1
  BY Consts
<1>3. Wrapped(0) = 0 /\ Wrapped(Cylinder) \in Int
  BY WrappedSame, WrappedInt, Consts, Sizes
<1>4. ASSUME \A p \in Geometry : Lba(p) = Place(p),
             NEW h \in 0 .. Heads - 1, Track * h > IntMax
      PROVE  FALSE
  <2>1. PICK k \in 0 .. h : Track * k \in IntMax + 1 .. 2 * IntMax + 1
    <3>1. Track \in 1 .. IntMax /\ h \in Nat
      BY Consts
    <3> QED
      BY <1>4, <3>1, FirstTooLarge
  <2>2. k \in 0 .. Heads - 1
    BY <2>1, Consts
  <2>3. Lba(At(0, k)) = Place(At(0, k))
    BY <1>2, <1>4, <2>2, AtSectorZero
  <2>4. Wrapped(Cylinder) * 0 = 0 /\ Cylinder * 0 = 0
    BY <1>3, Sizes
  <2>5. Lba(At(0, k)) = (Wrapped(Track * k) + 0 + 0) % Reach
    BY <1>3, <2>4 DEF Lba
  <2>6. Place(At(0, k)) = Track * k + 0 + 0
    BY <2>4 DEF Place
  <2>7. Wrapped(Track * k) \in Int /\ Track * k \in Int
    BY <2>1, WrappedInt, Consts
  <2> QED
    BY <2>1, <2>3, <2>5, <2>6, <2>7, WrapsOnce
<1>5. ASSUME \A p \in Geometry : Lba(p) = Place(p),
             NEW c \in 0 .. Cylinders - 1, Cylinder * c > IntMax
      PROVE  FALSE
  <2>1. Cylinder <= 2 * IntMax
    <3>1. Heads - 1 \in Nat /\ Heads - 1 \in 0 .. Heads - 1
      BY Consts
    <3>2. ~(Track * (Heads - 1) > IntMax)
      BY <1>4, <1>5, <3>1
    <3>3. Track * Heads = Track * (Heads - 1) + Track
      BY <3>1, Consts, TimesNext
    <3>4. Track * (Heads - 1) \in Nat
      BY <3>1, Consts, TimesNat
    <3> QED
      BY <3>2, <3>3, <3>4, Sizes, Consts
  <2>2. PICK k \in 0 .. c :
          /\ Cylinder * k \in IntMax + 1 .. 2 * IntMax + 1
          /\ Wrapped(Wrapped(Cylinder) * k) = Wrapped(Cylinder * k)
    <3>1. CASE Cylinder <= IntMax
      <4>1. Wrapped(Cylinder) = Cylinder /\ Cylinder \in 1 .. IntMax
        BY <3>1, Sizes, Consts, WrappedSame
      <4> QED
        BY <1>5, <4>1, FirstTooLarge
    <3>2. CASE Cylinder > IntMax
      <4>1. Cylinder * 0 = 0 /\ Cylinder * 1 = Cylinder
        BY Sizes
      <4>2. 1 \in 0 .. c
        BY <1>5, <4>1, Consts
      <4>3. Wrapped(Cylinder) * 1 = Wrapped(Cylinder)
        BY <1>3
      <4>4. Cylinder \in IntMax + 1 .. 2 * IntMax + 1
        BY <2>1, <3>2, Sizes, Consts
      <4> QED
        BY <4>1, <4>2, <4>3, <4>4, WrapsOnce
    <3> QED
      BY <3>1, <3>2, Sizes, Consts
  <2>3. k \in 0 .. Cylinders - 1
    BY <2>2, Consts
  <2>4. Lba(At(k, 0)) = Place(At(k, 0))
    BY <1>2, <1>5, <2>3, AtSectorZero
  <2>5. Track * 0 = 0
    BY Sizes
  <2>6. Lba(At(k, 0)) = (0 + Wrapped(Cylinder * k) + 0) % Reach
    BY <1>3, <2>2, <2>5 DEF Lba
  <2>7. Place(At(k, 0)) = 0 + Cylinder * k + 0
    BY <2>5 DEF Place
  <2>8. Wrapped(Cylinder * k) \in Int /\ Cylinder * k \in Int
    BY <2>2, WrappedInt, Consts
  <2> QED
    BY <2>2, <2>4, <2>6, <2>7, <2>8, WrapsOnce
<1>6. ASSUME \A p \in Geometry : Lba(p) = Place(p) PROVE ProductsFit
  <2>1. \A n \in Int : n > IntMax \/ n <= IntMax
    BY Consts
  <2>2. ASSUME NEW p \in Geometry
        PROVE  /\ p.head \in 0 .. Heads - 1 /\ p.cyl \in 0 .. Cylinders - 1
               /\ Track * p.head \in Int /\ Cylinder * p.cyl \in Int
    BY Consts, Sizes DEF Geometry
  <2> QED
    BY <1>4, <1>5, <1>6, <2>1, <2>2 DEF ProductsFit
<1> QED
  BY <1>1, <1>6

LEMMA PlaceStart == Place(Start) = 0
<1>1. Track * 0 = 0 /\ Cylinder * 0 = 0
  BY Sizes
<1> QED
  BY <1>1 DEF Place, Start

LEMMA LbaStart == Lba(Start) = 0
<1>1. Track * 0 = 0 /\ Wrapped(Cylinder) * 0 = 0
  BY Sizes, WrappedInt, Consts
<1>2. Wrapped(0) = 0 /\ 0 % Reach = 0
  BY WrappedSame, ModSmall, Consts
<1> QED
  BY <1>1, <1>2 DEF Lba, Start

(* What chs_to_logical multiplies, as plain numbers.                       *)
LEMMA InCylinder ==
  ASSUME NEW h \in Nat, NEW s \in Nat, h < Heads, s < Track
  PROVE  Track * h \in Nat /\ Track * h + s < Cylinder
<1>1. h + 1 <= Heads /\ h + 1 \in Nat
  BY Consts
<1>2. Track * (h + 1) <= Track * Heads
  BY <1>1, Consts, TimesMonotonic
<1>3. Track * (h + 1) = Track * h + Track /\ Track * h \in Nat
  BY Consts, TimesNext, TimesNat
<1> QED
  BY <1>2, <1>3, Sizes

LEMMA InDisk ==
  ASSUME NEW c \in Nat, NEW r \in Nat, c < Cylinders, r < Cylinder
  PROVE  Cylinder * c \in Nat /\ Cylinder * c + r < Total
<1>1. c + 1 <= Cylinders /\ c + 1 \in Nat
  BY Consts
<1>2. Cylinder * (c + 1) <= Cylinder * Cylinders
  BY <1>1, Consts, Sizes, TimesMonotonic
<1>3. Cylinder * (c + 1) = Cylinder * c + Cylinder /\ Cylinder * c \in Nat
  BY Sizes, TimesNext, TimesNat
<1> QED
  BY <1>2, <1>3, Sizes

LEMMA PlaceInDisk ==
  ASSUME NEW p \in Geometry
  PROVE  Place(p) \in Disk
<1>1. /\ p.cyl \in Nat /\ p.head \in Nat /\ p.sector \in Nat
      /\ p.cyl < Cylinders /\ p.head < Heads /\ p.sector < Track
  BY GeometryTyped
<1>2. Track * p.head \in Nat /\ Track * p.head + p.sector < Cylinder
  BY <1>1, InCylinder
<1>3. /\ Cylinder * p.cyl \in Nat
      /\ Cylinder * p.cyl + (Track * p.head + p.sector) < Total
  BY <1>1, <1>2, InDisk
<1>4. Place(p) = Cylinder * p.cyl + (Track * p.head + p.sector)
  BY <1>1, <1>2, <1>3 DEF Place
<1> QED
  BY <1>1, <1>2, <1>3, <1>4, Sizes DEF Disk

LEMMA LbaInDisk ==
  ASSUME ProductsFit, NEW p \in Geometry, p \in Positions
  PROVE  Lba(p) \in Disk
  BY LbaIsPlace, PlaceInDisk

LEMMA PlaceRecord ==
  ASSUME NEW c, NEW h, NEW s
  PROVE  Place([cyl |-> c, head |-> h, sector |-> s])
           = Track * h + Cylinder * c + s
  BY DEF Place

(* The number of the last sector, and of the one after any other.          *)
LEMMA PlaceStep ==
  ASSUME GeometryFitsBytes, pos \in Geometry
  PROVE  /\ AtEnd => Place(pos) + 1 = Total
         /\ ~AtEnd => Place(Normal(NextSector(pos))) = Place(pos) + 1
<1> DEFINE c == pos.cyl
           h == pos.head
           s == pos.sector
           p == NextSector(pos)
<1>1. /\ c \in Nat /\ h \in Nat /\ s \in Nat
      /\ c < Cylinders /\ h < Heads /\ s < Track
  BY GeometryTyped
<1>2. Track < Byte /\ Heads < Byte /\ Cylinders < Byte
  BY DEF GeometryFitsBytes, Track
<1>3. (s + 1) % Byte = s + 1 /\ (h + 1) % Byte = h + 1 /\ (c + 1) % Byte = c + 1
  <2>1. /\ s + 1 \in Nat /\ h + 1 \in Nat /\ c + 1 \in Nat
        /\ s + 1 < Byte /\ h + 1 < Byte /\ c + 1 < Byte
    BY <1>1, <1>2, Consts
  <2> QED
    BY <2>1, ModByte
<1>4. p = [cyl |-> c, head |-> h, sector |-> s + 1]
  BY <1>3 DEF NextSector
<1>5. /\ Track * h \in Nat /\ Cylinder * c \in Nat
      /\ Track * (h + 1) = Track * h + Track
      /\ Cylinder * (c + 1) = Cylinder * c + Cylinder
      /\ Track * 0 = 0
  BY <1>1, Sizes, TimesNext, TimesNat
<1>6. Place(pos) = Track * h + Cylinder * c + s
  BY DEF Place
<1>7. AtEnd <=> s + 1 >= Track /\ h + 1 >= Heads /\ c + 1 >= Cylinders
  BY <1>3, <1>4 DEF AtEnd, Overflows
<1>8. ASSUME AtEnd
      PROVE  Place(pos) + 1 = Total
  <2>1. s + 1 = Track /\ h + 1 = Heads /\ c + 1 = Cylinders
    BY <1>1, <1>7, <1>8, Consts
  <2>2. Track * Heads = Track * h + Track
    BY <1>5, <2>1
  <2>3. Cylinder * Cylinders = Cylinder * c + Cylinder
    BY <1>5, <2>1
  <2> QED
    BY <1>1, <1>5, <1>6, <2>1, <2>2, <2>3, Sizes
<1>9. ASSUME ~AtEnd
      PROVE  Place(Normal(p)) = Place(pos) + 1
  <2>2. CASE s + 1 < Track
    <3>1. Normal(p) = [cyl |-> c, head |-> h, sector |-> s + 1]
      BY <1>4, <2>2 DEF Normal
    <3>2. Place(Normal(p)) = Track * h + Cylinder * c + (s + 1)
      BY <3>1, PlaceRecord
    <3> QED
      BY <3>2, <1>1, <1>5, <1>6
  <2>3. CASE ~(s + 1 < Track) /\ h + 1 < Heads
    <3>1. s + 1 = Track
      BY <1>1, <2>3, Consts
    <3>2. Normal(p) = [cyl |-> c, head |-> h + 1, sector |-> 0]
      BY <1>3, <1>4, <2>3 DEF Normal
    <3>3. Place(Normal(p)) = Track * (h + 1) + Cylinder * c + 0
      BY <3>2, PlaceRecord
    <3> QED
      BY <3>1, <3>3, <1>1, <1>5, <1>6, Consts
  <2>4. CASE ~(s + 1 < Track) /\ ~(h + 1 < Heads)
    <3>1. s + 1 = Track /\ h + 1 = Heads
      BY <1>1, <2>4, Consts
    <3>2. Normal(p) = [cyl |-> c + 1, head |-> 0, sector |-> 0]
      BY <1>3, <1>4, <2>4 DEF Normal
    <3>3. Place(Normal(p)) = Track * 0 + Cylinder * (c + 1) + 0
      BY <3>2, PlaceRecord
    <3>4. Cylinder = Track * h + Track
      BY <3>1, <1>5, Sizes
    <3> QED
      BY <3>1, <3>3, <3>4, <1>1, <1>5, <1>6, Consts, Sizes
  <2> QED
    BY <2>2, <2>3, <2>4
<1> QED
  BY <1>8, <1>9

LEMMA LbaStep ==
  ASSUME GeometryFitsBytes, ProductsFit, pos \in Geometry
  PROVE  /\ AtEnd => Lba(pos) + 1 = Total
         /\ ~AtEnd => /\ Normal(NextSector(pos)) \in Geometry
                      /\ Lba(Normal(NextSector(pos))) = Lba(pos) + 1
<1>1. pos \in Positions /\ Lba(pos) = Place(pos)
  BY GeometryTyped, LbaIsPlace
<1>2. ASSUME ~AtEnd
      PROVE  /\ Normal(NextSector(pos)) \in Geometry
             /\ Lba(Normal(NextSector(pos))) = Place(Normal(NextSector(pos)))
  <2>1. NextSector(pos) \in Positions
    BY <1>1, NextTyped
  <2>2. NextSector(pos).cyl < Cylinders /\ NextSector(pos).head < Heads
    BY GeometryTyped DEF NextSector
  <2>3. Normal(NextSector(pos)) \in Geometry
    BY <1>2, <2>1, <2>2, NormalInGeometry DEF AtEnd
  <2> QED
    BY <2>3, GeometryTyped, LbaIsPlace
<1> QED
  BY <1>1, <1>2, PlaceStep

(***************************************************************************)
(* The position stays on the disk, and the image as long as it was.        *)
(***************************************************************************)
LEMMA StoreKeepsSize ==
  ASSUME ProductsFit, TypeOK, InGeometry, NEW d, Store(d)
  PROVE  size' = Total
<1>1. Lba(pos) \in Disk /\ size = Total
  BY LbaInDisk DEF InGeometry, TypeOK
<1> QED
  BY <1>1, Sizes DEF Store, Larger, Disk

LEMMA AccessKeepsSize ==
  ASSUME ProductsFit, TypeOK, InGeometry, NEW e, ReadFails(e) \/ WriteFails(e)
  PROVE  size' = Total
<1>1. Lba(pos) \in Disk /\ size = Total
  BY LbaInDisk DEF InGeometry, TypeOK
<1>2. Larger(size, Lba(pos)) = Total
  BY <1>1, Sizes DEF Larger, Disk
<1>5. LseekGrows => size' = Total
  BY <1>1, <1>2, Sizes DEF LseekGrows
<1>3. CASE ReadFails(e)
  BY <1>3, <1>5 DEF ReadFails
<1>4. CASE WriteFails(e)
  BY <1>4, <1>5, StoreKeepsSize DEF WriteFails
<1> QED
  BY <1>3, <1>4

LEMMA SeekInGeometry ==
  ASSUME HostInGeometry, pos \in Geometry, NEW p \in Targets,
         NEW d, NEW e, NEW o, SeekTo(p, d, e, o)
  PROVE  pos' \in Geometry
<1>1. p \in Positions /\ p.cyl < Cylinders /\ p.head < Heads
  BY Consts DEF HostInGeometry
<1>2. CASE Overflows(p)
  BY <1>2 DEF SeekTo
<1>3. CASE ~Overflows(p)
  BY <1>1, <1>3, NormalInGeometry DEF SeekTo
<1> QED
  BY <1>2, <1>3

LEMMA StepOnDisk ==
  ASSUME HostInGeometry, TypeOK, pos \in Geometry, [Next]_vars
  PROVE  pos' \in Geometry
<1>1. CASE UNCHANGED vars
  BY <1>1 DEF vars
<1>2. CASE Seek
  BY <1>2, SeekInGeometry DEF Seek
<1>3. CASE ColdLoad
  BY <1>3, SeekInGeometry DEF ColdLoad
<1>4. CASE MessageFails \/ SetsState \/ RequestLogicalAddress \/ Todo
           \/ VerifyBegins \/ VerifyFails \/ VerifyEnds \/ FormatFails
           \/ ExecuteIdle \/ TransferTimesOut \/ DiskFails \/ SendStatus
           \/ SendLogicalAddress \/ SendDsj \/ Identify
  BY <1>4 DEF MessageFails, SetsState, RequestLogicalAddress, Todo,
    VerifyBegins, VerifyFails, VerifyEnds, FormatFails, ExecuteIdle,
    TransferTimesOut, DiskFails, SendStatus, SendLogicalAddress, SendDsj,
    Identify, Quiet
<1>5. CASE VerifySector \/ FormatSector \/ BufferedRead \/ BufferedWrite
  <2>1. Advance /\ pos \in Positions
    BY <1>5
    DEF VerifySector, FormatSector, BufferedRead, BufferedWrite, MovesOn, TypeOK
  <2> QED
    BY <2>1, AdvanceInGeometry
<1>6. CASE FormatBegins \/ FormatEnds \/ CmdClear \/ Restart \/ KeyDuringWrite
  BY <1>6, StartTyped
  DEF FormatBegins, FormatEnds, CmdClear, Restart, KeyDuringWrite, Restarted
<1> QED
  BY <1>1, <1>2, <1>3, <1>4, <1>5, <1>6 DEF Next, Message, Loop, Transfer

LEMMA StepKeepsSize ==
  ASSUME ProductsFit, TypeOK, InGeometry, [Next]_vars
  PROVE  size' = Total
<1>1. CASE UNCHANGED size
  BY <1>1 DEF InGeometry
<1>2. CASE \E d : Store(d)
  BY <1>2, StoreKeepsSize
<1>3. CASE \E e : ReadFails(e) \/ WriteFails(e)
  BY <1>3, AccessKeepsSize
<1>4. UNCHANGED size \/ (\E d : Store(d)) \/ (\E e : ReadFails(e) \/ WriteFails(e))
  <2>1. CASE UNCHANGED vars
    BY <2>1 DEF vars, file
  <2>2. CASE MessageFails \/ Seek \/ ColdLoad \/ SetsState
             \/ RequestLogicalAddress \/ Todo \/ VerifyBegins \/ VerifySector
             \/ VerifyEnds \/ FormatBegins \/ ExecuteIdle \/ BufferedRead
             \/ TransferTimesOut \/ SendStatus \/ SendLogicalAddress
             \/ SendDsj \/ CmdClear \/ Identify \/ Restart
    BY <2>2 DEF MessageFails, Seek, ColdLoad, SetsState,
      RequestLogicalAddress, Todo, VerifyBegins, VerifySector, VerifyEnds,
      FormatBegins, ExecuteIdle, BufferedRead, TransferTimesOut, SendStatus,
      SendLogicalAddress, SendDsj, CmdClear, Identify, Restart, Quiet, file
  <2>3. CASE FormatSector \/ FormatEnds \/ BufferedWrite \/ KeyDuringWrite
    BY <2>3 DEF FormatSector, FormatEnds, BufferedWrite, KeyDuringWrite
  <2>4. CASE VerifyFails \/ FormatFails \/ DiskFails
    BY <2>4 DEF VerifyFails, FormatFails, DiskFails
  <2> QED
    BY <2>1, <2>2, <2>3, <2>4 DEF Next, Message, Loop, Transfer
<1> QED
  BY <1>1, <1>2, <1>3, <1>4

LEMMA StepInGeometry ==
  ASSUME HostInGeometry, ProductsFit, TypeOK, InGeometry, [Next]_vars
  PROVE  InGeometry'
  BY StepOnDisk, StepKeepsSize DEF InGeometry

OnDisk == pos \in Geometry

(* If the host names cylinders and heads the disk has, the disk's position *)
(* is always one of its own, whatever the numbers of its geometry.         *)
THEOREM StaysOnDisk ==
  ASSUME HostInGeometry
  PROVE  Spec => []OnDisk
<1>1. Init => OnDisk
  BY StartTyped DEF Init, OnDisk
<1>2. TypeOK /\ OnDisk /\ [Next]_vars => OnDisk'
  BY StepOnDisk DEF OnDisk
<1> QED
  BY <1>1, <1>2, TypeCorrect, PTL DEF Spec

(* If moreover no product of amigo_chs_to_logical wraps as an int, no      *)
(* access makes the image file grow.                                       *)
THEOREM StaysInGeometry ==
  ASSUME HostInGeometry, ProductsFit
  PROVE  Spec => []InGeometry
<1>1. Init => InGeometry
  BY StartTyped DEF Init, InGeometry
<1>2. TypeOK /\ InGeometry /\ [Next]_vars => InGeometry'
  BY StepInGeometry
<1> QED
  BY <1>1, <1>2, TypeCorrect, PTL DEF Spec

(***************************************************************************)
(* The refinement of SectorDisk.                                           *)
(***************************************************************************)
LEMMA SectorsAreDisk == Line!Sectors = Disk
  BY DEF Line!Sectors, Disk

LEMMA SeeksLine ==
  ASSUME GeometryFitsBytes, ProductsFit, pos' \in Geometry, UNCHANGED image,
         dsj' = dsj \/ dsj' = 0
  PROVE  Line!Seek
<1>1. Lba(pos') \in Line!Sectors
  BY GeometryTyped, LbaInDisk, SectorsAreDisk
<1> QED
  BY <1>1 DEF Line!Seek

LEMMA FailsLine ==
  ASSUME UNCHANGED pos, dsj' = 1,
         UNCHANGED image \/ \E d \in Data : Store(d)
  PROVE  Line!Fail
  BY DEF Line!Fail, Line!Put, Store

LEMMA RestartsLine ==
  ASSUME pos' = Start,
         UNCHANGED image \/ \E d \in Data : Store(d)
  PROVE  Line!Restart
  BY LbaStart DEF Line!Restart, Line!Put, Store

LEMMA NextInSectors ==
  ASSUME GeometryFitsBytes, ProductsFit, pos \in Geometry
  PROVE  /\ Lba(pos) \in Int
         /\ AtEnd => Lba(pos) + 1 \notin Line!Sectors
         /\ ~AtEnd => Lba(pos) + 1 \in Line!Sectors
<1>1. Lba(pos) \in Disk
  BY GeometryTyped, LbaInDisk
<1>2. ASSUME AtEnd PROVE Lba(pos) + 1 \notin Disk
  BY <1>2, LbaStep, Sizes DEF Disk
<1>3. ASSUME ~AtEnd PROVE Lba(pos) + 1 \in Disk
  BY <1>3, LbaStep, GeometryTyped, LbaInDisk
<1> QED
  BY <1>1, <1>2, <1>3, SectorsAreDisk, Sizes DEF Disk

LEMMA AdvancesLine ==
  ASSUME GeometryFitsBytes, ProductsFit, pos \in Geometry, Advance,
         AtEnd => dsj' = 1, ~AtEnd => dsj' = dsj
  PROVE  Line!Advance
<1>1. CASE AtEnd
  BY <1>1, LbaStep, NextInSectors DEF Advance, Line!Advance
<1>2. CASE ~AtEnd
  BY <1>2, LbaStep, NextInSectors DEF Advance, Line!Advance
<1> QED
  BY <1>1, <1>2

LEMMA InitLine == Init => Line!Init
  BY LbaStart, SectorsAreDisk DEF Init, Line!Init

LEMMA StepLine ==
  ASSUME HostInGeometry, GeometryFitsBytes, ProductsFit, TypeOK, InGeometry, [Next]_vars
  PROVE  [Line!Next]_(Line!vars)
<1> USE DEF InGeometry
<1>1. pos' \in Geometry
  BY StepOnDisk
<1>2. CASE UNCHANGED <<pos, dsj, image>>
  BY <1>2 DEF Line!vars
<1>3. CASE MessageFails
  BY <1>3, FailsLine DEF MessageFails, Fault, file, Line!Next
<1>4. CASE Seek
  <2>1. PICK u \in Units, p \in Targets :
          SeekTo(p, dsj, errors \cup UnitError(u), owed)
    BY <1>4 DEF Seek
  <2>2. UNCHANGED image
    BY <1>4 DEF Seek, file
  <2>3. CASE Overflows(p)
    BY <2>1, <2>2, <2>3, FailsLine DEF SeekTo, Fault, Line!Next
  <2>4. CASE ~Overflows(p)
    BY <2>1, <2>2, <2>4, <1>1, SeeksLine DEF SeekTo, Line!Next
  <2> QED
    BY <2>3, <2>4
<1>5. CASE ColdLoad
  <2>1. PICK p \in Targets : SeekTo(p, 0, {}, FALSE)
    BY <1>5 DEF ColdLoad
  <2>2. UNCHANGED image
    BY <1>5 DEF ColdLoad, file
  <2>3. CASE Overflows(p)
    BY <2>1, <2>2, <2>3, FailsLine DEF SeekTo, Fault, Line!Next
  <2>4. CASE ~Overflows(p)
    BY <2>1, <2>2, <2>4, <1>1, SeeksLine DEF SeekTo, Line!Next
  <2> QED
    BY <2>3, <2>4
<1>6. CASE SetsState \/ RequestLogicalAddress \/ Todo \/ VerifyBegins
           \/ VerifyEnds \/ ExecuteIdle \/ Identify
  BY <1>2, <1>6 DEF SetsState, RequestLogicalAddress, Todo, VerifyBegins,
    VerifyEnds, ExecuteIdle, Identify, Quiet, file
<1>7. CASE VerifySector
  <2>1. Line!Advance
    BY <1>7, AdvancesLine DEF VerifySector
  <2> QED
    BY <1>7, <2>1 DEF VerifySector, file, Line!Next, Line!Read
<1>8. CASE VerifyFails
  BY <1>8, FailsLine DEF VerifyFails, ReadFails, Fault, Line!Next
<1>9. CASE FormatBegins
  BY <1>1, <1>9, SeeksLine DEF FormatBegins, file, Line!Next
<1>10. CASE FormatSector
  <2>1. Lba(pos') = Lba(pos) + 1 /\ Lba(pos) + 1 \in Line!Sectors
    BY <1>10, LbaStep, NextInSectors DEF FormatSector, Advance
  <2>2. PICK d \in HostData : Store(d)
    BY <1>10 DEF FormatSector
  <2>3. d \in Data /\ image' = [image EXCEPT ![Lba(pos)] = d]
    BY <2>2 DEF Store, Data
  <2>4. dsj' = dsj
    BY <1>10 DEF FormatSector
  <2>5. Line!FormatSector
    BY <2>1, <2>3, <2>4 DEF Line!FormatSector, Line!Put
  <2> QED
    BY <2>5 DEF Line!Next
<1>11. CASE FormatEnds
  <2>1. Lba(pos) + 1 \notin Line!Sectors
    <3>1. Lba(pos) \in Disk /\ AtEnd
      BY <1>11, GeometryTyped, LbaInDisk DEF FormatEnds
    <3>2. Lba(pos) + 1 = Total
      BY <3>1, LbaStep
    <3> QED
      BY <3>2, SectorsAreDisk, Sizes DEF Disk
  <2>2. PICK d \in HostData : Store(d)
    BY <1>11 DEF FormatEnds
  <2>3. d \in Data /\ image' = [image EXCEPT ![Lba(pos)] = d]
    BY <2>2 DEF Store, Data
  <2>4. Lba(pos') = 0 /\ dsj' = 0
    BY <1>11, LbaStart DEF FormatEnds
  <2>5. Line!FormatSector
    BY <2>1, <2>3, <2>4 DEF Line!FormatSector, Line!Put
  <2> QED
    BY <2>5 DEF Line!Next
<1>12. CASE FormatFails
  BY <1>12, FailsLine DEF FormatFails, WriteFails, Fault, file, Data, Line!Next
<1>13. CASE BufferedRead \/ BufferedWrite
  <2>1. Advance /\ (AtEnd => dsj' = 1) /\ (~AtEnd => dsj' = dsj)
    BY <1>13 DEF BufferedRead, BufferedWrite, MovesOn, Fault
  <2>2. Line!Advance
    BY <2>1, AdvancesLine
  <2>3. CASE BufferedRead
    BY <2>2, <2>3 DEF BufferedRead, file, Line!Next, Line!Read
  <2>4. CASE BufferedWrite
    <3>1. \E d \in Data : Line!Put(d)
      BY <2>4 DEF BufferedWrite, Store, Data, Line!Put
    <3> QED
      BY <2>2, <3>1 DEF Line!Next, Line!Write
  <2> QED
    BY <1>13, <2>3, <2>4
<1>14. CASE TransferTimesOut
  BY <1>14, FailsLine DEF TransferTimesOut, Fault, file, Line!Next
<1>15. CASE DiskFails
  BY <1>15, FailsLine DEF DiskFails, ReadFails, WriteFails, Fault, file, Data, Line!Next
<1>16. CASE SendStatus
  <2>1. UNCHANGED <<pos, image>> /\ (dsj' = 0 \/ dsj' = 1)
    BY <1>16 DEF SendStatus, Forgotten, Fault, file
  <2>2. CASE dsj' = 0
    BY <2>1, <2>2 DEF Line!Told, Line!Next
  <2>3. CASE dsj' = 1
    BY <2>1, <2>3, FailsLine DEF Line!Next
  <2> QED
    BY <2>1, <2>2, <2>3
<1>17. CASE SendLogicalAddress
  <2>1. UNCHANGED <<pos, image>> /\ (dsj' = dsj \/ dsj' = 1)
    BY <1>17 DEF SendLogicalAddress, file
  <2>2. CASE dsj' = dsj
    BY <1>2, <2>1, <2>2
  <2>3. CASE dsj' = 1
    BY <2>1, <2>3, FailsLine DEF Line!Next
  <2> QED
    BY <2>1, <2>2, <2>3
<1>18. CASE SendDsj
  BY <1>18 DEF SendDsj, Forgotten, file, Line!Told, Line!Next
<1>19. CASE CmdClear
  BY <1>19, RestartsLine DEF CmdClear, file, Line!Next
<1>20. CASE Restart
  BY <1>20, RestartsLine DEF Restart, Restarted, file, Line!Next
<1>21. CASE KeyDuringWrite
  BY <1>21, RestartsLine DEF KeyDuringWrite, Restarted, Data, Line!Next
<1>22. CASE UNCHANGED vars
  BY <1>2, <1>22 DEF vars, file
<1> QED
  BY <1>3, <1>4, <1>5, <1>6, <1>7, <1>8, <1>9, <1>10, <1>11, <1>12, <1>13,
     <1>14, <1>15, <1>16, <1>17, <1>18, <1>19, <1>20, <1>21, <1>22
  DEF Next, Message, Loop, Transfer

(* Cylinder, head and sector are one line of sectors, each transfer takes  *)
(* the next one, for every geometry whose numbers fit a uint8_t and whose  *)
(* products fit an int.                                                    *)
THEOREM DiskIsLine ==
  ASSUME HostInGeometry, GeometryFitsBytes, ProductsFit
  PROVE  Spec => ImplementsDisk
<1>1. Init => Line!Init
  BY InitLine
<1>2. TypeOK /\ InGeometry /\ [Next]_vars => [Line!Next]_(Line!vars)
  BY StepLine
<1>3. Spec => []InGeometry
  BY StaysInGeometry
<1> QED
  BY <1>1, <1>2, <1>3, TypeCorrect, PTL DEF Spec, ImplementsDisk, Line!Spec
=============================================================================
