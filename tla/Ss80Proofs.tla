------------------------------ MODULE Ss80Proofs ------------------------------
(***************************************************************************)
(* Proofs about Ss80 for every block size, disk size, chunk, word size and *)
(* every set of addresses, lengths and units the host may use.             *)
(***************************************************************************)
EXTENDS Ss80, TLAPS

(***************************************************************************)
(* Constants, names and arithmetic.                                        *)
(***************************************************************************)
LEMMA Consts ==
  /\ BytesPerBlock \in Nat \ {0} /\ Chunk \in Nat \ {0}
  /\ Word \in Nat \ {0} /\ IntMax \in Nat \ {0} /\ MaxBlock \in Nat
  /\ Blocks \subseteq 0 .. Word - 1 /\ Lengths \subseteq 0 .. Word - 1
  /\ 0 \in 0 .. Word - 1
  BY Ss80Assumption DEF Ss80Assumption

LEMMA Names ==
  /\ "task" \in Phases /\ "command" \in Phases /\ "transparent" \in Phases
  /\ "read" \in Phases /\ "write" \in Phases
  /\ "IDLE" \in Estates /\ "LOCATE_AND_READ" \in Estates
  /\ "LOCATE_AND_WRITE" \in Estates /\ "SEND_STATUS" \in Estates
  /\ "DESCRIBE" \in Estates
  BY DEF Phases, Estates

LEMMA ErrorsNamed ==
  /\ {} \subseteq ErrorNames /\ {"UNIT"} \subseteq ErrorNames
  /\ {"SEEK"} \subseteq ErrorNames /\ {"GPIB"} \subseteq ErrorNames
  /\ {"WRITE"} \subseteq ErrorNames /\ {"SEEK", "WRITE"} \subseteq ErrorNames
  /\ \A e \in DiskErrors : e \subseteq ErrorNames
  /\ SUBSET {"WP"} \subseteq SUBSET ErrorNames
  BY DEF ErrorNames, DiskErrors

LEMMA NoJobTyped == NoJob \in Jobs
  BY DEF NoJob, Jobs

(* What \div and % return.                                                 *)
LEMMA DivBounds ==
  ASSUME NEW n \in Nat, NEW d \in Nat \ {0}
  PROVE  n \div d \in Nat /\ n \div d <= n /\ n < ((n \div d) + 1) * d
  OBVIOUS

LEMMA DivMonotonic ==
  ASSUME NEW m \in Nat, NEW n \in Nat, NEW d \in Nat \ {0}, m <= n
  PROVE  m \div d <= n \div d
  OBVIOUS

LEMMA ModBounds ==
  ASSUME NEW n \in Int, NEW d \in Nat \ {0}
  PROVE  /\ n % d \in 0 .. d - 1
         /\ n \in 0 .. d - 1 => n % d = n
  OBVIOUS

LEMMA TimesNat ==
  ASSUME NEW m \in Nat, NEW n \in Nat
  PROVE  m * n \in Nat
  OBVIOUS

LEMMA TimesMonotonic ==
  ASSUME NEW m \in Nat, NEW n \in Nat, NEW d \in Nat, m <= n
  PROVE  m * d <= n * d
  OBVIOUS

LEMMA Bytes2BlocksTyped ==
  ASSUME NEW n \in 0 .. Word - 1
  PROVE  Bytes2Blocks(n) \in 0 .. Word - 1
  BY Consts, DivBounds DEF Bytes2Blocks

LEMMA Blocks2BytesTyped ==
  ASSUME NEW b \in 0 .. Word - 1
  PROVE  Blocks2Bytes(b) \in 0 .. Word - 1
  BY Consts, TimesNat, ModBounds DEF Blocks2Bytes

LEMMA ToIntTyped ==
  ASSUME NEW n \in Nat
  PROVE  /\ ToInt(n) \in Int
         /\ n < IntMax => ToInt(n) = n
  BY Consts DEF ToInt

LEMMA PieceTyped ==
  ASSUME count \in Int, count > 0
  PROVE  Piece \in Nat \ {0} /\ Piece <= count
  BY Consts DEF Piece, Smaller

(***************************************************************************)
(* Types.                                                                  *)
(***************************************************************************)

LEMMA ExecutedTyped ==
  ASSUME Executed
  PROVE  /\ phase' \in Phases /\ estate' \in Estates /\ ppr' \in BOOLEAN
         /\ address' \in 0 .. Word - 1 /\ count' \in Int /\ skip' \in BOOLEAN
  <1>1. phase' \in Phases /\ estate' \in Estates
    BY Names DEF Executed
  <1>2. ppr' \in BOOLEAN
    BY DEF Executed
  <1>3. address' \in 0 .. Word - 1 /\ count' \in Int
    BY Consts DEF Executed, LocalsDie
  <1>4. skip' \in BOOLEAN
    BY DEF Executed, LocalsDie
  <1>5. QED
    BY <1>1, <1>2, <1>3, <1>4

LEMMA RestartTyped ==
  ASSUME TypeOK, Restart
  PROVE  TypeOK'
  <1>1. phase' \in Phases /\ estate' \in Estates
    BY Names DEF Restart
  <1>2. qstat' \in 0 .. 2 /\ errors' \subseteq ErrorNames
    BY DEF Restart
  <1>3. unitNO' \in {0, 15} /\ volNO' = 0
    BY DEF Restart
  <1>4. addressBlocks' \in 0 .. Word - 1 /\ length' \in 0 .. Word - 1
    BY Consts DEF Restart
  <1>5. /\ ppr' \in BOOLEAN /\ unread' \in BOOLEAN /\ key' \in BOOLEAN
        /\ skip' \in BOOLEAN
    BY DEF Restart, LocalsDie
  <1>6. address' \in 0 .. Word - 1 /\ count' \in Int
    BY Consts DEF Restart, LocalsDie
  <1>7. job' \in Jobs /\ invented' \subseteq Nat
    BY NoJobTyped DEF TypeOK, Restart
  <1>8. QED
    BY <1>1, <1>2, <1>3, <1>4, <1>5, <1>6, <1>7 DEF TypeOK

LEMMA ClearTyped ==
  ASSUME TypeOK, NEW u, ClearCommon(u)
  PROVE  /\ estate' \in Estates /\ qstat' \in 0 .. 2
         /\ errors' \subseteq ErrorNames
         /\ unitNO' \in {0, 15} /\ volNO' = 0
         /\ addressBlocks' \in 0 .. Word - 1 /\ length' \in 0 .. Word - 1
         /\ job' \in Jobs
  BY Consts, Names, NoJobTyped DEF TypeOK, ClearCommon, settings

LEMMA AmigoClearTyped ==
  ASSUME TypeOK, AmigoClear
  PROVE  TypeOK'
  <1>1. /\ estate' \in Estates /\ qstat' \in 0 .. 2
        /\ errors' \subseteq ErrorNames
        /\ unitNO' \in {0, 15} /\ volNO' = 0
        /\ addressBlocks' \in 0 .. Word - 1 /\ length' \in 0 .. Word - 1
        /\ job' \in Jobs
    BY ClearTyped DEF TypeOK, AmigoClear, settings
  <1>2. ppr' \in BOOLEAN /\ unread' \in BOOLEAN
    BY DEF TypeOK, AmigoClear
  <1>3. QED
    BY <1>1, <1>2 DEF TypeOK, AmigoClear, locals

LEMMA ReadTimesOutTyped ==
  ASSUME TypeOK, ReadTimesOut
  PROVE  TypeOK'
  <1>1. /\ phase' \in Phases /\ estate' \in Estates /\ ppr' \in BOOLEAN
        /\ address' \in 0 .. Word - 1 /\ count' \in Int /\ skip' \in BOOLEAN
    BY ExecutedTyped DEF ReadTimesOut
  <1>2. job' \in Jobs
    BY PieceTyped DEF TypeOK, ReadTimesOut, InTransfer, Jobs
  <1>3. errors' \subseteq ErrorNames
    BY ErrorsNamed DEF TypeOK, ReadTimesOut
  <1>4. addressBlocks' \in 0 .. Word - 1
    BY Bytes2BlocksTyped DEF TypeOK, ReadTimesOut
  <1>5. QED
    BY <1>1, <1>2, <1>3, <1>4 DEF TypeOK, ReadTimesOut, InTransfer

LEMMA ReadChunkTyped ==
  ASSUME TypeOK, ReadChunk
  PROVE  TypeOK'
  <1>1. job' \in Jobs
    BY PieceTyped DEF TypeOK, ReadChunk, InTransfer, Jobs
  <1>2. address' \in 0 .. Word - 1 /\ count' \in Int
    BY Consts, PieceTyped, ModBounds DEF TypeOK, ReadChunk, InTransfer
  <1>3. QED
    BY <1>1, <1>2 DEF TypeOK, ReadChunk, InTransfer

LEMMA BeginsTyped ==
  ASSUME TypeOK, NEW op \in {"read", "write"}, Begins(op)
  PROVE  job' \in Jobs
  BY Consts, TimesNat DEF TypeOK, Begins, Jobs

LEMMA ExecuteReadTyped ==
  ASSUME TypeOK, ExecuteRead
  PROVE  TypeOK'
  <1>1. job' \in Jobs
    BY BeginsTyped DEF ExecuteRead
  <1>2. CASE SeekFails
    <2>1. /\ phase' \in Phases /\ estate' \in Estates /\ ppr' \in BOOLEAN
          /\ address' \in 0 .. Word - 1 /\ count' \in Int /\ skip' \in BOOLEAN
      BY <1>2, ExecutedTyped DEF ExecuteRead
    <2>2. errors' \subseteq ErrorNames
      BY <1>2, ErrorsNamed DEF TypeOK, ExecuteRead
    <2>3. QED
      BY <1>1, <2>1, <2>2 DEF TypeOK, ExecuteRead
  <1>3. CASE ~SeekFails
    <2>1. phase' \in Phases /\ ppr' \in BOOLEAN
      BY <1>3, Names DEF ExecuteRead
    <2>2. address' \in 0 .. Word - 1 /\ count' \in Int
      BY <1>3, Blocks2BytesTyped DEF TypeOK, ExecuteRead
    <2>3. QED
      BY <1>1, <1>3, <2>1, <2>2 DEF TypeOK, ExecuteRead
  <1>4. QED
    BY <1>2, <1>3

LEMMA ExecuteWriteTyped ==
  ASSUME TypeOK, ExecuteWrite
  PROVE  TypeOK'
  <1>1. job' \in Jobs
    BY BeginsTyped DEF ExecuteWrite
  <1>2. phase' \in Phases /\ ppr' \in BOOLEAN
    BY Names DEF ExecuteWrite
  <1>3. errors' \subseteq ErrorNames /\ qstat' \in 0 .. 2
    BY ErrorsNamed DEF TypeOK, ExecuteWrite
  <1>4. skip' \in BOOLEAN
    BY DEF ExecuteWrite, SeekFails
  <1>5. address' \in 0 .. Word - 1 /\ count' \in Int
    BY Blocks2BytesTyped, ToIntTyped DEF TypeOK, ExecuteWrite
  <1>6. QED
    BY <1>1, <1>2, <1>3, <1>4, <1>5 DEF TypeOK, ExecuteWrite

LEMMA StoreTyped ==
  ASSUME TypeOK, NEW m \in Nat, NEW n \in Nat, NEW eoi \in BOOLEAN,
         Store(m, n, eoi)
  PROVE  /\ job' \in Jobs /\ address' \in 0 .. Word - 1 /\ skip' \in BOOLEAN
         /\ errors' \subseteq ErrorNames /\ qstat' \in 0 .. 2
         /\ invented' \subseteq Nat
  <1>1. job' \in Jobs
    BY DEF TypeOK, Store, Jobs
  <1>2. address' \in 0 .. Word - 1
    BY Consts, ModBounds DEF TypeOK, Store
  <1>3. skip' \in BOOLEAN
    BY DEF TypeOK, Store
  <1>4. errors' \subseteq ErrorNames
    BY ErrorsNamed DEF TypeOK, Store
  <1>5. qstat' \in 0 .. 2
    BY DEF TypeOK, Store
  <1>6. address .. address + n - 1 \subseteq Nat
    BY Consts DEF TypeOK
  <1>7. invented' \subseteq Nat
    BY <1>6 DEF TypeOK, Store
  <1>8. QED
    BY <1>1, <1>2, <1>3, <1>4, <1>5, <1>7

(* Each of the three actions that store a piece takes at least as much off *)
(* count.                                                                  *)
LEMMA WriteStores ==
  ASSUME TypeOK, WriteChunk \/ WriteKey \/ WriteAtn
  PROVE  \E m \in Nat, n \in Nat, eoi \in BOOLEAN :
           /\ Store(m, n, eoi) /\ m <= n /\ n <= count
           /\ count' \in Int /\ count' <= count - n
  <1>1. count > 0 /\ Piece \in Nat \ {0} /\ Piece <= count /\ count \in Int
    BY PieceTyped DEF TypeOK, WriteChunk, WriteKey, WriteAtn, InTransfer
  <1>2. CASE WriteChunk
    <2>1. PICK n \in 1 .. Piece, eoi \in BOOLEAN :
            Store(n, n, eoi) /\ count' = IF eoi THEN 0 ELSE count - n
      BY <1>2 DEF WriteChunk
    <2>2. /\ n \in Nat /\ n <= n /\ n <= count
          /\ count' \in Int /\ count' <= count - n
      BY <1>1, <2>1
    <2>3. QED
      BY <2>1, <2>2, Zenon
  <1>3. CASE WriteKey
    <2>1. PICK m \in 0 .. Piece - 1 : Store(m, Piece, FALSE)
      BY <1>3 DEF WriteKey
    <2>2. m \in Nat /\ Piece \in Nat /\ m <= Piece
      BY <1>1, <2>1
    <2>3. count' \in Int /\ count' <= count - Piece
      BY <1>1, <1>3 DEF WriteKey
    <2>4. QED
      BY <1>1, <2>1, <2>2, <2>3, Zenon
  <1>4. CASE WriteAtn
    <2>1. PICK n \in 0 .. Piece - 1 : Store(n, n, FALSE) /\ count' = count - n
      BY <1>4 DEF WriteAtn
    <2>2. /\ n \in Nat /\ n <= n /\ n <= count
          /\ count' \in Int /\ count' <= count - n
      BY <1>1, <2>1
    <2>3. QED
      BY <2>1, <2>2, Zenon
  <1>5. QED
    BY <1>2, <1>3, <1>4

LEMMA WriteTyped ==
  ASSUME TypeOK, WriteChunk \/ WriteKey \/ WriteAtn
  PROVE  TypeOK'
  <1>1. /\ job' \in Jobs /\ address' \in 0 .. Word - 1 /\ skip' \in BOOLEAN
        /\ errors' \subseteq ErrorNames /\ qstat' \in 0 .. 2
        /\ invented' \subseteq Nat /\ count' \in Int
    BY WriteStores, StoreTyped
  <1>2. unread' \in BOOLEAN /\ key' \in BOOLEAN
    BY DEF TypeOK, WriteChunk, WriteKey, WriteAtn
  <1>3. QED
    BY <1>1, <1>2 DEF TypeOK, WriteChunk, WriteKey, WriteAtn, InTransfer

LEMMA TypeStep ==
  ASSUME TypeOK, [Next]_vars
  PROVE  TypeOK'
  <1>1. CASE CommandState
    BY <1>1, Names DEF TypeOK, CommandState, AtTask, settings, locals, ghosts
  <1>2. CASE MessageFails
    BY <1>2 DEF TypeOK, MessageFails, AtTask, settings, locals, ghosts
  <1>3. CASE SetUnit
    BY <1>3, ErrorsNamed DEF TypeOK, SetUnit, Opcode, settings, locals,
       ghosts
  <1>4. CASE SetVolume
    BY <1>4, ErrorsNamed DEF TypeOK, SetVolume, Opcode, settings, locals,
       ghosts
  <1>5. CASE SetAddress
    BY <1>5, Consts DEF TypeOK, SetAddress, Opcode, settings, locals, ghosts
  <1>6. CASE SetLength
    BY <1>6, Consts DEF TypeOK, SetLength, Opcode, settings, locals, ghosts
  <1>7. CASE CommandEnds
    BY <1>7, Names DEF TypeOK, CommandEnds, Opcode, settings, locals, ghosts
  <1>8. CASE TransparentState
    BY <1>8, Names DEF TypeOK, TransparentState, AtTask, settings, locals,
       ghosts
  <1>9. CASE TransparentEnds
    BY <1>9, Names DEF TypeOK, TransparentEnds, Opcode, settings, locals,
       ghosts
  <1>10. CASE ChannelIndependentClear
    BY <1>10, Consts, Names, NoJobTyped DEF TypeOK, ChannelIndependentClear,
       ClearCommon, settings, locals, ghosts
  <1>11. CASE Cancel
    BY <1>11, Names DEF TypeOK, Cancel, Opcode, settings, locals, ghosts
  <1>12. CASE ReadUnread
    BY <1>12 DEF TypeOK, ReadUnread, settings, locals, ghosts
  <1>13. CASE DeviceClear
    BY <1>13, Consts, Names, NoJobTyped DEF TypeOK, DeviceClear, AtTask,
       ClearCommon, settings, locals, ghosts
  <1>14. CASE AmigoClear
    BY <1>14, AmigoClearTyped
  <1>15. CASE Identify
    BY <1>15 DEF TypeOK, Identify, AtTask, settings, locals, ghosts
  <1>16. CASE Report
    BY <1>16, NoJobTyped DEF TypeOK, Report, AtTask, settings, locals, ghosts
  <1>17. CASE ExecuteNothing
    BY <1>17, ExecutedTyped DEF TypeOK, ExecuteNothing, AtTask, settings,
       locals, ghosts
  <1>18. CASE ExecuteRead
    BY <1>18, ExecuteReadTyped
  <1>19. CASE ExecuteWrite
    BY <1>19, ExecuteWriteTyped
  <1>20. CASE ReadChunk
    BY <1>20, ReadChunkTyped
  <1>21. CASE ReadTimesOut
    BY <1>21, ReadTimesOutTyped
  <1>22. CASE ReadDiskFails
    BY <1>22, ErrorsNamed, ExecutedTyped DEF TypeOK, ReadDiskFails,
       InTransfer, settings, locals, ghosts
  <1>23. CASE ReadEnds
    BY <1>23, ExecutedTyped, Bytes2BlocksTyped DEF TypeOK, ReadEnds,
       settings, locals, ghosts
  <1>24. CASE WriteChunk
    BY <1>24, WriteTyped
  <1>25. CASE WriteKey
    BY <1>25, WriteTyped
  <1>26. CASE WriteAtn
    BY <1>26, WriteTyped
  <1>27. CASE WriteTimesOut
    BY <1>27, ErrorsNamed, ExecutedTyped, Bytes2BlocksTyped DEF TypeOK,
       WriteTimesOut, InTransfer, settings, locals, ghosts
  <1>28. CASE WriteEnds
    BY <1>28, ExecutedTyped, Bytes2BlocksTyped, RestartTyped DEF TypeOK,
       WriteEnds, settings, locals, ghosts
  <1>29. CASE WriteSpins
    BY <1>29 DEF TypeOK, WriteSpins, vars, settings, locals, ghosts
  <1>30. CASE BusReset
    BY <1>30, RestartTyped DEF BusReset
  <1>31. CASE KeyHit
    BY <1>31, RestartTyped DEF KeyHit
  <1>32. CASE UNCHANGED vars
    BY <1>32 DEF TypeOK, vars, settings, locals, ghosts
  <1>33. QED
    BY <1>1, <1>2, <1>3, <1>4, <1>5, <1>6, <1>7, <1>8, <1>9, <1>10, <1>11,
       <1>12, <1>13, <1>14, <1>15, <1>16, <1>17, <1>18, <1>19, <1>20, <1>21,
       <1>22, <1>23, <1>24, <1>25, <1>26, <1>27, <1>28, <1>29, <1>30, <1>31,
       <1>32 DEF Next, Message, Transfer

LEMMA TypeInit ==
  ASSUME Init
  PROVE  TypeOK
  <1>1. phase \in Phases /\ estate \in Estates
    BY Names DEF Init
  <1>2. qstat \in 0 .. 2 /\ errors \subseteq ErrorNames
    BY DEF Init
  <1>3. unitNO \in {0, 15} /\ volNO = 0
    BY DEF Init
  <1>4. addressBlocks \in 0 .. Word - 1 /\ length \in 0 .. Word - 1
    BY Consts DEF Init
  <1>5. /\ ppr \in BOOLEAN /\ unread \in BOOLEAN /\ key \in BOOLEAN
        /\ skip \in BOOLEAN
    BY DEF Init
  <1>6. address \in 0 .. Word - 1 /\ count \in Int
    BY Consts DEF Init
  <1>7. job \in Jobs /\ invented \subseteq Nat
    BY NoJobTyped DEF Init
  <1>8. QED
    BY <1>1, <1>2, <1>3, <1>4, <1>5, <1>6, <1>7 DEF TypeOK

(* Every variable keeps its type: an address stays a uint32_t, and estate, *)
(* qstat, Errors and the unit stay among the values the handlers know.     *)
THEOREM TypeCorrect == Spec => []TypeOK
  <1>1. Init => TypeOK
    BY TypeInit
  <1>2. TypeOK /\ [Next]_vars => TypeOK'
    BY TypeStep
  <1>3. QED
    BY <1>1, <1>2, PTL DEF Spec

(***************************************************************************)
(* The parallel poll.                                                      *)
(***************************************************************************)
LEMMA SilentStep ==
  ASSUME BusyIsSilent, [Next]_vars
  PROVE  BusyIsSilent'
  <1>1. CASE CommandState
    BY <1>1 DEF BusyIsSilent, CommandState, AtTask
  <1>2. CASE MessageFails
    BY <1>2 DEF BusyIsSilent, MessageFails, AtTask
  <1>3. CASE SetUnit
    BY <1>3 DEF BusyIsSilent, SetUnit, Opcode
  <1>4. CASE SetVolume
    BY <1>4 DEF BusyIsSilent, SetVolume, Opcode
  <1>5. CASE SetAddress
    BY <1>5 DEF BusyIsSilent, SetAddress, Opcode
  <1>6. CASE SetLength
    BY <1>6 DEF BusyIsSilent, SetLength, Opcode
  <1>7. CASE CommandEnds
    BY <1>7 DEF BusyIsSilent, CommandEnds, Opcode
  <1>8. CASE TransparentState
    BY <1>8 DEF BusyIsSilent, TransparentState, AtTask
  <1>9. CASE TransparentEnds
    BY <1>9 DEF BusyIsSilent, TransparentEnds, Opcode
  <1>10. CASE ChannelIndependentClear
    BY <1>10 DEF BusyIsSilent, ChannelIndependentClear
  <1>11. CASE Cancel
    BY <1>11 DEF BusyIsSilent, Cancel, Opcode
  <1>12. CASE ReadUnread
    BY <1>12 DEF BusyIsSilent, ReadUnread
  <1>13. CASE DeviceClear
    BY <1>13 DEF BusyIsSilent, DeviceClear, AtTask
  <1>14. CASE AmigoClear
    BY <1>14 DEF BusyIsSilent, AmigoClear, AtTask
  <1>15. CASE Identify
    BY <1>15 DEF BusyIsSilent, Identify, AtTask
  <1>16. CASE Report
    BY <1>16 DEF BusyIsSilent, Report, AtTask
  <1>17. CASE ExecuteNothing
    BY <1>17 DEF BusyIsSilent, ExecuteNothing, AtTask, Executed
  <1>18. CASE ExecuteRead
    BY <1>18 DEF BusyIsSilent, ExecuteRead, AtTask, Executed
  <1>19. CASE ExecuteWrite
    BY <1>19 DEF BusyIsSilent, ExecuteWrite, AtTask
  <1>20. CASE ReadChunk
    BY <1>20 DEF BusyIsSilent, ReadChunk, InTransfer
  <1>21. CASE ReadTimesOut
    BY <1>21 DEF BusyIsSilent, ReadTimesOut, InTransfer, Executed
  <1>22. CASE ReadDiskFails
    BY <1>22 DEF BusyIsSilent, ReadDiskFails, InTransfer, Executed
  <1>23. CASE ReadEnds
    BY <1>23 DEF BusyIsSilent, ReadEnds, Executed
  <1>24. CASE WriteChunk
    BY <1>24 DEF BusyIsSilent, WriteChunk, InTransfer
  <1>25. CASE WriteKey
    BY <1>25 DEF BusyIsSilent, WriteKey, InTransfer
  <1>26. CASE WriteAtn
    BY <1>26 DEF BusyIsSilent, WriteAtn, InTransfer
  <1>27. CASE WriteTimesOut
    BY <1>27 DEF BusyIsSilent, WriteTimesOut, InTransfer, Executed
  <1>28. CASE WriteEnds
    BY <1>28 DEF BusyIsSilent, WriteEnds, Restart, Executed
  <1>29. CASE WriteSpins
    BY <1>29 DEF BusyIsSilent, WriteSpins, vars, settings, locals, ghosts
  <1>30. CASE BusReset
    BY <1>30 DEF BusyIsSilent, BusReset, Restart
  <1>31. CASE KeyHit
    BY <1>31 DEF BusyIsSilent, KeyHit, Restart
  <1>32. CASE UNCHANGED vars
    BY <1>32 DEF BusyIsSilent, vars, settings, locals, ghosts
  <1>33. QED
    BY <1>1, <1>2, <1>3, <1>4, <1>5, <1>6, <1>7, <1>8, <1>9, <1>10, <1>11,
       <1>12, <1>13, <1>14, <1>15, <1>16, <1>17, <1>18, <1>19, <1>20, <1>21,
       <1>22, <1>23, <1>24, <1>25, <1>26, <1>27, <1>28, <1>29, <1>30, <1>31,
       <1>32 DEF Next, Message, Transfer

(* A device that is taking a message or moving data never answers a        *)
(* parallel poll: every handler that reads or sends data disables the      *)
(* response first, and only its end enables it again.                      *)
THEOREM BusySilent == Spec => []BusyIsSilent
  <1>1. Init => BusyIsSilent
    BY DEF Init, BusyIsSilent
  <1>2. BusyIsSilent /\ [Next]_vars => BusyIsSilent'
    BY SilentStep
  <1>3. QED
    BY <1>1, <1>2, PTL DEF Spec

(***************************************************************************)
(* What a write puts in the image.                                         *)
(***************************************************************************)
NoKeyInv == NothingInvented /\ ~key

LEMMA StoreInventsNothing ==
  ASSUME TypeOK, NothingInvented, NEW n \in Nat, NEW eoi, Store(n, n, eoi)
  PROVE  NothingInvented'
  <1>1. address \in Int
    BY Consts DEF TypeOK
  <1>2. {i \in address .. address + n - 1 : i >= address + n} = {}
    BY <1>1
  <1>3. QED
    BY <1>2 DEF NothingInvented, Store

LEMMA NoKeyStep ==
  ASSUME ~KeyHits, TypeOK, NoKeyInv, [Next]_vars
  PROVE  NoKeyInv'
  <1>1. CASE CommandState
    BY <1>1 DEF NoKeyInv, NothingInvented, CommandState, ghosts
  <1>2. CASE MessageFails
    BY <1>2 DEF NoKeyInv, NothingInvented, MessageFails, ghosts
  <1>3. CASE SetUnit
    BY <1>3 DEF NoKeyInv, NothingInvented, SetUnit, Opcode, ghosts
  <1>4. CASE SetVolume
    BY <1>4 DEF NoKeyInv, NothingInvented, SetVolume, Opcode, ghosts
  <1>5. CASE SetAddress
    BY <1>5 DEF NoKeyInv, NothingInvented, SetAddress, Opcode, ghosts
  <1>6. CASE SetLength
    BY <1>6 DEF NoKeyInv, NothingInvented, SetLength, Opcode, ghosts
  <1>7. CASE CommandEnds
    BY <1>7 DEF NoKeyInv, NothingInvented, CommandEnds, Opcode, ghosts
  <1>8. CASE TransparentState
    BY <1>8 DEF NoKeyInv, NothingInvented, TransparentState, ghosts
  <1>9. CASE TransparentEnds
    BY <1>9 DEF NoKeyInv, NothingInvented, TransparentEnds, Opcode, ghosts
  <1>10. CASE ChannelIndependentClear
    BY <1>10 DEF NoKeyInv, NothingInvented, ChannelIndependentClear, ghosts
  <1>11. CASE Cancel
    BY <1>11 DEF NoKeyInv, NothingInvented, Cancel, Opcode, ghosts
  <1>12. CASE ReadUnread
    BY <1>12 DEF NoKeyInv, NothingInvented, ReadUnread, ghosts
  <1>13. CASE DeviceClear
    BY <1>13 DEF NoKeyInv, NothingInvented, DeviceClear, ghosts
  <1>14. CASE AmigoClear
    BY <1>14 DEF NoKeyInv, NothingInvented, AmigoClear, ghosts
  <1>15. CASE Identify
    BY <1>15 DEF NoKeyInv, NothingInvented, Identify, ghosts
  <1>16. CASE Report
    BY <1>16 DEF NoKeyInv, NothingInvented, Report, ghosts
  <1>17. CASE ExecuteNothing
    BY <1>17 DEF NoKeyInv, NothingInvented, ExecuteNothing, Executed, ghosts
  <1>18. CASE ExecuteRead
    BY <1>18 DEF NoKeyInv, NothingInvented, ExecuteRead, Executed, ghosts
  <1>19. CASE ExecuteWrite
    BY <1>19 DEF NoKeyInv, NothingInvented, ExecuteWrite, ghosts
  <1>20. CASE ReadChunk
    BY <1>20 DEF NoKeyInv, NothingInvented, ReadChunk, InTransfer, ghosts
  <1>21. CASE ReadTimesOut
    BY <1>21 DEF NoKeyInv, NothingInvented, ReadTimesOut, InTransfer,
       Executed, ghosts
  <1>22. CASE ReadDiskFails
    BY <1>22 DEF NoKeyInv, NothingInvented, ReadDiskFails, InTransfer,
       Executed, ghosts
  <1>23. CASE ReadEnds
    BY <1>23 DEF NoKeyInv, NothingInvented, ReadEnds, Executed, ghosts
  <1>24. CASE WriteChunk
    BY <1>24, PieceTyped, StoreInventsNothing DEF NoKeyInv, TypeOK,
       WriteChunk, InTransfer
  <1>25. CASE WriteKey
    BY <1>25 DEF WriteKey
  <1>26. CASE WriteAtn
    <2>1. count > 0 /\ Piece \in Nat \ {0} /\ ~key'
      BY <1>26, PieceTyped DEF NoKeyInv, TypeOK, WriteAtn, InTransfer
    <2>2. PICK n \in 0 .. Piece - 1 : Store(n, n, FALSE)
      BY <1>26 DEF WriteAtn
    <2>3. n \in Nat
      BY <2>1, <2>2
    <2>4. NothingInvented'
      BY <2>2, <2>3, StoreInventsNothing, Zenon DEF NoKeyInv
    <2>5. QED
      BY <2>1, <2>4 DEF NoKeyInv
  <1>27. CASE WriteTimesOut
    BY <1>27 DEF NoKeyInv, NothingInvented, WriteTimesOut, InTransfer,
       Executed, ghosts
  <1>28. CASE WriteEnds
    BY <1>28 DEF NoKeyInv, NothingInvented, WriteEnds, Restart, Executed,
       ghosts
  <1>29. CASE WriteSpins
    BY <1>29 DEF NoKeyInv, NothingInvented, WriteSpins, vars, settings,
       locals, ghosts
  <1>30. CASE BusReset
    BY <1>30 DEF NoKeyInv, NothingInvented, BusReset, Restart, ghosts
  <1>31. CASE KeyHit
    BY <1>31 DEF NoKeyInv, NothingInvented, KeyHit, Restart, ghosts
  <1>32. CASE UNCHANGED vars
    BY <1>32 DEF NoKeyInv, NothingInvented, vars, settings, locals, ghosts
  <1>33. QED
    BY <1>1, <1>2, <1>3, <1>4, <1>5, <1>6, <1>7, <1>8, <1>9, <1>10, <1>11,
       <1>12, <1>13, <1>14, <1>15, <1>16, <1>17, <1>18, <1>19, <1>20, <1>21,
       <1>22, <1>23, <1>24, <1>25, <1>26, <1>27, <1>28, <1>29, <1>30, <1>31,
       <1>32 DEF Next, Message, Transfer

(* As long as no key is hit on the console, no byte of the image is ever   *)
(* overwritten with something the host has not sent: the padding of a cut  *)
(* off transfer never reaches the disk.                                    *)
THEOREM NeverInvents == ASSUME ~KeyHits PROVE Spec => []NothingInvented
  <1>1. Init => NoKeyInv
    BY DEF Init, NoKeyInv, NothingInvented
  <1>2. TypeOK /\ NoKeyInv /\ [Next]_vars => NoKeyInv'
    BY NoKeyStep
  <1>3. NoKeyInv => NothingInvented
    BY DEF NoKeyInv
  <1>4. QED
    BY TypeCorrect, <1>1, <1>2, <1>3, PTL DEF Spec

(***************************************************************************)
(* Addresses.  NoOverflow is the condition under which the 32-bit and      *)
(* 16-bit arithmetic of a transfer is exact.                               *)
(***************************************************************************)
Reached == addressBlocks \in Addresses /\ length \in Lengths \cup {0}

LEMMA ZeroReached == 0 \in Addresses /\ 0 \in Lengths \cup {0}
  <1>1. Word - 1 \in 0 .. Word - 1
    BY Consts
  <1>2. Bytes2Blocks(Word - 1) \in Nat
    BY <1>1, Consts, Bytes2BlocksTyped
  <1>3. QED
    BY <1>2 DEF Addresses

LEMMA TransferReaches ==
  ASSUME NEW n \in 0 .. Word - 1
  PROVE  Bytes2Blocks(n) \in Addresses
  <1>1. n \in Nat /\ Word - 1 \in Nat /\ n <= Word - 1
    BY Consts
  <1>2. n \div BytesPerBlock <= (Word - 1) \div BytesPerBlock
    BY <1>1, Consts, DivMonotonic
  <1>3. /\ n \div BytesPerBlock \in Nat
        /\ (Word - 1) \div BytesPerBlock \in Nat
    BY <1>1, Consts, DivBounds
  <1>4. QED
    BY <1>2, <1>3 DEF Bytes2Blocks, Addresses

LEMMA ReachedStep ==
  ASSUME TypeOK, Reached, [Next]_vars
  PROVE  Reached'
  <1>1. CASE CommandState
    BY <1>1 DEF Reached, CommandState, settings
  <1>2. CASE MessageFails
    BY <1>2 DEF Reached, MessageFails, settings
  <1>3. CASE SetUnit
    BY <1>3 DEF Reached, SetUnit
  <1>4. CASE SetVolume
    BY <1>4 DEF Reached, SetVolume
  <1>5. CASE SetAddress
    BY <1>5 DEF Reached, SetAddress, Addresses
  <1>6. CASE SetLength
    BY <1>6 DEF Reached, SetLength
  <1>7. CASE CommandEnds
    BY <1>7 DEF Reached, CommandEnds
  <1>8. CASE TransparentState
    BY <1>8 DEF Reached, TransparentState, settings
  <1>9. CASE TransparentEnds
    BY <1>9 DEF Reached, TransparentEnds, settings
  <1>10. CASE ChannelIndependentClear
    BY <1>10, ZeroReached DEF Reached, ChannelIndependentClear, ClearCommon,
       settings
  <1>11. CASE Cancel
    BY <1>11 DEF Reached, Cancel
  <1>12. CASE ReadUnread
    BY <1>12 DEF Reached, ReadUnread, settings
  <1>13. CASE DeviceClear
    BY <1>13, ZeroReached DEF Reached, DeviceClear, ClearCommon, settings
  <1>14. CASE AmigoClear
    BY <1>14, ZeroReached DEF Reached, AmigoClear, ClearCommon, settings
  <1>15. CASE Identify
    BY <1>15 DEF Reached, Identify, settings
  <1>16. CASE Report
    BY <1>16 DEF Reached, Report
  <1>17. CASE ExecuteNothing
    BY <1>17 DEF Reached, ExecuteNothing
  <1>18. CASE ExecuteRead
    BY <1>18 DEF Reached, ExecuteRead
  <1>19. CASE ExecuteWrite
    BY <1>19 DEF Reached, ExecuteWrite
  <1>20. CASE ReadChunk
    BY <1>20 DEF Reached, ReadChunk, InTransfer
  <1>21. CASE ReadTimesOut
    BY <1>21, TransferReaches DEF Reached, ReadTimesOut, TypeOK, InTransfer
  <1>22. CASE ReadDiskFails
    BY <1>22 DEF Reached, ReadDiskFails, InTransfer
  <1>23. CASE ReadEnds
    BY <1>23, TransferReaches DEF Reached, ReadEnds, TypeOK
  <1>24. CASE WriteChunk
    BY <1>24 DEF Reached, WriteChunk, InTransfer
  <1>25. CASE WriteKey
    BY <1>25 DEF Reached, WriteKey, InTransfer
  <1>26. CASE WriteAtn
    BY <1>26 DEF Reached, WriteAtn, InTransfer
  <1>27. CASE WriteTimesOut
    BY <1>27, TransferReaches DEF Reached, WriteTimesOut, TypeOK, InTransfer
  <1>28. CASE WriteEnds
    BY <1>28, TransferReaches, ZeroReached DEF Reached, WriteEnds, TypeOK,
       Restart
  <1>29. CASE WriteSpins
    BY <1>29 DEF Reached, WriteSpins, vars, settings, locals, ghosts
  <1>30. CASE BusReset
    BY <1>30, ZeroReached DEF Reached, BusReset, Restart
  <1>31. CASE KeyHit
    BY <1>31, ZeroReached DEF Reached, KeyHit, Restart
  <1>32. CASE UNCHANGED vars
    BY <1>32 DEF Reached, vars, settings, locals, ghosts
  <1>33. QED
    BY <1>1, <1>2, <1>3, <1>4, <1>5, <1>6, <1>7, <1>8, <1>9, <1>10, <1>11,
       <1>12, <1>13, <1>14, <1>15, <1>16, <1>17, <1>18, <1>19, <1>20, <1>21,
       <1>22, <1>23, <1>24, <1>25, <1>26, <1>27, <1>28, <1>29, <1>30, <1>31,
       <1>32 DEF Next, Message, Transfer

LEMMA ModWord == \A p \in 0 .. Word - 1 : p % Word = p
  BY Consts, ModBounds

LEMMA ImageSizeTyped == ImageSize \in Nat
  BY Consts, TimesNat DEF ImageSize

(* A seek that succeeds means the transfer fits.                           *)
LEMMA SeekAccepts ==
  ASSUME TypeOK, NoOverflow, Reached, ~SeekFails
  PROVE  /\ addressBlocks * BytesPerBlock \in Nat
         /\ Blocks2Bytes(addressBlocks) = addressBlocks * BytesPerBlock
         /\ addressBlocks * BytesPerBlock + length <= ImageSize
         /\ length \in Nat /\ ToInt(length) = length
  <1> DEFINE q == length \div BytesPerBlock
  <1>1. addressBlocks \in Nat /\ length \in Nat /\ length < IntMax
    BY Consts DEF TypeOK, NoOverflow, Reached
  <1>2. q \in Nat /\ length < (q + 1) * BytesPerBlock
    BY <1>1, Consts, DivBounds
  <1>3. addressBlocks + q < Word
    BY DEF NoOverflow, Reached, Bytes2Blocks
  <1>4. addressBlocks + q <= MaxBlock
    BY <1>1, <1>2, <1>3, Consts, ModBounds DEF SeekFails, Bytes2Blocks
  <1>5. (addressBlocks + q + 1) * BytesPerBlock <= ImageSize
    BY <1>1, <1>2, <1>4, Consts, TimesMonotonic DEF ImageSize
  <1>6. (addressBlocks + q + 1) * BytesPerBlock
          = addressBlocks * BytesPerBlock + (q + 1) * BytesPerBlock
    BY <1>1, <1>2, Consts
  <1>7. /\ addressBlocks * BytesPerBlock \in Nat
        /\ (q + 1) * BytesPerBlock \in Nat
    BY <1>1, <1>2, Consts, TimesNat
  <1>8. addressBlocks * BytesPerBlock + length <= ImageSize
    BY <1>1, <1>2, <1>5, <1>6, <1>7, ImageSizeTyped
  <1>9. addressBlocks * BytesPerBlock \in 0 .. Word - 1
    BY <1>1, <1>7, <1>8, ImageSizeTyped, Consts DEF NoOverflow
  <1>10. Blocks2Bytes(addressBlocks) = addressBlocks * BytesPerBlock
    BY <1>9, ModWord DEF Blocks2Bytes
  <1>11. QED
    BY <1>1, <1>7, <1>8, <1>10, ToIntTyped

ImageInv == RoomLeft /\ InImage

LEMMA StoreInside ==
  ASSUME TypeOK, NoOverflow, ImageInv, phase = "write",
         NEW m \in Nat, NEW n \in Nat, NEW eoi \in BOOLEAN,
         n <= count, Store(m, n, eoi)
  PROVE  InImage' /\ (~skip' => address' + (count - n) <= ImageSize)
  <1>1. address \in Nat /\ count \in Int /\ ImageSize \in Nat
    BY Consts, ImageSizeTyped DEF TypeOK
  <1>2. ~skip => address + count <= ImageSize
    BY DEF ImageInv, RoomLeft
  <1>3. ~skip => address + n \in 0 .. Word - 1
    BY <1>1, <1>2, Consts DEF NoOverflow
  <1>4. ~skip => address .. address + n - 1 \subseteq Image
    BY <1>1, <1>2 DEF Image
  <1>5. InImage'
    BY <1>4 DEF ImageInv, InImage, Store
  <1>6. ~skip' => ~skip /\ (address' = address + n \/ (n = 0 /\ address' = address))
    BY <1>3, ModWord DEF Store
  <1>7. QED
    BY <1>1, <1>2, <1>5, <1>6

LEMMA CountsDown ==
  ASSUME NEW at \in Int, NEW c \in Int, NEW d \in Int, NEW n \in Nat,
         NEW top \in Nat, at + (c - n) <= top, d <= c - n
  PROVE  at + d <= top
  OBVIOUS

LEMMA PieceInside ==
  ASSUME TypeOK, NoOverflow, ImageInv, phase = "write", phase' = phase,
         WriteChunk \/ WriteKey \/ WriteAtn
  PROVE  ImageInv'
  <1>1. PICK m \in Nat, n \in Nat, eoi \in BOOLEAN :
          /\ Store(m, n, eoi) /\ m <= n /\ n <= count
          /\ count' \in Int /\ count' <= count - n
    BY WriteStores
  <1>2. InImage' /\ (~skip' => address' + (count - n) <= ImageSize)
    BY <1>1, StoreInside
  <1>3. address' \in Int /\ count \in Int /\ ImageSize \in Nat
    BY WriteTyped, Consts, ImageSizeTyped DEF TypeOK
  <1>4. ASSUME ~skip'
        PROVE  address' + count' <= ImageSize
    <2>1. address' + (count - n) <= ImageSize
      BY <1>2, <1>4
    <2>2. n \in Nat /\ count' \in Int /\ count' <= count - n
      BY <1>1, Zenon
    <2>3. QED
      BY <1>3, <2>1, <2>2, CountsDown, Zenon
  <1>5. QED
    BY <1>2, <1>4 DEF ImageInv, RoomLeft

LEMMA ImageStep ==
  ASSUME NoOverflow, TypeOK, Reached, ImageInv, [Next]_vars
  PROVE  ImageInv'
  <1>1. CASE CommandState
    BY <1>1 DEF ImageInv, RoomLeft, InImage, CommandState, AtTask, ghosts,
       locals
  <1>2. CASE MessageFails
    BY <1>2 DEF ImageInv, RoomLeft, InImage, MessageFails, AtTask, ghosts,
       locals
  <1>3. CASE SetUnit
    BY <1>3 DEF ImageInv, RoomLeft, InImage, SetUnit, Opcode, ghosts, locals
  <1>4. CASE SetVolume
    BY <1>4 DEF ImageInv, RoomLeft, InImage, SetVolume, Opcode, ghosts,
       locals
  <1>5. CASE SetAddress
    BY <1>5 DEF ImageInv, RoomLeft, InImage, SetAddress, Opcode, ghosts,
       locals
  <1>6. CASE SetLength
    BY <1>6 DEF ImageInv, RoomLeft, InImage, SetLength, Opcode, ghosts,
       locals
  <1>7. CASE CommandEnds
    BY <1>7 DEF ImageInv, RoomLeft, InImage, CommandEnds, Opcode, ghosts,
       locals
  <1>8. CASE TransparentState
    BY <1>8 DEF ImageInv, RoomLeft, InImage, TransparentState, AtTask,
       ghosts, locals
  <1>9. CASE TransparentEnds
    BY <1>9 DEF ImageInv, RoomLeft, InImage, TransparentEnds, Opcode, ghosts,
       locals
  <1>10. CASE ChannelIndependentClear
    BY <1>10 DEF ImageInv, RoomLeft, InImage, ChannelIndependentClear,
       ghosts, locals, ClearCommon, NoJob
  <1>11. CASE Cancel
    BY <1>11 DEF ImageInv, RoomLeft, InImage, Cancel, Opcode, ghosts, locals
  <1>12. CASE ReadUnread
    BY <1>12 DEF ImageInv, RoomLeft, InImage, ReadUnread, ghosts, locals
  <1>13. CASE DeviceClear
    BY <1>13 DEF ImageInv, RoomLeft, InImage, DeviceClear, AtTask, ghosts,
       locals, ClearCommon, NoJob
  <1>14. CASE AmigoClear
    BY <1>14 DEF ImageInv, RoomLeft, InImage, AmigoClear, AtTask, ghosts,
       locals, ClearCommon, NoJob
  <1>15. CASE Identify
    BY <1>15 DEF ImageInv, RoomLeft, InImage, Identify, AtTask, ghosts,
       locals
  <1>16. CASE Report
    BY <1>16 DEF ImageInv, RoomLeft, InImage, Report, AtTask, ghosts, locals,
       NoJob
  <1>17. CASE ExecuteNothing
    BY <1>17 DEF ImageInv, RoomLeft, InImage, ExecuteNothing, AtTask,
       Executed, ghosts, locals
  <1>18. CASE ExecuteRead
    BY <1>18, SeekAccepts DEF ImageInv, RoomLeft, InImage, ExecuteRead,
       AtTask, Executed, ghosts, locals, Begins
  <1>19. CASE ExecuteWrite
    BY <1>19, SeekAccepts DEF ImageInv, RoomLeft, InImage, ExecuteWrite,
       AtTask, ghosts, locals, Begins
  <1>20. CASE ReadChunk
    BY <1>20 DEF ImageInv, RoomLeft, InImage, ReadChunk, InTransfer, ghosts,
       locals
  <1>21. CASE ReadTimesOut
    BY <1>21 DEF ImageInv, RoomLeft, InImage, ReadTimesOut, InTransfer,
       Executed, ghosts, locals
  <1>22. CASE ReadDiskFails
    BY <1>22 DEF ImageInv, RoomLeft, InImage, ReadDiskFails, InTransfer,
       Executed, ghosts, locals
  <1>23. CASE ReadEnds
    BY <1>23 DEF ImageInv, RoomLeft, InImage, ReadEnds, Executed, ghosts,
       locals
  <1>24. CASE WriteChunk
    BY <1>24, PieceInside DEF WriteChunk, InTransfer
  <1>25. CASE WriteKey
    BY <1>25, PieceInside DEF WriteKey, InTransfer
  <1>26. CASE WriteAtn
    BY <1>26, PieceInside DEF WriteAtn, InTransfer
  <1>27. CASE WriteTimesOut
    BY <1>27 DEF ImageInv, RoomLeft, InImage, WriteTimesOut, InTransfer,
       Executed, ghosts, locals
  <1>28. CASE WriteEnds
    BY <1>28 DEF ImageInv, RoomLeft, InImage, WriteEnds, Restart, Executed,
       ghosts, locals, NoJob
  <1>29. CASE WriteSpins
    BY <1>29 DEF ImageInv, RoomLeft, InImage, WriteSpins, vars, settings,
       locals, ghosts
  <1>30. CASE BusReset
    BY <1>30 DEF ImageInv, RoomLeft, InImage, BusReset, Restart, ghosts,
       locals, NoJob
  <1>31. CASE KeyHit
    BY <1>31 DEF ImageInv, RoomLeft, InImage, KeyHit, Restart, ghosts,
       locals, NoJob
  <1>32. CASE UNCHANGED vars
    BY <1>32 DEF ImageInv, RoomLeft, InImage, vars, settings, locals, ghosts
  <1>33. QED
    BY <1>1, <1>2, <1>3, <1>4, <1>5, <1>6, <1>7, <1>8, <1>9, <1>10, <1>11,
       <1>12, <1>13, <1>14, <1>15, <1>16, <1>17, <1>18, <1>19, <1>20, <1>21,
       <1>22, <1>23, <1>24, <1>25, <1>26, <1>27, <1>28, <1>29, <1>30, <1>31,
       <1>32 DEF Next, Message, Transfer

(* While the arithmetic is exact, no write, whole or cut off, with or      *)
(* without keys, faults and timeouts, ever touches a byte beyond the end   *)
(* of the disk image: the one check in SS80_cmd_seek is enough.            *)
THEOREM StaysInImage == ASSUME NoOverflow PROVE Spec => []InImage
  <1>1. Init => Reached /\ ImageInv
    BY ZeroReached DEF Init, Reached, ImageInv, RoomLeft, InImage, NoJob
  <1>2. TypeOK /\ Reached /\ [Next]_vars => Reached'
    BY ReachedStep
  <1>3. TypeOK /\ Reached /\ ImageInv /\ [Next]_vars => ImageInv'
    BY ImageStep
  <1>4. ImageInv => InImage
    BY DEF ImageInv
  <1>5. QED
    BY TypeCorrect, <1>1, <1>2, <1>3, <1>4, PTL DEF Spec

(***************************************************************************)
(* What qstat says of a write.                                             *)
(***************************************************************************)
WriteDone ==
  phase # "write" /\ job.op = "write" /\ qstat = 0 =>
    /\ job.sent = job.want \/ job.eoi
    /\ job.stored = job.first .. job.first + job.sent - 1

ReadIsRead == phase = "read" => job.op = "read"

WriteInv == WriteProgress /\ WriteDone /\ ReadIsRead

LEMMA Adjacent ==
  ASSUME NEW i \in Nat, NEW j \in Nat, NEW n \in Nat, i <= j
  PROVE  (i .. j - 1) \cup (j .. j + n - 1) = i .. j + n - 1
  OBVIOUS

(* One piece of the host's bytes, stored before any key or failure.        *)
LEMMA StoreProgress ==
  ASSUME TypeOK, NoOverflow, ImageInv, WriteProgress, phase = "write", ~key,
         count > 0, NEW n \in Nat, NEW eoi \in BOOLEAN, n <= count,
         Store(n, n, eoi)
  PROVE  /\ job'.op = "write"
         /\ skip' => qstat' = 1
         /\ ~skip' => /\ address' = job'.first + job'.sent
                      /\ job'.stored = job'.first .. job'.first + job'.sent - 1
                      /\ count - n = job'.want - job'.sent
                      /\ job'.eoi = eoi
  <1>1. /\ address \in Nat /\ count \in Int /\ ImageSize \in Nat
        /\ job.first \in Nat /\ job.sent \in Nat /\ job.want \in Nat
    BY Consts, ImageSizeTyped DEF TypeOK, Jobs
  <1>2. /\ job.op = "write" /\ (skip => qstat = 1)
        /\ ~skip => /\ address = job.first + job.sent
                    /\ job.stored = job.first .. job.first + job.sent - 1
                    /\ count = job.want - job.sent
    BY DEF WriteProgress
  <1>3. ~skip => address + count <= ImageSize
    BY DEF ImageInv, RoomLeft
  <1>4. ~skip => address + n \in 0 .. Word - 1
    BY <1>1, <1>3, Consts DEF NoOverflow
  <1>5. job'.op = "write" /\ (skip' => qstat' = 1)
    BY <1>2 DEF Store
  <1>6. ASSUME ~skip'
        PROVE  /\ address' = job'.first + job'.sent
               /\ job'.stored = job'.first .. job'.first + job'.sent - 1
               /\ count - n = job'.want - job'.sent
               /\ job'.eoi = eoi
    <2>1. CASE n = 0
      BY <1>1, <1>2, <1>6, <2>1 DEF Store
    <2>2. CASE n > 0
      <3>1. ~skip
        BY <1>6 DEF Store
      <3>2. /\ address' = address + n
            /\ job'.first = job.first /\ job'.want = job.want
            /\ job'.sent = job.sent + n /\ job'.eoi = eoi
            /\ job'.stored = job.stored \cup
                 {i \in address .. address + n - 1 : i < address + n}
        BY <1>1, <1>4, <1>6, <2>2, <3>1, ModWord DEF Store
      <3>3. {i \in address .. address + n - 1 : i < address + n}
              = address .. address + n - 1
        BY <1>1
      <3>4. job'.stored = job'.first .. job'.first + job'.sent - 1
        <4>1. address = job.first + job.sent /\ job.first <= address
          BY <1>1, <1>2, <3>1
        <4>2. job'.first + job'.sent - 1 = address + n - 1
          BY <1>1, <3>2, <4>1
        <4>3. job.stored = job.first .. address - 1
          BY <1>1, <1>2, <3>1, <4>1
        <4>4. (job.first .. address - 1) \cup (address .. address + n - 1)
                = job.first .. address + n - 1
          BY <1>1, <4>1, Adjacent
        <4>5. job'.stored = job.stored \cup (address .. address + n - 1)
          BY <3>2, <3>3
        <4>6. job'.stored = job.first .. address + n - 1
          BY <4>3, <4>4, <4>5
        <4>7. job'.first = job.first
          BY <3>2
        <4>8. QED
          BY <4>2, <4>6, <4>7, Zenon
      <3>5. /\ address' = job'.first + job'.sent
            /\ count - n = job'.want - job'.sent
        <4>1. address = job.first + job.sent /\ count = job.want - job.sent
          BY <1>1, <1>2, <3>1
        <4>2. /\ {address, job.first, job.sent, job.want} \subseteq Int
              /\ count \in Int /\ n \in Int
          BY DEF TypeOK, Jobs
        <4>3. QED
          BY <3>2, <4>1, <4>2
      <3>6. QED
        BY <3>2, <3>4, <3>5
    <2>3. QED
      BY <2>1, <2>2
  <1>7. QED
    BY <1>5, <1>6

LEMMA ChunkProgress ==
  ASSUME TypeOK, NoOverflow, ImageInv, WriteProgress, WriteChunk \/ WriteAtn
  PROVE  WriteProgress'
  <1>1. /\ phase = "write" /\ ~key /\ count > 0 /\ count \in Int
        /\ Piece \in Nat \ {0} /\ Piece <= count
    BY PieceTyped DEF TypeOK, WriteChunk, WriteAtn, InTransfer
  <1>2. CASE WriteChunk
    <2>1. PICK n \in 1 .. Piece, eoi \in BOOLEAN :
            Store(n, n, eoi) /\ count' = IF eoi THEN 0 ELSE count - n
      BY <1>2 DEF WriteChunk
    <2>2. n \in Nat /\ n <= count
      BY <1>1, <2>1
    <2>3. /\ job'.op = "write"
          /\ skip' => qstat' = 1
          /\ ~skip' => /\ address' = job'.first + job'.sent
                       /\ job'.stored = job'.first .. job'.first + job'.sent - 1
                       /\ count - n = job'.want - job'.sent
                       /\ job'.eoi = eoi
      BY <1>1, <2>1, <2>2, StoreProgress
    <2>4. CASE eoi
      <3>1. count' = 0
        BY <2>1, <2>4
      <3>2. ~skip' => job'.eoi
        BY <2>3, <2>4, Zenon
      <3>3. QED
        BY <2>3, <3>1, <3>2 DEF WriteProgress
    <2>5. CASE ~eoi
      <3>1. count' = count - n /\ count' >= 0
        BY <1>1, <2>1, <2>2, <2>5
      <3>2. QED
        BY <2>3, <3>1 DEF WriteProgress
    <2>6. QED
      BY <2>4, <2>5
  <1>3. CASE WriteAtn
    <2>1. PICK n \in 0 .. Piece - 1 : Store(n, n, FALSE) /\ count' = count - n
      BY <1>3 DEF WriteAtn
    <2>2. n \in Nat /\ n <= count /\ count' >= 0
      BY <1>1, <2>1
    <2>3. /\ job'.op = "write"
          /\ skip' => qstat' = 1
          /\ ~skip' => /\ address' = job'.first + job'.sent
                       /\ job'.stored = job'.first .. job'.first + job'.sent - 1
                       /\ count - n = job'.want - job'.sent
      BY <1>1, <2>1, <2>2, StoreProgress, Zenon
    <2>4. QED
      BY <2>1, <2>2, <2>3 DEF WriteProgress
  <1>4. QED
    BY <1>2, <1>3

LEMMA KeyProgress ==
  ASSUME WriteProgress, WriteKey
  PROVE  WriteProgress'
  <1>1. PICK m \in 0 .. Piece - 1 : Store(m, Piece, FALSE)
    BY DEF WriteKey
  <1>2. /\ phase = "write" /\ key' = TRUE
        /\ job.op = "write" /\ (skip => qstat = 1)
    BY DEF WriteProgress, WriteKey, InTransfer
  <1>3. job'.op = "write" /\ (skip' => qstat' = 1)
    BY <1>1, <1>2 DEF Store
  <1>4. QED
    BY <1>2, <1>3 DEF WriteProgress

LEMMA ExecuteWriteProgress ==
  ASSUME TypeOK, NoOverflow, Reached, ExecuteWrite
  PROVE  WriteProgress'
  <1>1. /\ job'.op = "write" /\ job'.first = addressBlocks * BytesPerBlock
        /\ job'.want = length /\ job'.sent = 0 /\ job'.stored = {}
    BY DEF ExecuteWrite, Begins
  <1>2. skip' => qstat' = 1
    BY DEF ExecuteWrite
  <1>3. ASSUME ~skip'
        PROVE  /\ count' >= 0 /\ count' = job'.want - job'.sent
               /\ address' = job'.first + job'.sent
               /\ job'.stored = job'.first .. job'.first + job'.sent - 1
    <2>1. ~SeekFails
      BY <1>3 DEF ExecuteWrite
    <2>2. /\ addressBlocks * BytesPerBlock \in Nat
          /\ Blocks2Bytes(addressBlocks) = addressBlocks * BytesPerBlock
          /\ length \in Nat /\ ToInt(length) = length
      BY <2>1, SeekAccepts
    <2>3. address' = addressBlocks * BytesPerBlock /\ count' = length
      BY <2>2 DEF ExecuteWrite
    <2>4. job'.first \in Nat /\ job'.want \in Nat /\ job'.sent = 0
      BY <1>1, <2>2
    <2>5. address' = job'.first /\ count' = job'.want
      BY <1>1, <2>3
    <2>6. job'.first .. job'.first + job'.sent - 1 = {}
      BY <2>4
    <2>7. QED
      BY <1>1, <2>4, <2>5, <2>6
  <1>4. QED
    BY <1>1, <1>2, <1>3 DEF WriteProgress

LEMMA WriteStep ==
  ASSUME ~LateTimeouts, NoOverflow, TypeOK, Reached, ImageInv, WriteInv, [Next]_vars
  PROVE  WriteInv'
  <1>1. CASE CommandState
    BY <1>1 DEF WriteInv, WriteProgress, WriteDone, ReadIsRead, CommandState,
       AtTask, settings, ghosts, locals
  <1>2. CASE MessageFails
    BY <1>2 DEF WriteInv, WriteProgress, WriteDone, ReadIsRead, MessageFails,
       AtTask, settings, ghosts, locals
  <1>3. CASE SetUnit
    BY <1>3 DEF WriteInv, WriteProgress, WriteDone, ReadIsRead, SetUnit,
       Opcode, settings, ghosts, locals
  <1>4. CASE SetVolume
    BY <1>4 DEF WriteInv, WriteProgress, WriteDone, ReadIsRead, SetVolume,
       Opcode, settings, ghosts, locals
  <1>5. CASE SetAddress
    BY <1>5 DEF WriteInv, WriteProgress, WriteDone, ReadIsRead, SetAddress,
       Opcode, settings, ghosts, locals
  <1>6. CASE SetLength
    BY <1>6 DEF WriteInv, WriteProgress, WriteDone, ReadIsRead, SetLength,
       Opcode, settings, ghosts, locals
  <1>7. CASE CommandEnds
    BY <1>7 DEF WriteInv, WriteProgress, WriteDone, ReadIsRead, CommandEnds,
       Opcode, settings, ghosts, locals
  <1>8. CASE TransparentState
    BY <1>8 DEF WriteInv, WriteProgress, WriteDone, ReadIsRead,
       TransparentState, AtTask, settings, ghosts, locals
  <1>9. CASE TransparentEnds
    BY <1>9 DEF WriteInv, WriteProgress, WriteDone, ReadIsRead,
       TransparentEnds, Opcode, settings, ghosts, locals
  <1>10. CASE ChannelIndependentClear
    BY <1>10 DEF WriteInv, WriteProgress, WriteDone, ReadIsRead,
       ChannelIndependentClear, settings, ghosts, locals, ClearCommon, NoJob
  <1>11. CASE Cancel
    BY <1>11 DEF WriteInv, WriteProgress, WriteDone, ReadIsRead, Cancel,
       Opcode, settings, ghosts, locals
  <1>12. CASE ReadUnread
    BY <1>12 DEF WriteInv, WriteProgress, WriteDone, ReadIsRead, ReadUnread,
       settings, ghosts, locals
  <1>13. CASE DeviceClear
    BY <1>13 DEF WriteInv, WriteProgress, WriteDone, ReadIsRead, DeviceClear,
       AtTask, settings, ghosts, locals, ClearCommon, NoJob
  <1>14. CASE AmigoClear
    BY <1>14 DEF WriteInv, WriteProgress, WriteDone, ReadIsRead, AmigoClear,
       AtTask, settings, ghosts, locals, ClearCommon, NoJob
  <1>15. CASE Identify
    BY <1>15 DEF WriteInv, WriteProgress, WriteDone, ReadIsRead, Identify,
       AtTask, settings, ghosts, locals
  <1>16. CASE Report
    BY <1>16 DEF WriteInv, WriteProgress, WriteDone, ReadIsRead, Report,
       AtTask, settings, ghosts, locals, NoJob
  <1>17. CASE ExecuteNothing
    BY <1>17 DEF WriteInv, WriteProgress, WriteDone, ReadIsRead,
       ExecuteNothing, AtTask, Executed, settings, ghosts, locals
  <1>18. CASE ExecuteRead
    BY <1>18 DEF WriteInv, WriteProgress, WriteDone, ReadIsRead, ExecuteRead,
       AtTask, Executed, settings, ghosts, locals, Begins
  <1>19. CASE ExecuteWrite
    BY <1>19, ExecuteWriteProgress DEF WriteInv, WriteDone, ReadIsRead,
       ExecuteWrite
  <1>20. CASE ReadChunk
    BY <1>20, PieceTyped DEF WriteInv, WriteProgress, WriteDone, ReadIsRead,
       ReadChunk, InTransfer, settings, ghosts, locals, TypeOK, Jobs
  <1>21. CASE ReadTimesOut
    BY <1>21, PieceTyped DEF WriteInv, WriteProgress, WriteDone, ReadIsRead,
       ReadTimesOut, InTransfer, Executed, settings, ghosts, locals, TypeOK,
       Jobs
  <1>22. CASE ReadDiskFails
    BY <1>22 DEF WriteInv, WriteProgress, WriteDone, ReadIsRead,
       ReadDiskFails, InTransfer, Executed, settings, ghosts, locals
  <1>23. CASE ReadEnds
    BY <1>23 DEF WriteInv, WriteProgress, WriteDone, ReadIsRead, ReadEnds,
       Executed, settings, ghosts, locals
  <1>24. CASE WriteChunk
    BY <1>24, ChunkProgress DEF WriteInv, WriteDone, ReadIsRead, WriteChunk,
       InTransfer
  <1>25. CASE WriteKey
    BY <1>25, KeyProgress DEF WriteInv, WriteDone, ReadIsRead, WriteKey,
       InTransfer
  <1>26. CASE WriteAtn
    BY <1>26, ChunkProgress DEF WriteInv, WriteDone, ReadIsRead, WriteAtn,
       InTransfer
  <1>27. CASE WriteTimesOut
    BY <1>27 DEF WriteInv, WriteProgress, WriteDone, ReadIsRead,
       WriteTimesOut, InTransfer, Executed, settings, ghosts, locals
  <1>28. CASE WriteEnds
    BY <1>28 DEF WriteInv, WriteProgress, WriteDone, ReadIsRead, WriteEnds,
       Restart, Executed, settings, ghosts, locals, NoJob, TypeOK, Jobs
  <1>29. CASE WriteSpins
    BY <1>29 DEF WriteInv, WriteProgress, WriteDone, ReadIsRead, WriteSpins,
       vars, settings, locals, ghosts
  <1>30. CASE BusReset
    BY <1>30 DEF WriteInv, WriteProgress, WriteDone, ReadIsRead, BusReset,
       Restart, settings, ghosts, locals, NoJob
  <1>31. CASE KeyHit
    BY <1>31 DEF WriteInv, WriteProgress, WriteDone, ReadIsRead, KeyHit,
       Restart, settings, ghosts, locals, NoJob
  <1>32. CASE UNCHANGED vars
    BY <1>32 DEF WriteInv, WriteProgress, WriteDone, ReadIsRead, vars,
       settings, locals, ghosts
  <1>33. QED
    BY <1>1, <1>2, <1>3, <1>4, <1>5, <1>6, <1>7, <1>8, <1>9, <1>10, <1>11,
       <1>12, <1>13, <1>14, <1>15, <1>16, <1>17, <1>18, <1>19, <1>20, <1>21,
       <1>22, <1>23, <1>24, <1>25, <1>26, <1>27, <1>28, <1>29, <1>30, <1>31,
       <1>32 DEF Next, Message, Transfer

(* A write that ends with qstat 0 has taken the whole message, up to its   *)
(* length or its EOI, and has put every byte of it in the image where the  *)
(* host asked for it: whatever fails on the way, a disk access, a wait or  *)
(* the seek, leaves a qstat that says so until it has been reported.       *)
THEOREM WriteIsReported ==
  ASSUME NoOverflow, ~LateTimeouts PROVE Spec => []WriteReported
  <1>1. Init => Reached /\ ImageInv /\ WriteInv
    BY ZeroReached DEF Init, Reached, ImageInv, RoomLeft, InImage, NoJob,
       WriteInv, WriteProgress, WriteDone, ReadIsRead
  <1>2. TypeOK /\ Reached /\ [Next]_vars => Reached'
    BY ReachedStep
  <1>3. TypeOK /\ Reached /\ ImageInv /\ [Next]_vars => ImageInv'
    BY ImageStep
  <1>4. TypeOK /\ Reached /\ ImageInv /\ WriteInv /\ [Next]_vars => WriteInv'
    BY WriteStep
  <1>5. WriteInv => WriteReported
    BY DEF WriteInv, WriteDone, WriteReported
  <1>6. QED
    BY TypeCorrect, <1>1, <1>2, <1>3, <1>4, <1>5, PTL DEF Spec

(* Only these steps leave a write running.                                 *)
LEMMA StepsOfWrite ==
  ASSUME [Next]_vars, phase' = "write"
  PROVE  \/ ExecuteWrite \/ WriteChunk \/ WriteKey \/ WriteAtn
         \/ UNCHANGED vars
  <1>1. ~(Message \/ ReadUnread \/ DeviceClear \/ AmigoClear \/ Identify \/ Report)
    <2>1. ~Message
      BY DEF Message, CommandState, MessageFails, SetUnit, SetVolume,
         SetAddress, SetLength, CommandEnds, TransparentState,
         TransparentEnds, ChannelIndependentClear, Cancel, AtTask, Opcode
    <2>2. QED
      BY <2>1 DEF ReadUnread, DeviceClear, AmigoClear, Identify, Report, AtTask
  <1>2. ~(ExecuteNothing \/ ExecuteRead \/ BusReset \/ KeyHit)
    BY DEF ExecuteNothing, ExecuteRead, BusReset, KeyHit, Restart, Executed,
       AtTask
  <1>3. ~(ReadChunk \/ ReadTimesOut \/ ReadDiskFails \/ ReadEnds
          \/ WriteTimesOut \/ WriteEnds)
    BY DEF ReadChunk, ReadTimesOut, ReadDiskFails, ReadEnds, WriteTimesOut,
       WriteEnds, InTransfer, Restart, Executed
  <1>4. QED
    BY <1>1, <1>2, <1>3 DEF Next, Transfer, WriteSpins

(* What is known of a running write stays so, late timeouts or not.        *)
LEMMA ProgressStep ==
  ASSUME NoOverflow, TypeOK, Reached, ImageInv, WriteProgress, [Next]_vars
  PROVE  WriteProgress'
  <1>1. CASE phase' # "write"
    BY <1>1 DEF WriteProgress
  <1>2. CASE ExecuteWrite
    BY <1>2, ExecuteWriteProgress
  <1>3. CASE WriteChunk \/ WriteAtn
    BY <1>3, ChunkProgress
  <1>4. CASE WriteKey
    BY <1>4, KeyProgress
  <1>5. CASE UNCHANGED vars
    BY <1>5 DEF WriteProgress, vars, settings, locals, ghosts
  <1>6. QED
    BY <1>1, <1>2, <1>3, <1>4, <1>5, StepsOfWrite

(* A write that ends leaves the address behind its last byte, or a qstat   *)
(* that is not 0.                                                          *)
LEMMA WriteContinues ==
  ASSUME TypeOK, WriteProgress, [Next]_vars,
         phase = "write", phase' = "task", qstat' = 0
  PROVE  addressBlocks' = (job'.first + job'.sent) \div BytesPerBlock
  <1>1. WriteEnds /\ ~key
    <2>1. ~(Message \/ ReadUnread \/ DeviceClear \/ AmigoClear \/ Identify \/ Report)
      <3>1. ~Message
        BY DEF Message, CommandState, MessageFails, SetUnit, SetVolume,
           SetAddress, SetLength, CommandEnds, TransparentState,
           TransparentEnds, ChannelIndependentClear, Cancel, AtTask, Opcode
      <3>2. QED
        BY <3>1 DEF ReadUnread, DeviceClear, AmigoClear, Identify, Report, AtTask
    <2>2. ~(ExecuteNothing \/ ExecuteRead \/ ExecuteWrite \/ BusReset \/ KeyHit)
      BY DEF ExecuteNothing, ExecuteRead, ExecuteWrite, BusReset, KeyHit,
         Restart, AtTask
    <2>3. ~(ReadChunk \/ ReadTimesOut \/ ReadDiskFails \/ ReadEnds \/ WriteChunk
            \/ WriteKey \/ WriteAtn \/ WriteTimesOut)
      BY DEF ReadChunk, ReadTimesOut, ReadDiskFails, ReadEnds, WriteChunk,
         WriteKey, WriteAtn, WriteTimesOut, InTransfer
    <2>4. ~WriteSpins /\ ~UNCHANGED vars
      BY DEF WriteSpins, vars
    <2>5. WriteEnds
      BY <2>1, <2>2, <2>3, <2>4 DEF Next, Transfer
    <2>6. QED
      BY <2>5 DEF WriteEnds, Restart
  <1>2. /\ addressBlocks' = address \div BytesPerBlock
        /\ job' = job /\ qstat = 0
    BY <1>1 DEF WriteEnds, Bytes2Blocks, ghosts
  <1>3. address = job.first + job.sent
    BY <1>1, <1>2 DEF WriteProgress
  <1>4. QED
    BY <1>2, <1>3

(* If no sum overflows, a write reported complete leaves the disk on the   *)
(* block behind its last byte, where the host's next transfer without an   *)
(* address of its own begins: short, cut off by EOI or whole.              *)
THEOREM WritesContinue ==
  ASSUME NoOverflow PROVE Spec => Continues
  <1>1. Init => Reached /\ ImageInv /\ WriteProgress
    BY ZeroReached DEF Init, Reached, ImageInv, RoomLeft, InImage, NoJob,
       WriteProgress
  <1>2. TypeOK /\ Reached /\ [Next]_vars => Reached'
    BY ReachedStep
  <1>3. TypeOK /\ Reached /\ ImageInv /\ [Next]_vars => ImageInv'
    BY ImageStep
  <1>4. TypeOK /\ Reached /\ ImageInv /\ WriteProgress /\ [Next]_vars
          => WriteProgress'
    BY ProgressStep
  <1>5. TypeOK /\ WriteProgress /\ [Next]_vars =>
          [phase = "write" /\ phase' = "task" /\ qstat' = 0
             => addressBlocks' = (job'.first + job'.sent) \div BytesPerBlock]_vars
    BY WriteContinues
  <1>6. QED
    BY TypeCorrect, <1>1, <1>2, <1>3, <1>4, <1>5, PTL DEF Spec, Continues

(***************************************************************************)
(* Reads.                                                                  *)
(***************************************************************************)
(* While a read runs, what is left to send is what was asked for less what *)
(* was sent; once it has ended it has said so.                             *)
ReadInv ==
  /\ phase = "read" => job.op = "read" /\ count = job.want - job.sent
  /\ phase = "write" => job.op = "write"
  /\ phase # "read" /\ job.op = "read" /\ qstat = 0 =>
       job.sent \in {0, job.want} \/ errors \cap {"READ", "DISK"} # {}

LEMMA ReadStep ==
  ASSUME ~LateTimeouts, TypeOK, ReadInv, [Next]_vars
  PROVE  ReadInv'
  <1>1. CASE CommandState
    BY <1>1 DEF ReadInv, CommandState,
       settings, locals, ghosts, AtTask, Opcode
  <1>2. CASE MessageFails
    BY <1>2 DEF ReadInv, MessageFails,
       settings, locals, ghosts, AtTask, Opcode
  <1>3. CASE SetUnit
    BY <1>3 DEF ReadInv, SetUnit,
       settings, locals, ghosts, AtTask, Opcode
  <1>4. CASE SetVolume
    BY <1>4 DEF ReadInv, SetVolume,
       settings, locals, ghosts, AtTask, Opcode
  <1>5. CASE SetAddress
    BY <1>5 DEF ReadInv, SetAddress,
       settings, locals, ghosts, AtTask, Opcode
  <1>6. CASE SetLength
    BY <1>6 DEF ReadInv, SetLength,
       settings, locals, ghosts, AtTask, Opcode
  <1>7. CASE CommandEnds
    BY <1>7 DEF ReadInv, CommandEnds,
       settings, locals, ghosts, AtTask, Opcode
  <1>8. CASE TransparentState
    BY <1>8 DEF ReadInv, TransparentState,
       settings, locals, ghosts, AtTask, Opcode
  <1>9. CASE TransparentEnds
    BY <1>9 DEF ReadInv, TransparentEnds,
       settings, locals, ghosts, AtTask, Opcode
  <1>10. CASE Cancel
    BY <1>10 DEF ReadInv, Cancel,
       settings, locals, ghosts, AtTask, Opcode
  <1>11. CASE ReadUnread
    BY <1>11 DEF ReadInv, ReadUnread,
       settings, locals, ghosts, AtTask, Opcode
  <1>12. CASE Identify
    BY <1>12 DEF ReadInv, Identify,
       settings, locals, ghosts, AtTask, Opcode
  <1>13. CASE ExecuteNothing
    BY <1>13 DEF ReadInv, ExecuteNothing, Executed,
       settings, locals, ghosts, AtTask, Opcode
  <1>14. CASE ExecuteWrite
    BY <1>14 DEF ReadInv, ExecuteWrite, Begins,
       settings, locals, ghosts, AtTask, Opcode
  <1>15. CASE WriteTimesOut
    BY <1>15 DEF ReadInv, WriteTimesOut, InTransfer, Executed,
       settings, locals, ghosts, AtTask, Opcode
  <1>16. CASE WriteSpins
    BY <1>16 DEF ReadInv, WriteSpins, vars, settings,
       settings, locals, ghosts, AtTask, Opcode
  <1>17. CASE ChannelIndependentClear
    BY <1>17 DEF ReadInv, ChannelIndependentClear, ClearCommon, NoJob,
       settings, locals, ghosts, AtTask, Opcode
  <1>18. CASE DeviceClear
    BY <1>18 DEF ReadInv, DeviceClear, ClearCommon, NoJob,
       settings, locals, ghosts, AtTask, Opcode
  <1>19. CASE AmigoClear
    BY <1>19 DEF ReadInv, AmigoClear, ClearCommon, NoJob,
       settings, locals, ghosts, AtTask, Opcode
  <1>20. CASE Report
    BY <1>20 DEF ReadInv, Report, NoJob,
       settings, locals, ghosts, AtTask, Opcode
  <1>21. CASE ExecuteRead
    BY <1>21 DEF ReadInv, ExecuteRead, Begins, Executed, TypeOK,
       Jobs, settings, locals, ghosts, AtTask, Opcode
  <1>22. CASE ReadChunk
    BY <1>22, PieceTyped DEF ReadInv, ReadChunk, InTransfer, TypeOK,
       Jobs, settings, locals, ghosts, AtTask, Opcode
  <1>23. CASE ReadTimesOut
    BY <1>23 DEF ReadInv, ReadTimesOut, InTransfer, Executed, TypeOK,
       Jobs, settings, locals, ghosts, AtTask, Opcode
  <1>24. CASE ReadDiskFails
    BY <1>24 DEF ReadInv, ReadDiskFails, InTransfer, Executed, DiskErrors,
       settings, locals, ghosts, AtTask, Opcode
  <1>25. CASE ReadEnds
    BY <1>25 DEF ReadInv, ReadEnds, Executed, TypeOK, Jobs,
       settings, locals, ghosts, AtTask, Opcode
  <1>26. CASE WriteChunk
    BY <1>26 DEF ReadInv, WriteChunk, InTransfer, Store, TypeOK, Jobs
  <1>27. CASE WriteKey
    BY <1>27 DEF ReadInv, WriteKey, InTransfer, Store, TypeOK, Jobs
  <1>28. CASE WriteAtn
    BY <1>28 DEF ReadInv, WriteAtn, InTransfer, Store, TypeOK, Jobs
  <1>29. CASE WriteEnds
    BY <1>29 DEF ReadInv, WriteEnds, Restart, Executed, NoJob,
       settings, locals, ghosts, AtTask, Opcode
  <1>30. CASE BusReset
    BY <1>30 DEF ReadInv, BusReset, Restart, NoJob
  <1>31. CASE KeyHit
    BY <1>31 DEF ReadInv, KeyHit, Restart, NoJob
  <1>32. CASE UNCHANGED vars
    BY <1>32 DEF ReadInv, vars, settings, locals, ghosts
  <1>33. QED
    BY <1>1, <1>2, <1>3, <1>4, <1>5, <1>6, <1>7, <1>8, <1>9, <1>10, <1>11,
       <1>12, <1>13, <1>14, <1>15, <1>16, <1>17, <1>18, <1>19, <1>20,
       <1>21, <1>22, <1>23, <1>24, <1>25, <1>26, <1>27, <1>28, <1>29,
       <1>30, <1>31, <1>32
       DEF Next, Message, Transfer

(* A read that ended with qstat 0 gave the host all it asked for, or       *)
(* nothing, or left a disk failure for the next status request; a last     *)
(* byte whose failure the code does not notice is excluded.                *)
THEOREM ReadIsReported ==
  ASSUME ~LateTimeouts PROVE Spec => []ReadReported
  <1>1. Init => ReadInv
    BY DEF Init, ReadInv, NoJob
  <1>2. TypeOK /\ ReadInv /\ [Next]_vars => ReadInv'
    BY ReadStep
  <1>3. ReadInv => ReadReported
    BY DEF ReadInv, ReadReported
  <1>4. QED
    BY TypeCorrect, <1>1, <1>2, <1>3, PTL DEF Spec
===============================================================================
