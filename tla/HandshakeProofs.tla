---------------------------- MODULE HandshakeProofs ----------------------------
(***************************************************************************)
(* Theorems about Handshake, for every number of parties and bytes.        *)
(***************************************************************************)
EXTENDS Handshake, TLAPS

(* The bytes are numbered from 1 and the first talker is a party.          *)
LEMMA BytesNat == Bytes \subseteq Nat /\ Bytes = 1..N /\ 1 \in Bytes /\ Source \in Party
BY HandshakeAssumption DEF Bytes, Source

(* What a receiver reads from the data lines is a byte number or 0.        *)
LEMMA BusReadType == TypeOK => BusRead \in 0..N
<1> SUFFICES ASSUME TypeOK PROVE BusRead \in 0..N
  OBVIOUS
<1>1. CASE \E p \in Party : data[p] # 0
  <2> DEFINE q == CHOOSE p \in Party : data[p] # 0
  <2>1. q \in Party
    BY <1>1
  <2>2. BusRead = data[q]
    BY <1>1 DEF BusRead
  <2> QED BY <2>1, <2>2 DEF TypeOK
<1>2. CASE ~\E p \in Party : data[p] # 0
  BY <1>2, HandshakeAssumption DEF BusRead
<1> QED BY <1>1, <1>2

(* The loop states of a read and those of a write are apart.               *)
LEMMA StateSets ==
  /\ {"RX_START", "RX_WAIT_FOR_DAV_LOW", "RX_DAV_IS_LOW", "RX_WAIT_FOR_DAV_HI",
      "RX_DAV_IS_HI", "RX_FINISH", "RX_ERROR"} \subseteq RxStates \ TxStates
  /\ {"TX_START", "TX_WAIT_READY", "TX_PUT_DATA", "TX_SET_DAV_LOW",
      "TX_WAIT_FOR_NRFD_LOW", "TX_WAIT_FOR_NDAC_HI", "TX_SET_DAV_HI",
      "TX_WAIT_FOR_DAV_HI", "TX_FINISH", "TX_ERROR"} \subseteq TxStates \ RxStates
  /\ "idle" \notin TxStates
  /\ "idle" \notin RxStates
BY DEF RxStates, TxStates

(* A wait of a write keeps the types.                                      *)
LEMMA WaitType ==
  ASSUME TypeOK, NEW p \in Party, NEW here \in TxStates, NEW next \in TxStates,
         NEW cond, TxWait(p, here, cond, next)
  PROVE  TypeOK'
<1>1. /\ pc[p] \in TxStates
      /\ UNCHANGED <<num, ch, dav, nrfd, ndac, data, ifc, key, got, sent>>
  BY DEF TxWait, InCall, Stay, pins
<1>2. \E s \in TxStates : pc' = [pc EXCEPT ![p] = s]
  BY StateSets DEF TxWait, Goto
<1>3. done' \in [Party -> BOOLEAN]
  BY DEF TxWait, TimeoutSet, TypeOK
<1> QED BY <1>1, <1>2, <1>3 DEF TypeOK

(* Every variable of the handshake keeps its type, and a writer always has *)
(* a byte to write, whatever times out, whenever IFC or a key comes.       *)
THEOREM TypeCorrect == Spec => []TypeOK
<1>1. Init => TypeOK
  <2> SUFFICES ASSUME Init PROVE TypeOK
    OBVIOUS
  <2>1. pc \in [Party -> {"idle"} \cup RxStates \cup TxStates]
    BY StateSets DEF Init
  <2>2. \A p \in Party : pc[p] \notin TxStates
    BY StateSets DEF Init
  <2>3. num \in [Party -> 0..N] /\ ch \in [Party -> 0..N] /\ data \in [Party -> 0..N]
    BY HandshakeAssumption DEF Init
  <2>4. nrfd \in [Party -> BOOLEAN] /\ ndac \in [Party -> BOOLEAN]
    BY DEF Init
  <2>5. got \in [Party -> Seq(0..N)]
    BY DEF Init
  <2> QED BY <2>1, <2>2, <2>3, <2>4, <2>5 DEF Init, TypeOK
<1>2. TypeOK /\ [Next]_vars => TypeOK'
  <2> SUFFICES ASSUME TypeOK, [Next]_vars PROVE TypeOK'
    OBVIOUS
  <2> USE StateSets
  <2>1. ASSUME NEW p \in Party, Read(p) PROVE TypeOK'
    <3>1. CASE StartRead(p)
      BY <3>1, HandshakeAssumption DEF StartRead, TypeOK, BusReadInit, Goto
    <3>2. CASE RxStart(p)
      BY <3>2 DEF RxStart, TypeOK, Goto, Stay
    <3>3. CASE RxWaitForDavLow(p)
      BY <3>3 DEF RxWaitForDavLow, TypeOK, Goto, Stay, pins
    <3>4. CASE RxDavIsLow(p)
      BY <3>4, BusReadType DEF RxDavIsLow, TypeOK, Goto, TimeoutSet
    <3>5. CASE RxWaitForDavHi(p)
      BY <3>5 DEF RxWaitForDavHi, TypeOK, Goto, Stay, pins
    <3>6. CASE RxDavIsHi(p)
      BY <3>6 DEF RxDavIsHi, TypeOK, Goto, Stay, pins
    <3>7. CASE RxFinish(p)
      BY <3>7 DEF RxFinish, ReadReturns, TypeOK, Goto, pins
    <3>8. CASE RxError(p)
      BY <3>8 DEF RxError, ErrorReturns, TypeOK, InCall, Goto, pins
    <3> QED
      BY <2>1, <3>1, <3>2, <3>3, <3>4, <3>5, <3>6, <3>7, <3>8 DEF Read
  <2>2. ASSUME NEW p \in Party, Write(p) PROVE TypeOK'
    <3>1. CASE StartWrite(p)
      <4>1. num[p] + 1 \in Bytes /\ num[p] + 1 \in 0..N
        <5>1. num[p] \in 0..N /\ num[p] < N
          BY <3>1 DEF StartWrite, TypeOK
        <5> QED BY <5>1, HandshakeAssumption DEF Bytes
      <4> QED BY <3>1, <4>1, HandshakeAssumption
        DEF StartWrite, TypeOK, BusReadInit, Goto, TimeoutSet
    <3>2. CASE TxStart(p)
      BY <3>2, WaitType DEF TxStart
    <3>3. CASE TxWaitReady(p)
      BY <3>3, WaitType DEF TxWaitReady
    <3>4. CASE TxPutData(p)
      BY <3>4 DEF TxPutData, TypeOK, InCall, Goto, Stay, TimeoutSet
    <3>5. CASE TxSetDavLow(p)
      BY <3>5 DEF TxSetDavLow, TypeOK, InCall, Goto, Stay, TimeoutSet
    <3>6. CASE TxWaitForNrfdLow(p)
      BY <3>6, WaitType DEF TxWaitForNrfdLow
    <3>7. CASE TxWaitForNdacHi(p)
      BY <3>7 DEF TxWaitForNdacHi, TypeOK, InCall, Goto, Stay, pins
    <3>8. CASE TxSetDavHi(p)
      BY <3>8, HandshakeAssumption
      DEF TxSetDavHi, BusReadInit, TypeOK, InCall, Goto, Stay, TimeoutSet
    <3>9. CASE TxWaitForDavHi(p)
      BY <3>9 DEF TxWaitForDavHi, TypeOK, InCall, Goto, Stay, pins
    <3>10. CASE TxFinish(p)
      BY <3>10 DEF TxFinish, WriteReturns, TypeOK, InCall, Goto, pins
    <3>11. CASE TxError(p)
      BY <3>11, HandshakeAssumption
      DEF TxError, ErrorReturns, BusReadInit, TypeOK, InCall, Goto
    <3> QED
      BY <2>2, <3>1, <3>2, <3>3, <3>4, <3>5, <3>6, <3>7, <3>8, <3>9, <3>10, <3>11
      DEF Write
  <2>3. ASSUME NEW p \in Party, KeyBreak(p) PROVE TypeOK'
    <3>1. CASE pc[p] \in RxStates /\ ReadReturns(p)
      BY <2>3, <3>1 DEF KeyBreak, ReadReturns, TypeOK, Goto, pins
    <3>2. CASE pc[p] \in TxStates /\ WriteReturns(p)
      BY <2>3, <3>2 DEF KeyBreak, WriteReturns, TypeOK, Goto, pins
    <3> QED BY <2>3, <3>1, <3>2 DEF KeyBreak
  <2>4. ASSUME NEW p \in Party, IfcBreak(p) PROVE TypeOK'
    BY <2>4, HandshakeAssumption
    DEF IfcBreak, BusInit, BusReadInit, ErrorReturns, TypeOK, Goto
  <2>5. ASSUME NEW p \in Party, TimerTask(p) PROVE TypeOK'
    BY <2>5 DEF TimerTask, TypeOK, pins
  <2>6. ASSUME NEW p \in Party, KeyHit(p) PROVE TypeOK'
    BY <2>6 DEF KeyHit, TypeOK, pins
  <2>7. ASSUME NEW p \in Party, KeyTaken(p) PROVE TypeOK'
    BY <2>7, HandshakeAssumption DEF KeyTaken, BusInit, BusReadInit, TypeOK
  <2>8. CASE Ifc
    BY <2>8 DEF Ifc, TypeOK, pins
  <2>9. CASE Quiet \/ UNCHANGED vars
    BY <2>9 DEF Quiet, TypeOK, vars, pins
  <2> QED
    BY <2>1, <2>2, <2>3, <2>4, <2>5, <2>6, <2>7, <2>8, <2>9 DEF Next, Step
<1>3. QED BY <1>1, <1>2, PTL DEF Spec
(***************************************************************************)
(* One talker and no fault.                                                *)
(***************************************************************************)

(* What a receiver latches is the byte the talker drives.                  *)
LEMMA BusReadOffered ==
  ASSUME TypeOK, LineStates, data[Source] # 0
  PROVE  BusRead = data[Source]
<1>1. \A p \in Party : data[p] # 0 => p = Source
  BY DEF LineStates, ReceiverLines, Receivers
<1>2. Source \in Party
  BY BytesNat
<1> DEFINE q == CHOOSE p \in Party : data[p] # 0
<1>3. q \in Party /\ data[q] # 0
  BY <1>2
<1>4. q = Source
  BY <1>1, <1>3
<1> QED BY <1>2, <1>4 DEF BusRead

(* It holds after power-up.                                                *)
LEMMA OneTalkerInit == OneTalker /\ Init => OneTalkerInv
<1> SUFFICES ASSUME OneTalker, Init PROVE OneTalkerInv
  OBVIOUS
<1> USE BytesNat DEF Init
<1>0. /\ pc[Source] = "idle"
      /\ \A r \in Receivers : r \in Party /\ r # Source /\ pc[r] = "RX_START"
  BY DEF Source, Receivers
<1>1. LineStates
  <2>1. SourceLines
    <3>1. dav[Source] = FALSE /\ data[Source] = 0
      OBVIOUS
    <3> QED BY <1>0, <3>1, StateSets DEF SourceLines
  <2>2. ASSUME NEW r \in Receivers PROVE ReceiverLines(r)
    <3>1. nrfd[r] = TRUE /\ ndac[r] = TRUE
      BY <1>0 DEF Source
    <3> QED BY <1>0, <3>1 DEF ReceiverLines, Holding
  <2> QED BY <2>1, <2>2 DEF LineStates
<1>2. TalkerAndReceivers
  BY <1>0, StateSets DEF TalkerAndReceivers, Follows, Receivers, Knows
<1>3. Logs
  BY <1>0, StateSets DEF Logs, Receivers
<1> QED BY <1>1, <1>2, <1>3 DEF OneTalkerInv

(* Every turn of a receiver's loop keeps the lockstep.                     *)
LEMMA ReceiverStep ==
  ASSUME OneTalker, TypeOK, OneTalkerInv, NEW r \in Receivers, Read(r)
  PROVE  OneTalkerInv'
<1> USE StateSets, BytesNat
<1>0. r \in Party /\ r # Source /\ ~ifc /\ ~key[r]
  BY DEF Receivers, OneTalkerInv, LineStates
<1>1. CASE StartRead(r)
  <2>1. LineStates'
    <3>1. SourceLines' /\ ~ifc' /\ \A p \in Party : ~key'[p]
      BY <1>0, <1>1 DEF OneTalkerInv, LineStates, SourceLines, StartRead, BusReadInit,
        TimeoutSet,
        Goto, Stay, pins, TypeOK
    <3>2. ASSUME NEW q \in Receivers \ {r} PROVE ReceiverLines(q)'
      BY <1>0, <1>1 DEF OneTalkerInv, LineStates, ReceiverLines, StartRead, BusReadInit,
        TimeoutSet,
        Goto, Stay, pins, TypeOK, Receivers, Holding
    <3>3. ReceiverLines(r)'
      BY <1>0, <1>1 DEF OneTalkerInv, LineStates, ReceiverLines, StartRead, BusReadInit,
        TimeoutSet,
        InCall, Goto, Stay, pins, TypeOK, Holding
    <3> QED BY <3>1, <3>2, <3>3 DEF LineStates
  <2>2. TalkerAndReceivers'
    <3>1. pc'[Source] = pc[Source] /\ ch'[Source] = ch[Source] /\ num'[Source] = num[Source]
      BY <1>0, <1>1 DEF StartRead, Goto, Stay, TypeOK
    <3>2. \A q \in Receivers \ {r} : pc'[q] = pc[q] /\ ch'[q] = ch[q] /\ num'[q] = num[q]
      BY <1>0, <1>1 DEF StartRead, Goto, Stay, TypeOK, Receivers
    <3>3. Follows(r)'
      BY <1>0, <1>1, <3>1 DEF OneTalkerInv, LineStates, TalkerAndReceivers, Follows, StartRead,
        InCall, Goto, Stay, TypeOK, Knows, Holds, Holding
    <3> QED BY <3>1, <3>2, <3>3 DEF OneTalkerInv, TalkerAndReceivers, Follows, Knows, Holds,
      Holding
  <2>3. Logs'
    BY <1>0, <1>1 DEF OneTalkerInv, Logs, StartRead, Goto, TypeOK, Receivers
  <2> QED BY <2>1, <2>2, <2>3 DEF OneTalkerInv
<1>2. CASE RxStart(r)
  <2>1. LineStates'
    <3>1. SourceLines' /\ ~ifc' /\ \A p \in Party : ~key'[p]
      BY <1>0, <1>2 DEF OneTalkerInv, LineStates, SourceLines, RxStart, BusReadInit, TimeoutSet,
        Goto, Stay, pins, TypeOK
    <3>2. ASSUME NEW q \in Receivers \ {r} PROVE ReceiverLines(q)'
      BY <1>0, <1>2 DEF OneTalkerInv, LineStates, ReceiverLines, RxStart, BusReadInit,
        TimeoutSet,
        Goto, Stay, pins, TypeOK, Receivers, Holding
    <3>3. ReceiverLines(r)'
      BY <1>0, <1>2 DEF OneTalkerInv, LineStates, ReceiverLines, RxStart, BusReadInit,
        TimeoutSet,
        InCall, Goto, Stay, pins, TypeOK, Holding
    <3> QED BY <3>1, <3>2, <3>3 DEF LineStates
  <2>2. TalkerAndReceivers'
    <3>1. pc'[Source] = pc[Source] /\ ch'[Source] = ch[Source] /\ num'[Source] = num[Source]
      BY <1>0, <1>2 DEF RxStart, Goto, Stay, TypeOK
    <3>2. \A q \in Receivers \ {r} : pc'[q] = pc[q] /\ ch'[q] = ch[q] /\ num'[q] = num[q]
      BY <1>0, <1>2 DEF RxStart, Goto, Stay, TypeOK, Receivers
    <3>3. Follows(r)'
      BY <1>0, <1>2, <3>1 DEF OneTalkerInv, LineStates, SourceLines, TalkerAndReceivers,
        Follows, RxStart,
        InCall, Goto, Stay, TypeOK, Knows, Holds, Holding
    <3> QED BY <3>1, <3>2, <3>3 DEF OneTalkerInv, TalkerAndReceivers, Follows, Knows, Holds,
      Holding
  <2>3. Logs'
    BY <1>0, <1>2 DEF OneTalkerInv, Logs, RxStart, Goto, Stay, TypeOK, Receivers
  <2> QED BY <2>1, <2>2, <2>3 DEF OneTalkerInv
<1>3. CASE RxWaitForDavLow(r)
  <2>0. Low(dav) => dav[Source]
    BY DEF OneTalkerInv, LineStates, SourceLines, ReceiverLines, Low, Receivers
  <2>1. LineStates'
    <3>1. SourceLines' /\ ~ifc' /\ \A p \in Party : ~key'[p]
      BY <1>0, <1>3 DEF OneTalkerInv, LineStates, SourceLines, RxWaitForDavLow, BusReadInit,
        TimeoutSet,
        Goto, Stay, pins, TypeOK
    <3>2. ASSUME NEW q \in Receivers \ {r} PROVE ReceiverLines(q)'
      BY <1>0, <1>3 DEF OneTalkerInv, LineStates, ReceiverLines, RxWaitForDavLow,
        BusReadInit, TimeoutSet,
        Goto, Stay, pins, TypeOK, Receivers, Holding
    <3>3. ReceiverLines(r)'
      BY <1>0, <1>3 DEF OneTalkerInv, LineStates, ReceiverLines, RxWaitForDavLow,
        BusReadInit, TimeoutSet,
        InCall, Goto, Stay, pins, TypeOK, Holding
    <3> QED BY <3>1, <3>2, <3>3 DEF LineStates
  <2>2. TalkerAndReceivers'
    <3>1. pc'[Source] = pc[Source] /\ ch'[Source] = ch[Source] /\ num'[Source] = num[Source]
      BY <1>0, <1>3 DEF RxWaitForDavLow, Goto, Stay, TypeOK
    <3>2. \A q \in Receivers \ {r} : pc'[q] = pc[q] /\ ch'[q] = ch[q] /\ num'[q] = num[q]
      BY <1>0, <1>3 DEF RxWaitForDavLow, Goto, Stay, TypeOK, Receivers
    <3>3. Follows(r)'
      BY <1>0, <1>3, <3>1, <2>0 DEF OneTalkerInv, LineStates, SourceLines,
        TalkerAndReceivers, Follows, RxWaitForDavLow,
        InCall, Goto, Stay, TypeOK, Knows, Holds, Holding
    <3> QED BY <3>1, <3>2, <3>3 DEF OneTalkerInv, TalkerAndReceivers, Follows, Knows, Holds,
      Holding
  <2>3. Logs'
    BY <1>0, <1>3 DEF OneTalkerInv, Logs, RxWaitForDavLow, Goto, Stay, TypeOK, Receivers
  <2> QED BY <2>1, <2>2, <2>3 DEF OneTalkerInv
<1>4. CASE RxDavIsLow(r)
  <2>0. pc[Source] \in {"TX_WAIT_FOR_NRFD_LOW", "TX_WAIT_FOR_NDAC_HI"}
    BY <1>0, <1>4 DEF OneTalkerInv, TalkerAndReceivers, Follows, RxDavIsLow, InCall, Knows,
      Holds, Holding
  <2>01. data[Source] = ch[Source] /\ ch[Source] # 0
    BY <2>0, BytesNat, StateSets DEF OneTalkerInv, LineStates, SourceLines, Logs, TypeOK
  <2>02. BusRead = ch[Source]
    BY <2>01, BusReadOffered DEF OneTalkerInv
  <2>1. LineStates'
    <3>1. SourceLines' /\ ~ifc' /\ \A p \in Party : ~key'[p]
      BY <1>0, <1>4 DEF OneTalkerInv, LineStates, SourceLines, RxDavIsLow, BusReadInit,
        TimeoutSet,
        Goto, Stay, pins, TypeOK
    <3>2. ASSUME NEW q \in Receivers \ {r} PROVE ReceiverLines(q)'
      BY <1>0, <1>4 DEF OneTalkerInv, LineStates, ReceiverLines, RxDavIsLow, BusReadInit,
        TimeoutSet,
        Goto, Stay, pins, TypeOK, Receivers, Holding
    <3>3. ReceiverLines(r)'
      <4>1. nrfd'[r] = TRUE /\ ndac'[r] = FALSE /\ pc'[r] = "RX_WAIT_FOR_DAV_HI" /\ ~done'[r]
        BY <1>0, <1>4 DEF RxDavIsLow, TimeoutSet, Goto, Stay, pins, TypeOK
      <4>2. ~dav'[r] /\ data'[r] = 0
        BY <1>0, <1>4 DEF OneTalkerInv, LineStates, ReceiverLines, RxDavIsLow, pins
      <4> QED BY <4>1, <4>2 DEF ReceiverLines, Holding
    <3> QED BY <3>1, <3>2, <3>3 DEF LineStates
  <2>2. TalkerAndReceivers'
    <3>1. pc'[Source] = pc[Source] /\ ch'[Source] = ch[Source] /\ num'[Source] = num[Source]
      BY <1>0, <1>4 DEF RxDavIsLow, Goto, Stay, TypeOK
    <3>2. \A q \in Receivers \ {r} : pc'[q] = pc[q] /\ ch'[q] = ch[q] /\ num'[q] = num[q]
      BY <1>0, <1>4 DEF RxDavIsLow, Goto, Stay, TypeOK, Receivers
    <3>3. Follows(r)'
      BY <1>0, <1>4, <3>1, <2>0, <2>02 DEF OneTalkerInv, LineStates, SourceLines,
        TalkerAndReceivers, Follows, RxDavIsLow,
        InCall, Goto, Stay, TypeOK, Knows, Holds, Holding
    <3> QED BY <3>1, <3>2, <3>3 DEF OneTalkerInv, TalkerAndReceivers, Follows, Knows, Holds,
      Holding
  <2>3. Logs'
    BY <1>0, <1>4 DEF OneTalkerInv, Logs, RxDavIsLow, Goto, TypeOK, Receivers
  <2> QED BY <2>1, <2>2, <2>3 DEF OneTalkerInv
<1>5. CASE RxWaitForDavHi(r)
  <2>0. Goto(r, "RX_DAV_IS_HI") /\ ~Low(dav)
    BY <1>0, <1>5 DEF RxWaitForDavHi, InCall, TimedOut, OneTalkerInv, LineStates,
      ReceiverLines, Holding
  <2>00. ~dav[Source]
    BY <2>0 DEF Low
  <2>1. LineStates'
    <3>1. SourceLines' /\ ~ifc' /\ \A p \in Party : ~key'[p]
      BY <1>0, <1>5 DEF OneTalkerInv, LineStates, SourceLines, RxWaitForDavHi, BusReadInit,
        TimeoutSet,
        Goto, Stay, pins, TypeOK
    <3>2. ASSUME NEW q \in Receivers \ {r} PROVE ReceiverLines(q)'
      BY <1>0, <1>5 DEF OneTalkerInv, LineStates, ReceiverLines, RxWaitForDavHi, BusReadInit,
        TimeoutSet,
        Goto, Stay, pins, TypeOK, Receivers, Holding
    <3>3. ReceiverLines(r)'
      <4>0. nrfd[r] = TRUE /\ ndac[r] = FALSE /\ ~done[r]
        BY <1>0, <1>5 DEF OneTalkerInv, LineStates, ReceiverLines, RxWaitForDavHi, InCall,
          Holding
      <4>1. nrfd'[r] = TRUE /\ ndac'[r] = FALSE /\ pc'[r] = "RX_DAV_IS_HI" /\ ~done'[r]
        BY <1>0, <1>5, <2>0, <4>0 DEF RxWaitForDavHi, TimeoutSet, Goto, Stay, pins, TypeOK
      <4>2. ~dav'[r] /\ data'[r] = 0
        BY <1>0, <1>5 DEF OneTalkerInv, LineStates, ReceiverLines, RxWaitForDavHi, pins
      <4> QED BY <4>1, <4>2 DEF ReceiverLines, Holding
    <3> QED BY <3>1, <3>2, <3>3 DEF LineStates
  <2>2. TalkerAndReceivers'
    <3>1. pc'[Source] = pc[Source] /\ ch'[Source] = ch[Source] /\ num'[Source] = num[Source]
      BY <1>0, <1>5 DEF RxWaitForDavHi, Goto, Stay, TypeOK
    <3>2. \A q \in Receivers \ {r} : pc'[q] = pc[q] /\ ch'[q] = ch[q] /\ num'[q] = num[q]
      BY <1>0, <1>5 DEF RxWaitForDavHi, Goto, Stay, TypeOK, Receivers
    <3>3. Follows(r)'
      BY <1>0, <1>5, <3>1, <2>0, <2>00 DEF OneTalkerInv, LineStates, SourceLines,
        TalkerAndReceivers, Follows, RxWaitForDavHi,
        InCall, Goto, Stay, TypeOK, Knows, Holds, Holding
    <3> QED BY <3>1, <3>2, <3>3 DEF OneTalkerInv, TalkerAndReceivers, Follows, Knows, Holds,
      Holding
  <2>3. Logs'
    BY <1>0, <1>5, <2>0 DEF OneTalkerInv, Logs, RxWaitForDavHi, Goto, Stay, TypeOK, Receivers
  <2> QED BY <2>1, <2>2, <2>3 DEF OneTalkerInv
<1>6. CASE RxDavIsHi(r)
  <2>1. LineStates'
    <3>1. SourceLines' /\ ~ifc' /\ \A p \in Party : ~key'[p]
      BY <1>0, <1>6 DEF OneTalkerInv, LineStates, SourceLines, RxDavIsHi, BusReadInit,
        TimeoutSet,
        Goto, Stay, pins, TypeOK
    <3>2. ASSUME NEW q \in Receivers \ {r} PROVE ReceiverLines(q)'
      BY <1>0, <1>6 DEF OneTalkerInv, LineStates, ReceiverLines, RxDavIsHi, BusReadInit,
        TimeoutSet,
        Goto, Stay, pins, TypeOK, Receivers, Holding
    <3>3. ReceiverLines(r)'
      <4>0. nrfd[r] = TRUE /\ ndac[r] = FALSE /\ ~done[r]
        BY <1>0, <1>6 DEF OneTalkerInv, LineStates, ReceiverLines, RxDavIsHi, InCall, Holding
      <4>1. nrfd'[r] = TRUE /\ ndac'[r] = FALSE /\ pc'[r] = "RX_FINISH" /\ ~done'[r]
        BY <1>0, <1>6, <4>0 DEF RxDavIsHi, TimeoutSet, Goto, Stay, pins, TypeOK
      <4>2. ~dav'[r] /\ data'[r] = 0
        BY <1>0, <1>6 DEF OneTalkerInv, LineStates, ReceiverLines, RxDavIsHi, pins
      <4> QED BY <4>1, <4>2 DEF ReceiverLines, Holding
    <3> QED BY <3>1, <3>2, <3>3 DEF LineStates
  <2>2. TalkerAndReceivers'
    <3>1. pc'[Source] = pc[Source] /\ ch'[Source] = ch[Source] /\ num'[Source] = num[Source]
      BY <1>0, <1>6 DEF RxDavIsHi, Goto, Stay, TypeOK
    <3>2. \A q \in Receivers \ {r} : pc'[q] = pc[q] /\ ch'[q] = ch[q] /\ num'[q] = num[q]
      BY <1>0, <1>6 DEF RxDavIsHi, Goto, Stay, TypeOK, Receivers
    <3>3. Follows(r)'
      BY <1>0, <1>6, <3>1 DEF OneTalkerInv, LineStates, SourceLines, TalkerAndReceivers,
        Follows, RxDavIsHi,
        InCall, Goto, Stay, TypeOK, Knows, Holds, Holding
    <3> QED BY <3>1, <3>2, <3>3 DEF OneTalkerInv, TalkerAndReceivers, Follows, Knows, Holds,
      Holding
  <2>3. Logs'
    BY <1>0, <1>6 DEF OneTalkerInv, Logs, RxDavIsHi, Goto, Stay, TypeOK, Receivers
  <2> QED BY <2>1, <2>2, <2>3 DEF OneTalkerInv
<1>7. CASE RxFinish(r)
  <2>0. ch[r] = num[r] + 1 /\ ch[r] # 0
    <3>1. pc[r] = "RX_FINISH" /\ num[r] \in Nat /\ ch[r] \in Int
      BY <1>0, <1>7 DEF RxFinish, InCall, TypeOK
    <3>2. \E n \in {num[Source], ch[Source]} : Holds(r, n)
      BY <3>1 DEF OneTalkerInv, TalkerAndReceivers, Follows, Knows
    <3> QED BY <3>1, <3>2 DEF Holds
  <2>1. LineStates'
    <3>1. SourceLines' /\ ~ifc' /\ \A p \in Party : ~key'[p]
      BY <1>0, <1>7 DEF OneTalkerInv, LineStates, SourceLines, RxFinish, ReadReturns,
        BusReadInit, TimeoutSet,
        Goto, Stay, pins, TypeOK
    <3>2. ASSUME NEW q \in Receivers \ {r} PROVE ReceiverLines(q)'
      BY <1>0, <1>7 DEF OneTalkerInv, LineStates, ReceiverLines, RxFinish, ReadReturns,
        BusReadInit, TimeoutSet,
        Goto, Stay, pins, TypeOK, Receivers, Holding
    <3>3. ReceiverLines(r)'
      <4>0. nrfd[r] = TRUE /\ ndac[r] = FALSE /\ ~done[r]
        BY <1>0, <1>7 DEF OneTalkerInv, LineStates, ReceiverLines, RxFinish, InCall, Holding
      <4>1. nrfd'[r] = TRUE /\ ndac'[r] = FALSE /\ pc'[r] = "idle"
        BY <1>0, <1>7, <4>0 DEF RxFinish, ReadReturns, TimeoutSet, Goto, Stay, pins, TypeOK
      <4>2. ~dav'[r] /\ data'[r] = 0
        BY <1>0, <1>7 DEF OneTalkerInv, LineStates, ReceiverLines, RxFinish, ReadReturns, pins
      <4> QED BY <4>1, <4>2 DEF ReceiverLines, Holding
    <3> QED BY <3>1, <3>2, <3>3 DEF LineStates
  <2>2. TalkerAndReceivers'
    <3>1. pc'[Source] = pc[Source] /\ ch'[Source] = ch[Source] /\ num'[Source] = num[Source]
      BY <1>0, <1>7 DEF RxFinish, ReadReturns, Goto, Stay, TypeOK
    <3>2. \A q \in Receivers \ {r} : pc'[q] = pc[q] /\ ch'[q] = ch[q] /\ num'[q] = num[q]
      BY <1>0, <1>7 DEF RxFinish, ReadReturns, Goto, Stay, TypeOK, Receivers
    <3>3. Follows(r)'
      BY <1>0, <1>7, <3>1, <2>0 DEF OneTalkerInv, LineStates, SourceLines,
        TalkerAndReceivers, Follows, RxFinish, ReadReturns,
        InCall, Goto, Stay, TypeOK, Knows, Holds, Holding
    <3> QED BY <3>1, <3>2, <3>3 DEF OneTalkerInv, TalkerAndReceivers, Follows, Knows, Holds,
      Holding
  <2>3. Logs'
    <3>1. pc'[Source] = pc[Source] /\ ch'[Source] = ch[Source] /\ num'[Source] = num[Source] /\ sent' = sent
      BY <1>0, <1>7 DEF RxFinish, ReadReturns, Goto, TypeOK
    <3>2. got'[r] = Append(got[r], ch[r]) /\ num'[r] = ch[r]
      BY <1>0, <1>7, <2>0 DEF RxFinish, ReadReturns, TypeOK
    <3>3. Len(got[r]) = num[r] /\ \A i \in 1..Len(got[r]) : got[r][i] = i
      BY DEF OneTalkerInv, Logs
    <3>4. got[r] \in Seq(0..N) /\ ch[r] \in 0..N
      BY <1>0 DEF TypeOK
    <3>5. Len(got'[r]) = num'[r] /\ \A i \in 1..Len(got'[r]) : got'[r][i] = i
      BY <3>2, <3>3, <3>4, <2>0
    <3>6. \A q \in Receivers \ {r} : got'[q] = got[q] /\ num'[q] = num[q]
      BY <1>0, <1>7 DEF RxFinish, ReadReturns, TypeOK, Receivers
    <3> QED BY <3>1, <3>5, <3>6 DEF OneTalkerInv, Logs
  <2> QED BY <2>1, <2>2, <2>3 DEF OneTalkerInv
<1>8. CASE RxError(r)
  BY <1>0, <1>8 DEF RxError, InCall, OneTalkerInv, TalkerAndReceivers, Follows, Knows, Holds,
    Holding
<1> QED BY <1>1, <1>2, <1>3, <1>4, <1>5, <1>6, <1>7, <1>8 DEF Read
(* Every turn of the talker's loops keeps the lockstep.                    *)
LEMMA SourceStep ==
  ASSUME OneTalker, TypeOK, OneTalkerInv, Read(Source) \/ Write(Source)
  PROVE  OneTalkerInv'
<1> USE StateSets, BytesNat
<1> DEFINE Same(r) == /\ pc'[r] = pc[r] /\ num'[r] = num[r] /\ ch'[r] = ch[r]
                      /\ dav'[r] = dav[r] /\ nrfd'[r] = nrfd[r] /\ ndac'[r] = ndac[r]
                      /\ data'[r] = data[r] /\ done'[r] = done[r] /\ got'[r] = got[r]
<1>0. ~ifc /\ ~key[Source] /\ \A r \in Receivers : r \in Party /\ r # Source
  BY DEF Receivers, OneTalkerInv, LineStates
<1>1. CASE StartRead(Source)
  <2>0. num[Source] = N
    BY <1>1, HandshakeAssumption DEF StartRead, TypeOK, OneTalker
  <2>1. \A r \in Receivers : Same(r)
    BY <1>0, <1>1 DEF StartRead, BusReadInit, Goto, Stay, pins, TypeOK
  <2>2. SourceLines' /\ ~ifc' /\ \A p \in Party : ~key'[p]
    BY <1>0, <1>1, <2>0 DEF OneTalkerInv, LineStates, SourceLines, StartRead, BusReadInit,
      InCall,
      Goto, Stay, pins, TypeOK
  <2>3. \A r \in Receivers : ReceiverLines(r)'
    BY <2>1 DEF OneTalkerInv, LineStates, ReceiverLines, Holding
  <2>4. ASSUME NEW r \in Receivers PROVE Follows(r)'
    BY <1>0, <1>1, <2>0, <2>1 DEF OneTalkerInv, LineStates, ReceiverLines, Low,
      TalkerAndReceivers, Follows,
      StartRead, BusReadInit, InCall, Goto, Stay, TypeOK, Logs, Knows, Holds, Holding
  <2>5. TalkerAndReceivers'
    BY <1>1, <2>0, <2>4 DEF OneTalkerInv, TalkerAndReceivers, StartRead, BusReadInit, InCall,
      Goto, Stay, TypeOK
  <2>6. Logs'
    BY <1>0, <1>1, <2>0, <2>1 DEF OneTalkerInv, Logs, StartRead, BusReadInit, InCall, Goto,
      Stay, TypeOK
  <2> QED BY <2>2, <2>3, <2>5, <2>6 DEF OneTalkerInv, LineStates
<1>2. CASE RxStart(Source)
  <2>1. \A r \in Receivers : Same(r)
    BY <1>0, <1>2 DEF RxStart, Goto, Stay, pins, TypeOK
  <2>2. SourceLines' /\ ~ifc' /\ \A p \in Party : ~key'[p]
    BY <1>0, <1>2 DEF OneTalkerInv, LineStates, SourceLines, RxStart, InCall,
      Goto, Stay, pins, TypeOK
  <2>3. \A r \in Receivers : ReceiverLines(r)'
    BY <2>1 DEF OneTalkerInv, LineStates, ReceiverLines, Holding
  <2>4. ASSUME NEW r \in Receivers PROVE Follows(r)'
    BY <1>0, <1>2, <2>1 DEF OneTalkerInv, LineStates, ReceiverLines, Low, TalkerAndReceivers,
      Follows,
      RxStart, InCall, Goto, Stay, TypeOK, Logs, Knows, Holds, Holding
  <2>5. TalkerAndReceivers'
    BY <1>2, <2>4 DEF OneTalkerInv, TalkerAndReceivers, RxStart, InCall, Goto, Stay, TypeOK
  <2>6. Logs'
    BY <1>0, <1>2, <2>1 DEF OneTalkerInv, Logs, RxStart, InCall, Goto, Stay, TypeOK
  <2> QED BY <2>2, <2>3, <2>5, <2>6 DEF OneTalkerInv, LineStates
<1>3. CASE StartWrite(Source)
  <2>1. \A r \in Receivers : Same(r)
    BY <1>0, <1>3 DEF StartWrite, BusReadInit, TimeoutSet, Goto, Stay, pins, TypeOK
  <2>2. SourceLines' /\ ~ifc' /\ \A p \in Party : ~key'[p]
    BY <1>0, <1>3 DEF OneTalkerInv, LineStates, SourceLines, StartWrite, BusReadInit,
      TimeoutSet, InCall,
      Goto, Stay, pins, TypeOK
  <2>3. \A r \in Receivers : ReceiverLines(r)'
    BY <2>1 DEF OneTalkerInv, LineStates, ReceiverLines, Holding
  <2>4. ASSUME NEW r \in Receivers PROVE Follows(r)'
    BY <1>0, <1>3, <2>1 DEF OneTalkerInv, LineStates, ReceiverLines, Low, TalkerAndReceivers,
      Follows,
      StartWrite, BusReadInit, TimeoutSet, InCall, Goto, Stay, TypeOK, Logs, Knows, Holds,
        Holding
  <2>5. TalkerAndReceivers'
    BY <1>3, <2>4 DEF OneTalkerInv, TalkerAndReceivers, StartWrite, BusReadInit, TimeoutSet,
      InCall, Goto, Stay, TypeOK
  <2>6. Logs'
    BY <1>0, <1>3, <2>1 DEF OneTalkerInv, Logs, StartWrite, BusReadInit, TimeoutSet, InCall,
      Goto, Stay, TypeOK
  <2> QED BY <2>2, <2>3, <2>5, <2>6 DEF OneTalkerInv, LineStates
<1>4. CASE TxStart(Source)
  <2>0. Goto(Source, "TX_WAIT_READY") /\ TimeoutSet(Source)
    BY <1>0, <1>4 DEF TxStart, TxWait, TimedOut, InCall, OneTalkerInv, LineStates, SourceLines
  <2>1. \A r \in Receivers : Same(r)
    BY <1>0, <1>4 DEF TxStart, TxWait, TimeoutSet, Goto, Stay, pins, TypeOK
  <2>2. SourceLines' /\ ~ifc' /\ \A p \in Party : ~key'[p]
    BY <1>0, <1>4, <2>0 DEF OneTalkerInv, LineStates, SourceLines, TxStart, TxWait,
      TimeoutSet, InCall,
      Goto, Stay, pins, TypeOK
  <2>3. \A r \in Receivers : ReceiverLines(r)'
    BY <2>1 DEF OneTalkerInv, LineStates, ReceiverLines, Holding
  <2>4. ASSUME NEW r \in Receivers PROVE Follows(r)'
    BY <1>0, <1>4, <2>0, <2>1 DEF OneTalkerInv, LineStates, ReceiverLines, Low,
      TalkerAndReceivers, Follows,
      TxStart, TxWait, TimeoutSet, InCall, Goto, Stay, TypeOK, Logs, Knows, Holds, Holding
  <2>5. TalkerAndReceivers'
    BY <1>4, <2>0, <2>4 DEF OneTalkerInv, TalkerAndReceivers, TxStart, TxWait, TimeoutSet,
      InCall, Goto, Stay, TypeOK
  <2>6. Logs'
    BY <1>0, <1>4, <2>0, <2>1 DEF OneTalkerInv, Logs, TxStart, TxWait, TimeoutSet, InCall,
      Goto, Stay, TypeOK
  <2> QED BY <2>2, <2>3, <2>5, <2>6 DEF OneTalkerInv, LineStates
<1>5. CASE TxWaitReady(Source)
  <2>0. Goto(Source, "TX_PUT_DATA") /\ TimeoutSet(Source) /\ ~Low(nrfd)
    BY <1>0, <1>5 DEF TxWaitReady, TxWait, TimedOut, InCall, OneTalkerInv, LineStates,
      SourceLines
  <2>1. \A r \in Receivers : Same(r)
    BY <1>0, <1>5 DEF TxWaitReady, TxWait, TimeoutSet, Goto, Stay, pins, TypeOK
  <2>2. SourceLines' /\ ~ifc' /\ \A p \in Party : ~key'[p]
    BY <1>0, <1>5, <2>0 DEF OneTalkerInv, LineStates, SourceLines, TxWaitReady, TxWait,
      TimeoutSet, InCall,
      Goto, Stay, pins, TypeOK
  <2>3. \A r \in Receivers : ReceiverLines(r)'
    BY <2>1 DEF OneTalkerInv, LineStates, ReceiverLines, Holding
  <2>4. ASSUME NEW r \in Receivers PROVE Follows(r)'
    <3>1. ~nrfd[r]
      BY <1>0, <2>0 DEF Low
    <3>2. pc[r] = "RX_WAIT_FOR_DAV_LOW" /\ num[r] = num[Source]
      BY <3>1, <1>5 DEF OneTalkerInv, LineStates, ReceiverLines, TalkerAndReceivers, Follows,
        TxWaitReady, TxWait, InCall, Knows, Holds, Holding
    <3>3. pc'[Source] = "TX_PUT_DATA" /\ num'[Source] = num[Source]
      BY <1>5, <2>0 DEF TxWaitReady, TxWait, Goto, Stay, TypeOK
    <3> QED BY <2>1, <3>2, <3>3 DEF Follows
  <2>5. TalkerAndReceivers'
    BY <1>5, <2>0, <2>4 DEF OneTalkerInv, TalkerAndReceivers, TxWaitReady, TxWait,
      TimeoutSet, InCall, Goto, Stay, TypeOK
  <2>6. Logs'
    BY <1>0, <1>5, <2>0, <2>1 DEF OneTalkerInv, Logs, TxWaitReady, TxWait, TimeoutSet,
      InCall, Goto, Stay, TypeOK
  <2> QED BY <2>2, <2>3, <2>5, <2>6 DEF OneTalkerInv, LineStates
<1>6. CASE TxPutData(Source)
  <2>1. \A r \in Receivers : Same(r)
    BY <1>0, <1>6 DEF TxPutData, TimeoutSet, Goto, Stay, pins, TypeOK
  <2>2. SourceLines' /\ ~ifc' /\ \A p \in Party : ~key'[p]
    BY <1>0, <1>6 DEF OneTalkerInv, LineStates, SourceLines, TxPutData, TimeoutSet, InCall,
      Goto, Stay, pins, TypeOK
  <2>3. \A r \in Receivers : ReceiverLines(r)'
    BY <2>1 DEF OneTalkerInv, LineStates, ReceiverLines, Holding
  <2>4. ASSUME NEW r \in Receivers PROVE Follows(r)'
    BY <1>0, <1>6, <2>1 DEF OneTalkerInv, LineStates, ReceiverLines, Low, TalkerAndReceivers,
      Follows,
      TxPutData, TimeoutSet, InCall, Goto, Stay, TypeOK, Logs, Knows, Holds, Holding
  <2>5. TalkerAndReceivers'
    BY <1>6, <2>4 DEF OneTalkerInv, TalkerAndReceivers, TxPutData, TimeoutSet, InCall, Goto,
      Stay, TypeOK
  <2>6. Logs'
    BY <1>0, <1>6, <2>1 DEF OneTalkerInv, Logs, TxPutData, TimeoutSet, InCall, Goto, Stay,
      TypeOK
  <2> QED BY <2>2, <2>3, <2>5, <2>6 DEF OneTalkerInv, LineStates
<1>7. CASE TxSetDavLow(Source)
  <2>1. \A r \in Receivers : Same(r)
    BY <1>0, <1>7 DEF TxSetDavLow, TimeoutSet, Goto, Stay, pins, TypeOK
  <2>2. SourceLines' /\ ~ifc' /\ \A p \in Party : ~key'[p]
    BY <1>0, <1>7 DEF OneTalkerInv, LineStates, SourceLines, TxSetDavLow, TimeoutSet, InCall,
      Goto, Stay, pins, TypeOK
  <2>3. \A r \in Receivers : ReceiverLines(r)'
    BY <2>1 DEF OneTalkerInv, LineStates, ReceiverLines, Holding
  <2>4. ASSUME NEW r \in Receivers PROVE Follows(r)'
    BY <1>0, <1>7, <2>1 DEF OneTalkerInv, LineStates, ReceiverLines, Low, TalkerAndReceivers,
      Follows,
      TxSetDavLow, TimeoutSet, InCall, Goto, Stay, TypeOK, Logs, Knows, Holds, Holding
  <2>5. TalkerAndReceivers'
    BY <1>7, <2>4 DEF OneTalkerInv, TalkerAndReceivers, TxSetDavLow, TimeoutSet, InCall,
      Goto, Stay, TypeOK
  <2>6. Logs'
    BY <1>0, <1>7, <2>1 DEF OneTalkerInv, Logs, TxSetDavLow, TimeoutSet, InCall, Goto, Stay,
      TypeOK
  <2> QED BY <2>2, <2>3, <2>5, <2>6 DEF OneTalkerInv, LineStates
<1>8. CASE TxWaitForNrfdLow(Source)
  <2>0. Goto(Source, "TX_WAIT_FOR_NDAC_HI") /\ TimeoutSet(Source)
    BY <1>0, <1>8 DEF TxWaitForNrfdLow, TxWait, TimedOut, InCall, OneTalkerInv, LineStates,
      SourceLines
  <2>1. \A r \in Receivers : Same(r)
    BY <1>0, <1>8 DEF TxWaitForNrfdLow, TxWait, TimeoutSet, Goto, Stay, pins, TypeOK
  <2>2. SourceLines' /\ ~ifc' /\ \A p \in Party : ~key'[p]
    BY <1>0, <1>8, <2>0 DEF OneTalkerInv, LineStates, SourceLines, TxWaitForNrfdLow, TxWait,
      TimeoutSet, InCall,
      Goto, Stay, pins, TypeOK
  <2>3. \A r \in Receivers : ReceiverLines(r)'
    BY <2>1 DEF OneTalkerInv, LineStates, ReceiverLines, Holding
  <2>4. ASSUME NEW r \in Receivers PROVE Follows(r)'
    BY <1>0, <1>8, <2>0, <2>1 DEF OneTalkerInv, LineStates, ReceiverLines, Low,
      TalkerAndReceivers, Follows,
      TxWaitForNrfdLow, TxWait, TimeoutSet, InCall, Goto, Stay, TypeOK, Logs, Knows, Holds,
        Holding
  <2>5. TalkerAndReceivers'
    BY <1>8, <2>0, <2>4 DEF OneTalkerInv, TalkerAndReceivers, TxWaitForNrfdLow, TxWait,
      TimeoutSet, InCall, Goto, Stay, TypeOK
  <2>6. Logs'
    BY <1>0, <1>8, <2>0, <2>1 DEF OneTalkerInv, Logs, TxWaitForNrfdLow, TxWait, TimeoutSet,
      InCall, Goto, Stay, TypeOK
  <2> QED BY <2>2, <2>3, <2>5, <2>6 DEF OneTalkerInv, LineStates
<1>9. CASE TxWaitForNdacHi(Source)
  <2>0. Goto(Source, "TX_SET_DAV_HI") /\ ~Low(ndac)
    BY <1>0, <1>9 DEF TxWaitForNdacHi, TimedOut, InCall, OneTalkerInv, LineStates, SourceLines
  <2>1. \A r \in Receivers : Same(r)
    BY <1>0, <1>9 DEF TxWaitForNdacHi, Goto, Stay, pins, TypeOK
  <2>2. SourceLines' /\ ~ifc' /\ \A p \in Party : ~key'[p]
    BY <1>0, <1>9, <2>0 DEF OneTalkerInv, LineStates, SourceLines, TxWaitForNdacHi, InCall,
      Goto, Stay, pins, TypeOK
  <2>3. \A r \in Receivers : ReceiverLines(r)'
    BY <2>1 DEF OneTalkerInv, LineStates, ReceiverLines, Holding
  <2>4. ASSUME NEW r \in Receivers PROVE Follows(r)'
    <3>1. ~ndac[r]
      BY <1>0, <2>0 DEF Low
    <3>2. pc[r] = "RX_WAIT_FOR_DAV_HI" /\ ch[r] = ch[Source] /\ num[r] = num[Source]
      BY <3>1, <1>9 DEF OneTalkerInv, LineStates, ReceiverLines, TalkerAndReceivers, Follows,
        TxWaitForNdacHi, InCall
    <3>3. pc'[Source] = "TX_SET_DAV_HI" /\ num'[Source] = num[Source] /\ ch'[Source] = ch[Source]
      BY <1>9, <2>0 DEF TxWaitForNdacHi, Goto, Stay, TypeOK
    <3> QED BY <2>1, <3>2, <3>3 DEF Follows
  <2>5. TalkerAndReceivers'
    BY <1>9, <2>0, <2>4 DEF OneTalkerInv, TalkerAndReceivers, TxWaitForNdacHi, InCall, Goto,
      Stay, TypeOK
  <2>6. Logs'
    BY <1>0, <1>9, <2>0, <2>1 DEF OneTalkerInv, Logs, TxWaitForNdacHi, InCall, Goto, Stay,
      TypeOK
  <2> QED BY <2>2, <2>3, <2>5, <2>6 DEF OneTalkerInv, LineStates
<1>10. CASE TxSetDavHi(Source)
  <2>1. \A r \in Receivers : Same(r)
    BY <1>0, <1>10 DEF TxSetDavHi, BusReadInit, TimeoutSet, Goto, Stay, pins, TypeOK
  <2>2. SourceLines' /\ ~ifc' /\ \A p \in Party : ~key'[p]
    BY <1>0, <1>10 DEF OneTalkerInv, LineStates, SourceLines, TxSetDavHi, BusReadInit,
      TimeoutSet, InCall,
      Goto, Stay, pins, TypeOK
  <2>3. \A r \in Receivers : ReceiverLines(r)'
    BY <2>1 DEF OneTalkerInv, LineStates, ReceiverLines, Holding
  <2>4. ASSUME NEW r \in Receivers PROVE Follows(r)'
    BY <1>0, <1>10, <2>1 DEF OneTalkerInv, LineStates, ReceiverLines, Low,
      TalkerAndReceivers, Follows,
      TxSetDavHi, BusReadInit, TimeoutSet, InCall, Goto, Stay, TypeOK, Logs, Knows, Holds,
        Holding
  <2>5. TalkerAndReceivers'
    BY <1>10, <2>4 DEF OneTalkerInv, TalkerAndReceivers, TxSetDavHi, BusReadInit, TimeoutSet,
      InCall, Goto, Stay, TypeOK
  <2>6. Logs'
    BY <1>0, <1>10, <2>1 DEF OneTalkerInv, Logs, TxSetDavHi, BusReadInit, TimeoutSet, InCall,
      Goto, Stay, TypeOK
  <2> QED BY <2>2, <2>3, <2>5, <2>6 DEF OneTalkerInv, LineStates
<1>11. CASE TxWaitForDavHi(Source)
  <2>0. Goto(Source, "TX_FINISH")
    BY <1>0, <1>11 DEF TxWaitForDavHi, TimedOut, InCall, OneTalkerInv, LineStates, SourceLines
  <2>1. \A r \in Receivers : Same(r)
    BY <1>0, <1>11 DEF TxWaitForDavHi, Goto, Stay, pins, TypeOK
  <2>2. SourceLines' /\ ~ifc' /\ \A p \in Party : ~key'[p]
    BY <1>0, <1>11, <2>0 DEF OneTalkerInv, LineStates, SourceLines, TxWaitForDavHi, InCall,
      Goto, Stay, pins, TypeOK
  <2>3. \A r \in Receivers : ReceiverLines(r)'
    BY <2>1 DEF OneTalkerInv, LineStates, ReceiverLines, Holding
  <2>4. ASSUME NEW r \in Receivers PROVE Follows(r)'
    BY <1>0, <1>11, <2>0, <2>1 DEF OneTalkerInv, LineStates, ReceiverLines, Low,
      TalkerAndReceivers, Follows,
      TxWaitForDavHi, InCall, Goto, Stay, TypeOK, Logs, Knows, Holds, Holding
  <2>5. TalkerAndReceivers'
    BY <1>11, <2>0, <2>4 DEF OneTalkerInv, TalkerAndReceivers, TxWaitForDavHi, InCall, Goto,
      Stay, TypeOK
  <2>6. Logs'
    BY <1>0, <1>11, <2>0, <2>1 DEF OneTalkerInv, Logs, TxWaitForDavHi, InCall, Goto, Stay,
      TypeOK
  <2> QED BY <2>2, <2>3, <2>5, <2>6 DEF OneTalkerInv, LineStates
<1>12. CASE TxFinish(Source)
  <2>1. \A r \in Receivers : Same(r)
    BY <1>0, <1>12 DEF TxFinish, WriteReturns, Goto, Stay, pins, TypeOK
  <2>2. SourceLines' /\ ~ifc' /\ \A p \in Party : ~key'[p]
    BY <1>0, <1>12 DEF OneTalkerInv, LineStates, SourceLines, TxFinish, WriteReturns, InCall,
      Goto, Stay, pins, TypeOK
  <2>3. \A r \in Receivers : ReceiverLines(r)'
    BY <2>1 DEF OneTalkerInv, LineStates, ReceiverLines, Holding
  <2>4. ASSUME NEW r \in Receivers PROVE Follows(r)'
    BY <1>0, <1>12, <2>1 DEF OneTalkerInv, LineStates, ReceiverLines, Low,
      TalkerAndReceivers, Follows,
      TxFinish, WriteReturns, InCall, Goto, Stay, TypeOK, Logs, Knows, Holds, Holding
  <2>5. TalkerAndReceivers'
    BY <1>12, <2>4 DEF OneTalkerInv, TalkerAndReceivers, TxFinish, WriteReturns, InCall,
      Goto, Stay, TypeOK
  <2>6. Logs'
    BY <1>0, <1>12, <2>1 DEF OneTalkerInv, Logs, TxFinish, WriteReturns, InCall, Goto, Stay,
      TypeOK
  <2> QED BY <2>2, <2>3, <2>5, <2>6 DEF OneTalkerInv, LineStates
<1>13. CASE RxWaitForDavLow(Source)
  BY <1>0, <1>13 DEF RxWaitForDavLow, InCall, Low, OneTalkerInv, LineStates, SourceLines,
    ReceiverLines, Receivers
<1>14. CASE \/ RxDavIsLow(Source) \/ RxWaitForDavHi(Source) \/ RxDavIsHi(Source)
           \/ RxFinish(Source) \/ RxError(Source) \/ TxError(Source)
  BY <1>14 DEF RxDavIsLow, RxWaitForDavHi, RxDavIsHi, RxFinish, RxError, TxError, InCall,
    OneTalkerInv, TalkerAndReceivers
<1> QED
  BY <1>1, <1>2, <1>3, <1>4, <1>5, <1>6, <1>7, <1>8, <1>9, <1>10, <1>11, <1>12, <1>13,
    <1>14 DEF Read, Write

(* With one talker and no fault nothing but calls proceeds.                *)
LEMMA OnlyCalls ==
  ASSUME OneTalker, OneTalkerInv, Next
  PROVE  \/ \E p \in Party : Read(p) \/ Write(p)
         \/ UNCHANGED vars
BY DEF OneTalker, NoFault, OneTalkerInv, LineStates, Next, Step, TimerTask,
       KeyHit, KeyTaken, KeyBreak, IfcBreak, Ifc, Quiet

(* Only the talker writes.                                                 *)
LEMMA ReceiverNeverWrites ==
  ASSUME OneTalker, TypeOK, OneTalkerInv, NEW r \in Receivers
  PROVE  ~Write(r)
<1>1. pc[r] \notin TxStates
  BY StateSets DEF OneTalkerInv, TalkerAndReceivers, Follows, Knows, Holds, Holding
<1>2. ~StartWrite(r)
  <2>1. num[r] < N => num[r] + 1 \in Bytes
    BY HandshakeAssumption DEF TypeOK, Bytes, Receivers
  <2> QED BY <2>1 DEF StartWrite, OneTalker, Receivers
<1> QED
  BY <1>1, <1>2, StateSets
  DEF Write, TxStart, TxWaitReady, TxPutData, TxSetDavLow, TxWaitForNrfdLow,
      TxWaitForNdacHi, TxSetDavHi, TxWaitForDavHi, TxFinish, TxError, TxWait, InCall

(* Every step keeps the lockstep.                                          *)
LEMMA OneTalkerNext ==
  ASSUME OneTalker, TypeOK, OneTalkerInv, [Next]_vars
  PROVE  OneTalkerInv'
<1>1. CASE UNCHANGED vars
  BY <1>1 DEF vars, pins, OneTalkerInv, LineStates, SourceLines, ReceiverLines,
              TalkerAndReceivers, Follows, Knows, Holds, Holding, Logs
<1>2. ASSUME NEW p \in Party, Read(p) \/ Write(p) PROVE OneTalkerInv'
  BY <1>2, ReceiverStep, SourceStep, ReceiverNeverWrites DEF Receivers
<1> QED BY <1>1, <1>2, OnlyCalls

(* One talker, no fault: the receivers follow the talker in lockstep.      *)
THEOREM OneTalkerLockstep == ASSUME OneTalker PROVE Spec => []OneTalkerInv
<1>1. Init => OneTalkerInv
  BY OneTalkerInit
<1>2. TypeOK /\ OneTalkerInv /\ [Next]_vars => OneTalkerInv'
  BY OneTalkerNext
<1> QED BY <1>1, <1>2, TypeCorrect, PTL DEF Spec

(* One talker, no fault: what gpib_write_byte reports as sent every other  *)
(* party has.                                                              *)
THEOREM OneTalkerConfirmed == ASSUME OneTalker PROVE Spec => []ConfirmedDelivered
<1>1. TypeOK /\ OneTalkerInv => ConfirmedDelivered
  <2> SUFFICES ASSUME TypeOK, OneTalkerInv, NEW n \in sent,
                      NEW p \in Party, Talker[n] # p
               PROVE  n \in Returned(p) \/ (Holding(p) /\ ch[p] = n)
    BY DEF ConfirmedDelivered
  <2>1. n \in 1..num[Source] /\ n \in Bytes
    BY DEF OneTalkerInv, Logs, TypeOK
  <2>2. p \in Receivers
    BY <2>1 DEF OneTalker, Receivers
  <2>3. num[p] \in Nat /\ num[Source] \in Nat /\ ch[Source] \in Nat
    BY BytesNat, HandshakeAssumption DEF TypeOK
  <2>4. n <= num[p] \/ (Holding(p) /\ ch[p] = n)
    BY <2>1, <2>2, <2>3, StateSets
    DEF OneTalkerInv, TalkerAndReceivers, Follows, Knows, Holds, Logs
  <2>5. n <= num[p] => got[p][n] = n /\ n \in 1..Len(got[p])
    BY <2>1, <2>2, <2>3 DEF OneTalkerInv, Logs
  <2> QED BY <2>4, <2>5 DEF Returned
<1> QED BY <1>1, TypeCorrect, OneTalkerLockstep, PTL

(* One talker, no fault: a party that knows of a byte sent by another has  *)
(* returned it, and all before it, from gpib_read_byte.                    *)
THEOREM OneTalkerMissesNone == ASSUME OneTalker PROVE Spec => []NothingMissed
<1>1. TypeOK /\ OneTalkerInv => NothingMissed
  <2> SUFFICES ASSUME TypeOK, OneTalkerInv, NEW p \in Party,
                      NEW n \in 1..num[p], Talker[n] # p
               PROVE  n \in Returned(p)
    BY DEF NothingMissed
  <2>1. num[p] \in 0..N /\ n \in Bytes
    BY HandshakeAssumption DEF TypeOK, Bytes
  <2>2. p \in Receivers
    BY <2>1 DEF OneTalker, Receivers
  <2>3. got[p][n] = n /\ n \in 1..Len(got[p])
    BY <2>1, <2>2 DEF OneTalkerInv, Logs
  <2> QED BY <2>3 DEF Returned
<1> QED BY <1>1, TypeCorrect, OneTalkerLockstep, PTL

(* A receiver's step takes the byte on offer when it latches it, returns   *)
(* it when its read ends, and otherwise leaves the channel alone.          *)
LEMMA ChannelReceiver ==
  ASSUME OneTalker, TypeOK, OneTalkerInv, NEW r \in Receivers, Read(r)
  PROVE  \/ Channel!Take(r) \/ Channel!Return(r)
         \/ UNCHANGED <<Offered, Taken, Given, sent>>
<1> USE BytesNat, StateSets
<1>0. /\ r \in Party /\ r # Source /\ \A q \in Receivers : q \in Party
      /\ ~key[r] /\ ~ifc
  BY DEF Receivers, OneTalkerInv, LineStates
<1>1. CASE RxDavIsLow(r)
  <2>1. /\ pc[Source] \in {"TX_WAIT_FOR_NRFD_LOW", "TX_WAIT_FOR_NDAC_HI"}
        /\ num[r] = num[Source] /\ pc[r] = "RX_DAV_IS_LOW"
    BY <1>1 DEF OneTalkerInv, TalkerAndReceivers, Follows, RxDavIsLow, InCall,
                Knows, Holds, Holding
  <2>2. /\ ch[Source] = num[Source] + 1 /\ num[Source] \in Nat
        /\ data[Source] = ch[Source] /\ Offered = ch[Source]
    BY <2>1 DEF OneTalkerInv, Logs, LineStates, SourceLines, TypeOK, Offered, Offering
  <2>3. BusRead = ch[Source]
    BY <2>2, BusReadOffered DEF OneTalkerInv
  <2>4. /\ Offered' = Offered /\ Given' = Given /\ sent' = sent
    BY <1>0, <1>1 DEF RxDavIsLow, Goto, TypeOK, Offered, Offering, Given
  <2>5. Taken[r] = Offered - 1 /\ Len(Given[r]) = Taken[r]
    BY <2>1, <2>2 DEF Taken, Given, Holding, OneTalkerInv, Logs
  <2>6. Taken' = [Taken EXCEPT ![r] = Offered]
    BY <1>0, <1>1, <2>2, <2>3 DEF RxDavIsLow, Goto, TypeOK, Taken, Holding
  <2> QED BY <2>4, <2>5, <2>6 DEF Channel!Take
<1>2. CASE RxFinish(r)
  <2>1. pc[r] = "RX_FINISH" /\ ch[r] \in Nat /\ num[r] \in Nat
    BY <1>0, <1>2 DEF RxFinish, InCall, TypeOK
  <2>2. \E n \in {num[Source], ch[Source]} : Holds(r, n)
    BY <2>1 DEF OneTalkerInv, TalkerAndReceivers, Follows, Knows
  <2>3. num[r] = ch[r] - 1 /\ ch[r] # 0
    BY <2>1, <2>2 DEF Holds
  <2>4. /\ Offered' = Offered /\ sent' = sent
    BY <1>0, <1>2 DEF RxFinish, ReadReturns, Goto, TypeOK, Offered, Offering
  <2>5. Len(Given[r]) = Taken[r] - 1 /\ Taken[r] = ch[r]
    BY <2>1, <2>3 DEF Taken, Given, Holding, OneTalkerInv, Logs
  <2>6. Taken' = Taken
    BY <1>0, <1>2, <2>1, <2>3 DEF RxFinish, ReadReturns, Goto, TypeOK, Taken, Holding
  <2>7. Given' = [Given EXCEPT ![r] = Append(@, Taken[r])]
    BY <1>0, <1>2, <2>5 DEF RxFinish, ReadReturns, TypeOK, Given
  <2> QED BY <2>4, <2>5, <2>6, <2>7 DEF Channel!Return
<1>3. CASE StartRead(r)
  <2>1. ~Holding(r) /\ ~Holding(r)'
    BY <1>0, <1>3 DEF StartRead, Goto, TypeOK, Holding
  <2> QED
    BY <1>0, <1>3, <2>1
    DEF StartRead, Goto, TypeOK, Offered, Offering, Taken, Given, Holding
<1>4. CASE RxStart(r)
  BY <1>0, <1>4 DEF RxStart, InCall, Goto, Stay, TypeOK, Offered, Offering, Taken, Given,
    Holding
<1>5. CASE RxWaitForDavLow(r)
  BY <1>0, <1>5 DEF RxWaitForDavLow, InCall, Goto, Stay, TypeOK, Offered, Offering, Taken,
    Given, Holding
<1>6. CASE RxWaitForDavHi(r)
  <2>1. Goto(r, "RX_DAV_IS_HI") /\ pc[r] = "RX_WAIT_FOR_DAV_HI"
    BY <1>0, <1>6 DEF RxWaitForDavHi, InCall, TimedOut, OneTalkerInv, LineStates,
                      ReceiverLines, Holding
  <2> QED
    BY <1>0, <1>6, <2>1
    DEF RxWaitForDavHi, Goto, Stay, TypeOK, Offered, Offering, Taken, Given, Holding
<1>7. CASE RxDavIsHi(r)
  BY <1>0, <1>7 DEF RxDavIsHi, InCall, Goto, Stay, TypeOK, Offered, Offering, Taken, Given,
    Holding
<1>8. CASE RxError(r)
  BY <1>8 DEF RxError, InCall, OneTalkerInv, TalkerAndReceivers, Follows, Knows, Holds, Holding
<1> QED BY <1>1, <1>2, <1>3, <1>4, <1>5, <1>6, <1>7, <1>8 DEF Read

(* The talker's step offers the next byte when it pulls DAV low, confirms  *)
(* it when its write ends, and otherwise leaves the channel alone.         *)
LEMMA ChannelSource ==
  ASSUME OneTalker, TypeOK, OneTalkerInv, Read(Source) \/ Write(Source)
  PROVE  \/ Channel!Offer \/ Channel!Confirm
         \/ UNCHANGED <<Offered, Taken, Given, sent>>
<1> USE BytesNat, StateSets
<1>0. /\ \A r \in Receivers : r \in Party /\ r # Source
      /\ num[Source] \in Nat
      /\ pc[Source] \in TxStates => ch[Source] = num[Source] + 1
      /\ sent = 1..num[Source]
  BY DEF Receivers, OneTalkerInv, Logs, TypeOK
<1>1. CASE TxSetDavLow(Source)
  <2>1. pc[Source] = "TX_SET_DAV_LOW" /\ ch[Source] \in Bytes
    BY <1>1 DEF TxSetDavLow, InCall, TypeOK
  <2>2. Offered = num[Source] /\ Offered' = ch[Source]
    BY <1>1, <2>1 DEF TxSetDavLow, Goto, Stay, TypeOK, Offered, Offering
  <2>3. Taken' = Taken /\ Given' = Given /\ sent' = sent
    BY <1>0, <1>1 DEF TxSetDavLow, Goto, Stay, TypeOK, Taken, Given, Holding
  <2>4. Offered < N /\ Offered' = Offered + 1
    BY <1>0, <2>1, <2>2, HandshakeAssumption
  <2> QED BY <1>0, <2>2, <2>3, <2>4 DEF Channel!Offer
<1>2. CASE TxFinish(Source)
  <2>1. pc[Source] = "TX_FINISH"
    BY <1>2 DEF TxFinish, InCall
  <2>2. Offered = ch[Source] /\ Offered' = ch[Source]
    BY <1>2, <2>1 DEF TxFinish, WriteReturns, Goto, TypeOK, Offered, Offering
  <2>3. Taken' = Taken /\ Given' = Given
    BY <1>0, <1>2 DEF TxFinish, WriteReturns, Goto, TypeOK, Taken, Given, Holding
  <2>4. \A r \in Receivers : Taken[r] = Offered
    BY <2>1, <2>2 DEF OneTalkerInv, TalkerAndReceivers, Follows, Knows, Holds, Holding, Taken
  <2>5. sent = 1..(Offered - 1) /\ sent' = sent \cup {Offered}
    BY <1>0, <1>2, <2>1, <2>2 DEF TxFinish, WriteReturns
  <2> QED BY <2>2, <2>3, <2>4, <2>5 DEF Channel!Confirm
<1>3. ASSUME \/ StartRead(Source) \/ RxStart(Source) \/ StartWrite(Source)
             \/ TxStart(Source) \/ TxWaitReady(Source) \/ TxPutData(Source)
      PROVE  UNCHANGED <<Offered, Taken, Given, sent>>
  <2>1. /\ \A r \in Receivers : /\ pc'[r] = pc[r] /\ num'[r] = num[r]
                                /\ ch'[r] = ch[r] /\ got'[r] = got[r]
        /\ num' = num /\ sent' = sent
    BY <1>0, <1>3 DEF StartRead, RxStart, StartWrite, TxStart, TxWaitReady, TxPutData,
                      TxWait, Goto, Stay, TypeOK
  <2>2. ~Offering
    BY <1>3 DEF StartRead, RxStart, StartWrite, TxStart, TxWaitReady, TxPutData,
                TxWait, InCall, Offering
  <2>3. ~Offering'
    BY <1>3, <2>2 DEF StartRead, RxStart, StartWrite, TxStart, TxWaitReady, TxPutData,
                TxWait, InCall, Goto, Offering, TypeOK
  <2> QED BY <2>1, <2>2, <2>3 DEF Offered, Taken, Given, Holding
<1>4. ASSUME \/ TxWaitForNrfdLow(Source) \/ TxWaitForNdacHi(Source)
             \/ TxSetDavHi(Source) \/ TxWaitForDavHi(Source)
      PROVE  UNCHANGED <<Offered, Taken, Given, sent>>
  <2>1. /\ \A r \in Receivers : /\ pc'[r] = pc[r] /\ num'[r] = num[r]
                                /\ ch'[r] = ch[r] /\ got'[r] = got[r]
        /\ num' = num /\ ch' = ch /\ sent' = sent
    BY <1>0, <1>4 DEF TxWaitForNrfdLow, TxWaitForNdacHi, TxSetDavHi, TxWaitForDavHi,
                      TxWait, Goto, Stay, TypeOK
  <2>2. Offering
    BY <1>4 DEF TxWaitForNrfdLow, TxWaitForNdacHi, TxSetDavHi, TxWaitForDavHi,
                TxWait, InCall, Offering
  <2>3. ~done[Source]
    BY <1>4 DEF TxWaitForNrfdLow, TxWaitForNdacHi, TxSetDavHi, TxWaitForDavHi, TxWait,
                InCall, OneTalkerInv, LineStates, SourceLines
  <2>4. Offering'
    BY <1>4, <2>3 DEF TxWaitForNrfdLow, TxWaitForNdacHi, TxSetDavHi, TxWaitForDavHi,
                TxWait, TimedOut, Goto, Offering, TypeOK
  <2> QED BY <2>1, <2>2, <2>4 DEF Offered, Taken, Given, Holding
<1>5. CASE RxWaitForDavLow(Source)
  BY <1>5 DEF RxWaitForDavLow, InCall, Low, OneTalkerInv, LineStates, SourceLines,
              ReceiverLines, Receivers
<1>6. CASE \/ RxDavIsLow(Source) \/ RxWaitForDavHi(Source) \/ RxDavIsHi(Source)
           \/ RxFinish(Source) \/ RxError(Source) \/ TxError(Source)
  BY <1>6 DEF RxDavIsLow, RxWaitForDavHi, RxDavIsHi, RxFinish, RxError, TxError, InCall,
              OneTalkerInv, TalkerAndReceivers
<1> QED BY <1>1, <1>2, <1>3, <1>4, <1>5, <1>6 DEF Read, Write

(* One talker, no fault: the handshake implements the abstract channel, so *)
(* every byte is offered once, taken once by each receiver, and confirmed  *)
(* after all have taken it.                                                *)
THEOREM OneTalkerChannel == ASSUME OneTalker PROVE Spec => ImplementsChannel
<1>1. Init => Channel!Init
  BY BytesNat DEF Init, Channel!Init, Offered, Offering, Taken, Given, Holding, Receivers,
    Source
<1>2. TypeOK /\ OneTalkerInv /\ [Next]_vars => [Channel!Next]_(Channel!chanVars)
  <2> SUFFICES ASSUME TypeOK, OneTalkerInv, [Next]_vars
               PROVE  [Channel!Next]_(Channel!chanVars)
    OBVIOUS
  <2> USE BytesNat, StateSets DEF Channel!chanVars
  <2>1. CASE UNCHANGED vars
    BY <2>1 DEF vars, pins, Offered, Offering, Taken, Given, Holding
  <2>2. ASSUME NEW r \in Receivers, Read(r)
        PROVE  [Channel!Next]_(Channel!chanVars)
    BY <2>2, ChannelReceiver DEF Channel!Next
  <2>3. ASSUME Read(Source) \/ Write(Source)
        PROVE  [Channel!Next]_(Channel!chanVars)
    BY <2>3, ChannelSource DEF Channel!Next
  <2> QED BY <2>1, <2>2, <2>3, OnlyCalls, ReceiverNeverWrites DEF Receivers
<1>3. QED
  BY <1>1, <1>2, TypeCorrect, OneTalkerLockstep, PTL
  DEF ImplementsChannel, Channel!Spec, Spec

(***************************************************************************)
(* Two parties, with every fault: timeouts, stalls, IFC and keys.          *)
(***************************************************************************)
TwoParties == \A p, q, r \in Party : p = q \/ q = r \/ p = r

(* p drives DAV or the data lines, or is past the wait for its turn to.    *)
Claims(p) == dav[p] \/ data[p] # 0 \/ pc[p] \in {"TX_PUT_DATA", "TX_SET_DAV_LOW"}

(* A claim starts in TX_WAIT_READY, where the writer sees NDAC low; its    *)
(* own NDAC is released, so the other party pulls it, and who pulls NDAC   *)
(* claims nothing.                                                         *)
ClaimInv ==
  /\ \A p \in Party : /\ Claims(p) => ~ndac[p]
                      /\ pc[p] \in TxStates => ~ndac[p]
                      /\ pc[p] \in RxStates => ~Claims(p)
  /\ \A p, q \in Party : Claims(p) /\ Claims(q) => p = q

(* A step that touches the lines of p only, after which p claims nothing   *)
(* new and keeps off NDAC while it writes or claims.                       *)
LEMMA ClaimsShrink ==
  ASSUME TypeOK, ClaimInv, NEW p \in Party,
         \A q \in Party \ {p} : /\ pc'[q] = pc[q] /\ dav'[q] = dav[q]
                                /\ data'[q] = data[q] /\ ndac'[q] = ndac[q],
         Claims(p)' => Claims(p) /\ ~ndac'[p],
         pc'[p] \in TxStates => ~ndac'[p],
         pc'[p] \in RxStates => ~Claims(p)'
  PROVE  ClaimInv'
<1>1. \A q \in Party \ {p} : Claims(q)' = Claims(q)
  BY DEF Claims
<1>2. \A q \in Party : Claims(q)' => Claims(q)
  BY <1>1
<1> QED BY <1>1, <1>2 DEF ClaimInv

(* Every turn of a read keeps the claims apart.                            *)
LEMMA ClaimsRead ==
  ASSUME TypeOK, ClaimInv, NEW p \in Party, Read(p)
  PROVE  ClaimInv'
<1> USE StateSets
<1>1. \A q \in Party \ {p} : /\ pc'[q] = pc[q] /\ dav'[q] = dav[q]
                              /\ data'[q] = data[q] /\ ndac'[q] = ndac[q]
  BY DEF Read, StartRead, BusReadInit, RxStart, RxWaitForDavLow, RxDavIsLow,
         RxWaitForDavHi, RxDavIsHi, RxFinish, RxError, ReadReturns, ErrorReturns,
         Goto, pins, TypeOK
<1>2. CASE StartRead(p)
  <2>1. pc'[p] = "RX_START" /\ ~dav'[p] /\ data'[p] = 0
    BY <1>2, HandshakeAssumption DEF StartRead, BusReadInit, Goto, TypeOK
  <2>2. ~Claims(p)'
    BY <2>1 DEF Claims
  <2> QED BY <1>1, <2>1, <2>2, ClaimsShrink
<1>3. CASE ~StartRead(p)
  <2>1. pc[p] \in RxStates /\ pc'[p] \in RxStates \cup {"idle"}
    BY <1>3 DEF Read, RxStart, RxWaitForDavLow, RxDavIsLow, RxWaitForDavHi, RxDavIsHi,
                RxFinish, RxError, ReadReturns, ErrorReturns, Goto, InCall, TypeOK
  <2>2. dav' = dav /\ data' = data
    BY <1>3 DEF Read, RxStart, RxWaitForDavLow, RxDavIsLow, RxWaitForDavHi, RxDavIsHi,
                RxFinish, RxError, pins
  <2>3. ~Claims(p)
    BY <2>1 DEF ClaimInv
  <2>4. pc'[p] \notin {"TX_PUT_DATA", "TX_SET_DAV_LOW"}
    BY <2>1
  <2>5. ~Claims(p)'
    BY <2>2, <2>3, <2>4 DEF Claims
  <2>6. pc'[p] \notin TxStates
    BY <2>1 DEF RxStates, TxStates
  <2> QED BY <1>1, <2>5, <2>6, ClaimsShrink
<1> QED BY <1>2, <1>3

(* Every turn of a write keeps the claims apart, when two parties share    *)
(* the bus.                                                                *)
LEMMA ClaimsWrite ==
  ASSUME TwoParties, TypeOK, ClaimInv, NEW p \in Party, Write(p)
  PROVE  ClaimInv'
<1> USE StateSets, HandshakeAssumption
<1>1. \A q \in Party \ {p} : /\ pc'[q] = pc[q] /\ dav'[q] = dav[q]
                              /\ data'[q] = data[q] /\ ndac'[q] = ndac[q]
  BY DEF Write, StartWrite, TxStart, TxWaitReady, TxPutData, TxSetDavLow,
         TxWaitForNrfdLow, TxWaitForNdacHi, TxSetDavHi, TxWaitForDavHi, TxFinish, TxError,
         TxWait, BusReadInit, WriteReturns, ErrorReturns, Goto, pins, TypeOK
<1>2. CASE StartWrite(p) \/ TxSetDavHi(p) \/ TxError(p)
  <2>1. /\ ~dav'[p] /\ data'[p] = 0
        /\ pc'[p] \in {"TX_START", "TX_WAIT_FOR_DAV_HI", "idle"}
        /\ pc'[p] # "idle" => ~ndac'[p]
    BY <1>2 DEF StartWrite, TxSetDavHi, TxError, BusReadInit, ErrorReturns, Goto, TypeOK
  <2>2. ~Claims(p)'
    BY <2>1 DEF Claims
  <2> QED BY <1>1, <2>1, <2>2, ClaimsShrink
<1>3. CASE \/ TxStart(p) \/ TxWaitForNrfdLow(p) \/ TxWaitForNdacHi(p)
           \/ TxWaitForDavHi(p) \/ TxFinish(p)
  <2>1. /\ pc[p] \in TxStates /\ UNCHANGED <<dav, data, ndac>>
        /\ pc'[p] \in {"TX_WAIT_READY", "TX_WAIT_FOR_NDAC_HI", "TX_SET_DAV_HI",
                       "TX_FINISH", "TX_ERROR", "idle"}
    BY <1>3 DEF TxStart, TxWaitForNrfdLow, TxWaitForNdacHi, TxWaitForDavHi, TxFinish,
                TxWait, WriteReturns, InCall, Goto, pins, TypeOK
  <2>2. Claims(p)' => Claims(p)
    BY <2>1 DEF Claims
  <2>3. ~ndac'[p]
    BY <2>1 DEF ClaimInv
  <2> QED BY <1>1, <2>1, <2>2, <2>3, ClaimsShrink
<1>4. CASE TxPutData(p) \/ TxSetDavLow(p)
  <2>1. /\ pc[p] \in {"TX_PUT_DATA", "TX_SET_DAV_LOW"} /\ ndac' = ndac
        /\ pc'[p] \in {"TX_SET_DAV_LOW", "TX_WAIT_FOR_NRFD_LOW"}
    BY <1>4 DEF TxPutData, TxSetDavLow, InCall, Goto, TypeOK
  <2>2. Claims(p) /\ ~ndac'[p]
    BY <2>1 DEF Claims, ClaimInv
  <2> QED BY <1>1, <2>1, <2>2, ClaimsShrink
<1>5. CASE TxWaitReady(p)
  <2>1. /\ pc[p] \in TxStates /\ UNCHANGED <<dav, data, ndac>>
        /\ \/ pc'[p] = "TX_ERROR"
           \/ pc'[p] = "TX_PUT_DATA" /\ Low(ndac)
    BY <1>5 DEF TxWaitReady, TxWait, InCall, Goto, pins, TypeOK
  <2>2. ~ndac'[p]
    BY <2>1 DEF ClaimInv
  <2>3. CASE pc'[p] = "TX_ERROR"
    <3>1. Claims(p)' => Claims(p)
      BY <2>1, <2>3 DEF Claims
    <3> QED BY <1>1, <2>2, <2>3, <3>1, ClaimsShrink
  <2>4. CASE pc'[p] = "TX_PUT_DATA" /\ Low(ndac)
    <3>1. PICK q \in Party : ndac[q]
      BY <2>4 DEF Low
    <3>2. p # q /\ ~Claims(q)
      BY <3>1, <2>1 DEF ClaimInv
    <3>3. \A r \in Party : r = p \/ r = q
      BY <3>2 DEF TwoParties
    <3>4. ~Claims(q)'
      BY <1>1, <3>2 DEF Claims
    <3>5. ndac' = ndac /\ (pc[q] \in TxStates => ~ndac[q]) /\ pc'[q] = pc[q]
      BY <1>1, <2>1, <3>2 DEF ClaimInv
    <3> QED BY <2>2, <2>4, <3>3, <3>4, <3>5 DEF ClaimInv
  <2> QED BY <2>1, <2>3, <2>4
<1> QED BY <1>2, <1>3, <1>4, <1>5 DEF Write

(* The claims stay apart, whatever times out, whenever IFC or a key comes. *)
LEMMA ClaimsNext ==
  ASSUME TwoParties, TypeOK, ClaimInv, [Next]_vars
  PROVE  ClaimInv'
<1> USE StateSets
<1>1. ASSUME NEW p \in Party, KeyBreak(p) PROVE ClaimInv'
  <2>1. /\ pc[p] \in TxStates \/ pc[p] \in RxStates
        /\ pc' = [pc EXCEPT ![p] = "idle"] /\ UNCHANGED <<dav, data, ndac>>
    BY <1>1 DEF KeyBreak, ReadReturns, WriteReturns, Goto, pins
  <2>2. Claims(p)' => Claims(p)
    BY <2>1 DEF Claims, TypeOK
  <2>3. Claims(p) => ~ndac[p]
    BY DEF ClaimInv
  <2> QED BY <2>1, <2>2, <2>3, ClaimsShrink DEF TypeOK
<1>2. ASSUME NEW p \in Party, IfcBreak(p) \/ KeyTaken(p) PROVE ClaimInv'
  <2>1. /\ \A q \in Party \ {p} : /\ pc'[q] = pc[q] /\ dav'[q] = dav[q]
                                   /\ data'[q] = data[q] /\ ndac'[q] = ndac[q]
        /\ pc'[p] = "idle" /\ ~dav'[p] /\ data'[p] = 0
    BY <1>2, HandshakeAssumption
    DEF IfcBreak, KeyTaken, BusInit, BusReadInit, ErrorReturns, Goto, TypeOK
  <2>2. ~Claims(p)'
    BY <2>1 DEF Claims
  <2> QED BY <2>1, <2>2, ClaimsShrink
<1>3. ASSUME \/ \E p \in Party : TimerTask(p) \/ KeyHit(p)
             \/ Ifc \/ Quiet \/ UNCHANGED vars
      PROVE  ClaimInv'
  <2>1. UNCHANGED <<pc, dav, data, ndac>>
    BY <1>3 DEF TimerTask, KeyHit, Ifc, Quiet, vars, pins
  <2> QED BY <2>1 DEF ClaimInv, Claims
<1> QED BY <1>1, <1>2, <1>3, ClaimsRead, ClaimsWrite DEF Next, Step

(* Two parties never drive DAV or the data lines at once, also when roles  *)
(* change between bytes, whatever waits time out, whenever IFC or a key    *)
(* breaks a call off.                                                      *)
THEOREM TwoPartiesOneDriver == ASSUME TwoParties PROVE Spec => []OneDriver
<1>1. Init => ClaimInv
  <2> SUFFICES ASSUME Init PROVE ClaimInv
    OBVIOUS
  <2>1. \A p \in Party : ~Claims(p) /\ pc[p] \notin TxStates
    BY StateSets DEF Init, Claims
  <2> QED BY <2>1 DEF ClaimInv
<1>2. TypeOK /\ ClaimInv /\ [Next]_vars => ClaimInv'
  BY ClaimsNext
<1>3. ClaimInv => OneDriver
  BY DEF ClaimInv, Claims, OneDriver
<1> QED BY <1>1, <1>2, <1>3, TypeCorrect, PTL DEF Spec

(***************************************************************************)
(* One talker, any number of receivers, with every fault.                  *)
(***************************************************************************)
OneTalks == \A n \in Bytes : Talker[n] = Source

(* The talker is before the moment it pulls DAV low for its byte.          *)
Preparing ==
  pc[Source] \in {"TX_START", "TX_WAIT_READY", "TX_PUT_DATA", "TX_SET_DAV_LOW"}

(* The last byte the talker has turned to, and the bytes that can no       *)
(* longer be latched by a read that begins now.                            *)
Latest == IF pc[Source] \in TxStates THEN ch[Source] ELSE num[Source]
Past(n) == n < Latest \/ (n = Latest /\ ~dav[Source] /\ ~Preparing)

ReceiversListen ==
  \A r \in Receivers : pc[r] \notin TxStates /\ ~dav[r] /\ data[r] = 0

(* The talker drives nothing but its latest byte; when it listens, all has *)
(* been sent, and it hears nothing.                                        *)
SourceInv ==
  /\ pc[Source] \in TxStates => ch[Source] = num[Source] + 1
  /\ data[Source] \in {0, Latest}
  /\ Preparing => ~dav[Source]
  /\ pc[Source] \in RxStates =>
       /\ pc[Source] \in {"RX_START", "RX_WAIT_FOR_DAV_LOW"}
       /\ ~dav[Source] /\ data[Source] = 0 /\ ch[Source] = 0
  /\ \A i \in 1..Len(got[Source]) : got[Source][i] = 0

(* r has seen DAV low only for a byte it does not know yet, and what it    *)
(* holds and has not returned is newer than what it has returned.          *)
Awaits(r) ==
  /\ ~key[r]
  /\ Past(num[r])
  /\ pc[r] = "RX_DAV_IS_LOW" => num[r] < Latest /\ ~Preparing
  /\ pc[r] = "RX_WAIT_FOR_DAV_HI" /\ ch[r] # 0 =>
       num[r] < ch[r] /\ ch[r] <= Latest /\ (ch[r] = Latest => ~Preparing)
  /\ pc[r] \in {"RX_DAV_IS_HI", "RX_FINISH"} /\ ch[r] # 0 =>
       num[r] < ch[r] /\ Past(ch[r])

(* What r has returned grows, up to the last byte it knows.                *)
LogGrows(r) ==
  /\ \A i \in 1..Len(got[r]) : got[r][i] <= num[r]
  /\ \A i, j \in 1..Len(got[r]) : i < j /\ got[r][j] # 0 => got[r][i] < got[r][j]

Careful == Receivers \ (Slow \cup Keyed)

TalkerInv == ReceiversListen /\ SourceInv
FaultInv == TalkerInv /\ \A r \in Careful : Awaits(r) /\ LogGrows(r)

StepOf(p) == Step(p) \/ TimerTask(p) \/ KeyHit(p) \/ KeyTaken(p)

(* A step of p leaves the other parties as they are.                       *)
LEMMA OthersStay ==
  ASSUME TypeOK, NEW p \in Party, StepOf(p), NEW q \in Party \ {p}
  PROVE  /\ pc'[q] = pc[q] /\ num'[q] = num[q] /\ ch'[q] = ch[q] /\ dav'[q] = dav[q]
         /\ data'[q] = data[q] /\ got'[q] = got[q] /\ key'[q] = key[q]
         /\ nrfd'[q] = nrfd[q] /\ ndac'[q] = ndac[q] /\ done'[q] = done[q]
<1>1. CASE Read(p)
  BY <1>1 DEF Read, StartRead, BusReadInit, RxStart, RxWaitForDavLow, RxDavIsLow,
     RxWaitForDavHi, RxDavIsHi, RxFinish, RxError, ReadReturns, ErrorReturns,
     TimeoutSet, Goto, Stay, pins, TypeOK
<1>2. CASE Write(p)
  BY <1>2 DEF Write, StartWrite, TxStart, TxWaitReady, TxPutData, TxSetDavLow,
     TxWaitForNrfdLow, TxWaitForNdacHi, TxSetDavHi, TxWaitForDavHi, TxFinish, TxError,
     TxWait, TimeoutSet, BusReadInit, WriteReturns, ErrorReturns, Goto, Stay, pins, TypeOK
<1>3. CASE KeyBreak(p) \/ IfcBreak(p)
  BY <1>3 DEF KeyBreak, IfcBreak, BusInit, BusReadInit, ReadReturns, WriteReturns,
     ErrorReturns, Goto, pins, TypeOK
<1>4. CASE TimerTask(p) \/ KeyHit(p) \/ KeyTaken(p)
  BY <1>4 DEF TimerTask, KeyHit, KeyTaken, BusInit, BusReadInit, pins, TypeOK
<1> QED BY <1>1, <1>2, <1>3, <1>4 DEF StepOf, Step

(* A receiver never writes, so it never drives a line but NRFD and NDAC.   *)
LEMMA ListenersNeverWrite ==
  ASSUME OneTalks, TypeOK, ReceiversListen, NEW r \in Receivers
  PROVE  ~Write(r)
<1> USE StateSets, BytesNat
<1>0. r \in Party /\ r # Source /\ pc[r] \notin TxStates
  BY DEF ReceiversListen, Receivers
<1>1. ~StartWrite(r)
  <2>1. num[r] \in 0..N
    BY <1>0 DEF TypeOK
  <2>2. num[r] < N => num[r] + 1 \in Bytes
    BY <2>1, HandshakeAssumption DEF Bytes
  <2> QED BY <1>0, <2>2 DEF StartWrite, OneTalks
<1> QED BY <1>0, <1>1 DEF Write, TxStart, TxWaitReady, TxPutData, TxSetDavLow,
   TxWaitForNrfdLow, TxWaitForNdacHi, TxSetDavHi, TxWaitForDavHi, TxFinish, TxError,
   TxWait, InCall

LEMMA ListenersListen ==
  ASSUME OneTalks, TypeOK, ReceiversListen, NEW r \in Receivers, StepOf(r)
  PROVE  pc'[r] \notin TxStates /\ ~dav'[r] /\ data'[r] = 0
<1> USE StateSets, BytesNat
<1>0. r \in Party /\ r # Source /\ pc[r] \notin TxStates /\ ~dav[r] /\ data[r] = 0
  BY DEF ReceiversListen, Receivers
<1>1. ~Write(r)
  BY ListenersNeverWrite
<1>2. CASE Read(r)
  <2>1. \E s \in RxStates \cup {"idle"} : Goto(r, s)
    BY <1>0, <1>2 DEF Read, StartRead, RxStart, RxWaitForDavLow, RxDavIsLow, RxWaitForDavHi,
       RxDavIsHi, RxFinish, RxError, ReadReturns, ErrorReturns
  <2>2. ~dav'[r] /\ data'[r] = 0
    BY <1>0, <1>2 DEF Read, StartRead, BusReadInit, RxStart, RxWaitForDavLow, RxDavIsLow,
       RxWaitForDavHi, RxDavIsHi, RxFinish, RxError, pins, TypeOK
  <2>3. pc'[r] \notin TxStates
    BY <1>0, <2>1 DEF Goto, TypeOK, RxStates, TxStates
  <2> QED BY <2>2, <2>3
<1>3. CASE KeyBreak(r) \/ IfcBreak(r)
  BY <1>0, <1>3 DEF KeyBreak, IfcBreak, BusInit, BusReadInit, ReadReturns, WriteReturns,
     ErrorReturns, Goto, pins, TypeOK
<1>4. CASE TimerTask(r) \/ KeyHit(r) \/ KeyTaken(r)
  BY <1>0, <1>4 DEF TimerTask, KeyHit, KeyTaken, BusInit, BusReadInit, pins, TypeOK
<1> QED BY <1>1, <1>2, <1>3, <1>4 DEF StepOf, Step

(* What the receivers see of a step of the talker: it keeps its byte and   *)
(* pulls DAV low only for a byte it has prepared, or it turns to the next  *)
(* byte, which it does only when no careful receiver is about to latch.    *)
Advances ==
  \/ /\ Latest' = Latest
     /\ Preparing' => Preparing
     /\ dav'[Source] => dav[Source] \/ Preparing
  \/ /\ Latest' = Latest + 1
     /\ \A q \in Party \ Slow : pc[q] # "RX_DAV_IS_LOW"

(* Every turn of a loop of the talker is such a step.                      *)
LEMMA SourceReads ==
  ASSUME OneTalks, TypeOK, TalkerInv, Read(Source)
  PROVE  SourceInv' /\ Advances
<1> USE StateSets, BytesNat
<1>0. ~Low(dav) \/ pc[Source] \notin RxStates
  BY DEF TalkerInv, SourceInv, ReceiversListen, Receivers, Low
<1>1. num[Source] \in 0..N /\ ch[Source] \in 0..N /\ got[Source] \in Seq(0..N)
  BY DEF TypeOK
<1>2. CASE StartRead(Source)
  <2>1. pc[Source] = "idle" /\ pc'[Source] = "RX_START"
    BY <1>2 DEF StartRead, Goto, TypeOK
  <2>2. /\ num' = num /\ got' = got /\ ch'[Source] = 0
        /\ ~dav'[Source] /\ data'[Source] = 0
    BY <1>2, HandshakeAssumption DEF StartRead, BusReadInit, TypeOK
  <2>3. Latest' = Latest /\ ~Preparing'
    BY <2>1, <2>2 DEF Latest, Preparing
  <2> QED BY <2>1, <2>2, <2>3 DEF TalkerInv, SourceInv, Advances
<1>3. CASE RxStart(Source)
  <2>1. pc[Source] = "RX_START" /\ pc'[Source] = "RX_WAIT_FOR_DAV_LOW"
    BY <1>3 DEF RxStart, InCall, Goto, TypeOK
  <2>2. UNCHANGED <<num, ch, dav, data, got>>
    BY <1>3 DEF RxStart, Stay
  <2>3. Latest' = Latest /\ ~Preparing'
    BY <2>1, <2>2 DEF Latest, Preparing
  <2> QED BY <2>1, <2>2, <2>3 DEF TalkerInv, SourceInv, Advances
<1>4. CASE RxWaitForDavLow(Source)
  BY <1>0, <1>4 DEF RxWaitForDavLow, InCall
<1>5. CASE \/ RxDavIsLow(Source) \/ RxWaitForDavHi(Source) \/ RxDavIsHi(Source)
           \/ RxFinish(Source) \/ RxError(Source)
  BY <1>5 DEF RxDavIsLow, RxWaitForDavHi, RxDavIsHi, RxFinish, RxError, InCall,
     TalkerInv, SourceInv
<1> QED BY <1>2, <1>3, <1>4, <1>5 DEF Read

LEMMA SourceWrites ==
  ASSUME OneTalks, TypeOK, TalkerInv, Write(Source)
  PROVE  SourceInv' /\ Advances
<1> USE StateSets, BytesNat
<1>1. num[Source] \in 0..N /\ ch[Source] \in 0..N /\ dav[Source] \in BOOLEAN
  BY DEF TypeOK
<1>2. CASE StartWrite(Source)
  <2>1. pc[Source] = "idle" /\ pc'[Source] = "TX_START"
    BY <1>2 DEF StartWrite, Goto, TypeOK
  <2>2. /\ num' = num /\ got' = got /\ ch'[Source] = num[Source] + 1
        /\ ~dav'[Source] /\ data'[Source] = 0
        /\ \A q \in Party \ Slow : pc[q] # "RX_DAV_IS_LOW"
    BY <1>2, HandshakeAssumption DEF StartWrite, BusReadInit, TypeOK
  <2>3. Latest = num[Source] /\ Latest' = num[Source] + 1
    BY <2>1, <2>2 DEF Latest
  <2> QED BY <2>1, <2>2, <2>3 DEF TalkerInv, SourceInv, Advances
<1>3. CASE TxStart(Source) \/ TxWaitReady(Source)
  <2>1. /\ pc[Source] \in {"TX_START", "TX_WAIT_READY"}
        /\ pc'[Source] \in {"TX_WAIT_READY", "TX_PUT_DATA", "TX_ERROR"}
        /\ UNCHANGED <<num, ch, dav, data, got>>
    BY <1>3 DEF TxStart, TxWaitReady, TxWait, InCall, Stay, Goto, pins, TypeOK
  <2>2. Latest' = Latest /\ Preparing
    BY <2>1 DEF Latest, Preparing
  <2> QED BY <2>1, <2>2 DEF TalkerInv, SourceInv, Advances
<1>4. CASE TxPutData(Source)
  <2>1. /\ pc[Source] = "TX_PUT_DATA" /\ pc'[Source] = "TX_SET_DAV_LOW"
        /\ UNCHANGED <<num, ch, dav, got>> /\ data'[Source] = ch[Source]
    BY <1>4 DEF TxPutData, InCall, Stay, Goto, TypeOK
  <2>2. Latest' = Latest /\ Latest = ch[Source] /\ Preparing
    BY <2>1 DEF Latest, Preparing
  <2> QED BY <2>1, <2>2 DEF TalkerInv, SourceInv, Advances
<1>5. CASE TxSetDavLow(Source)
  <2>1. /\ pc[Source] = "TX_SET_DAV_LOW" /\ pc'[Source] = "TX_WAIT_FOR_NRFD_LOW"
        /\ UNCHANGED <<num, ch, data, got>>
    BY <1>5 DEF TxSetDavLow, InCall, Stay, Goto, TypeOK
  <2>2. Latest' = Latest /\ Preparing /\ ~Preparing'
    BY <2>1 DEF Latest, Preparing
  <2> QED BY <2>1, <2>2 DEF TalkerInv, SourceInv, Advances
<1>6. CASE TxWaitForNrfdLow(Source) \/ TxWaitForNdacHi(Source) \/ TxWaitForDavHi(Source)
  <2>1. /\ pc[Source] \in TxStates
        /\ pc'[Source] \in {"TX_WAIT_FOR_NDAC_HI", "TX_SET_DAV_HI", "TX_FINISH", "TX_ERROR"}
        /\ UNCHANGED <<num, ch, dav, data, got>>
    BY <1>6 DEF TxWaitForNrfdLow, TxWaitForNdacHi, TxWaitForDavHi, TxWait, InCall, Stay,
       Goto, pins, TypeOK
  <2>2. Latest' = Latest /\ ~Preparing'
    BY <2>1 DEF Latest, Preparing
  <2> QED BY <2>1, <2>2 DEF TalkerInv, SourceInv, Advances
<1>7. CASE TxSetDavHi(Source)
  <2>1. /\ pc[Source] \in TxStates /\ pc'[Source] = "TX_WAIT_FOR_DAV_HI"
        /\ UNCHANGED <<num, ch, got>> /\ ~dav'[Source] /\ data'[Source] = 0
    BY <1>7, HandshakeAssumption DEF TxSetDavHi, BusReadInit, InCall, Stay, Goto, TypeOK
  <2>2. Latest' = Latest /\ ~Preparing'
    BY <2>1 DEF Latest, Preparing
  <2> QED BY <2>1, <2>2 DEF TalkerInv, SourceInv, Advances
<1>8. CASE TxFinish(Source) \/ TxError(Source)
  <2>1. /\ pc[Source] \in TxStates /\ pc'[Source] = "idle" /\ num'[Source] = ch[Source]
        /\ ch' = ch /\ got' = got
        /\ \/ UNCHANGED <<dav, data>>
           \/ ~dav'[Source] /\ data'[Source] = 0
    BY <1>8, HandshakeAssumption
    DEF TxFinish, TxError, WriteReturns, ErrorReturns, BusReadInit, InCall, Goto, pins, TypeOK
  <2>2. Latest' = Latest /\ ~Preparing'
    BY <2>1 DEF Latest, Preparing
  <2> QED BY <2>1, <2>2 DEF TalkerInv, SourceInv, Advances
<1> QED BY <1>2, <1>3, <1>4, <1>5, <1>6, <1>7, <1>8 DEF Write

LEMMA SourceBreaks ==
  ASSUME TypeOK, TalkerInv,
         \/ KeyBreak(Source) \/ IfcBreak(Source) \/ TimerTask(Source)
         \/ KeyHit(Source) \/ KeyTaken(Source)
  PROVE  SourceInv' /\ Advances
<1> USE StateSets, BytesNat
<1>1. /\ num[Source] \in 0..N /\ ch[Source] \in 0..N /\ dav[Source] \in BOOLEAN
      /\ got[Source] \in Seq(0..N)
  BY DEF TypeOK
<1>2. CASE KeyBreak(Source)
  <2>1. UNCHANGED <<ch, dav, data>> /\ pc'[Source] = "idle"
    BY <1>2 DEF KeyBreak, ReadReturns, WriteReturns, Goto, pins, TypeOK
  <2>2. CASE pc[Source] \in TxStates
    <3>1. num'[Source] = ch[Source] /\ got' = got
      BY <1>2, <2>2 DEF KeyBreak, WriteReturns, TypeOK, RxStates, TxStates
    <3>2. Latest' = Latest /\ ~Preparing'
      BY <2>1, <2>2, <3>1 DEF Latest, Preparing
    <3> QED BY <2>1, <3>1, <3>2 DEF TalkerInv, SourceInv, Advances
  <2>3. CASE pc[Source] \in RxStates
    <3>1. ch[Source] = 0
      BY <2>3 DEF TalkerInv, SourceInv
    <3>2. num'[Source] = num[Source] /\ got'[Source] = Append(got[Source], 0)
      BY <1>2, <2>3, <3>1 DEF KeyBreak, ReadReturns, TypeOK, RxStates, TxStates
    <3>3. Latest' = Latest /\ ~Preparing'
      BY <2>1, <2>3, <3>2 DEF Latest, Preparing, RxStates, TxStates
    <3>4. \A i \in 1..Len(got'[Source]) : got'[Source][i] = 0
      BY <1>1, <3>2 DEF TalkerInv, SourceInv
    <3> QED BY <2>1, <3>3, <3>4 DEF TalkerInv, SourceInv, Advances
  <2> QED BY <1>2, <2>2, <2>3 DEF KeyBreak
<1>3. CASE IfcBreak(Source)
  <2>1. /\ pc'[Source] = "idle" /\ ~dav'[Source] /\ data'[Source] = 0 /\ ch' = ch /\ got' = got
        /\ num'[Source] = IF pc[Source] \in TxStates THEN ch[Source] ELSE num[Source]
    BY <1>3, HandshakeAssumption
    DEF IfcBreak, BusInit, BusReadInit, ErrorReturns, Goto, TypeOK
  <2>2. Latest' = Latest /\ ~Preparing'
    BY <2>1 DEF Latest, Preparing
  <2> QED BY <2>1, <2>2 DEF TalkerInv, SourceInv, Advances
<1>4. CASE TimerTask(Source) \/ KeyHit(Source)
  <2>1. UNCHANGED <<pc, num, ch, dav, data, got>>
    BY <1>4 DEF TimerTask, KeyHit, pins
  <2> QED BY <2>1 DEF TalkerInv, SourceInv, Advances, Latest, Preparing
<1>5. CASE KeyTaken(Source)
  <2>1. /\ pc[Source] = "idle" /\ UNCHANGED <<pc, num, ch, got>>
        /\ ~dav'[Source] /\ data'[Source] = 0
    BY <1>5, HandshakeAssumption DEF KeyTaken, BusInit, BusReadInit, TypeOK
  <2>2. Latest' = Latest /\ ~Preparing'
    BY <2>1 DEF Latest, Preparing
  <2> QED BY <2>1, <2>2 DEF TalkerInv, SourceInv, Advances
<1> QED BY <1>2, <1>3, <1>4, <1>5

(* Whoever moves, only the talker talks.                                   *)
LEMMA TalkerNext ==
  ASSUME OneTalks, TypeOK, TalkerInv, [Next]_vars
  PROVE  TalkerInv' /\ Advances
<1> USE StateSets, BytesNat
<1>1. ASSUME NEW p \in Party, StepOf(p) PROVE TalkerInv' /\ Advances
  <2>1. CASE p = Source
    <3>1. SourceInv' /\ Advances
      BY <1>1, <2>1, SourceReads, SourceWrites, SourceBreaks DEF StepOf, Step
    <3>2. ASSUME NEW r \in Receivers PROVE pc'[r] \notin TxStates /\ ~dav'[r] /\ data'[r] = 0
      <4>1. r \in Party \ {p} /\ pc[r] \notin TxStates /\ ~dav[r] /\ data[r] = 0
        BY <2>1 DEF Receivers, TalkerInv, ReceiversListen
      <4> QED BY <1>1, <4>1, OthersStay
    <3> QED BY <3>1, <3>2 DEF TalkerInv, ReceiversListen, Receivers
  <2>2. CASE p # Source
    <3>1. /\ pc'[Source] = pc[Source] /\ num'[Source] = num[Source]
          /\ ch'[Source] = ch[Source] /\ dav'[Source] = dav[Source]
          /\ data'[Source] = data[Source] /\ got'[Source] = got[Source]
      BY <1>1, <2>2, OthersStay
    <3>2. Latest' = Latest /\ Preparing' = Preparing
      BY <3>1 DEF Latest, Preparing
    <3>3. SourceInv' /\ Advances
      BY <3>1, <3>2 DEF TalkerInv, SourceInv, Advances
    <3>4. ASSUME NEW r \in Receivers PROVE pc'[r] \notin TxStates /\ ~dav'[r] /\ data'[r] = 0
      <4>1. CASE r = p
        BY <1>1, <4>1, ListenersListen DEF TalkerInv
      <4>2. CASE r # p
        <5>1. r \in Party \ {p} /\ pc[r] \notin TxStates /\ ~dav[r] /\ data[r] = 0
          BY <4>2 DEF Receivers, TalkerInv, ReceiversListen
        <5> QED BY <1>1, <5>1, OthersStay
      <4> QED BY <4>1, <4>2
    <3> QED BY <3>3, <3>4 DEF TalkerInv, ReceiversListen, Receivers
  <2> QED BY <2>1, <2>2
<1>2. CASE Ifc \/ Quiet \/ UNCHANGED vars
  <2>1. UNCHANGED <<pc, num, ch, dav, data, got>>
    BY <1>2 DEF Ifc, Quiet, vars, pins
  <2> QED BY <2>1 DEF TalkerInv, ReceiversListen, SourceInv, Advances, Latest, Preparing
<1> QED BY <1>1, <1>2 DEF Next, StepOf

(* A byte that is past stays past.                                         *)
LEMMA PastStays ==
  ASSUME TypeOK, TypeOK', TalkerInv, Advances, NEW n \in 0..N, Past(n)
  PROVE  Past(n)'
<1>1. Latest \in 0..N /\ Latest' \in 0..N /\ N \in Nat
  BY BytesNat, HandshakeAssumption DEF TypeOK, Latest
<1> QED BY <1>1 DEF Past, Advances, TalkerInv, SourceInv

(* A careful receiver that does not move still awaits what it awaited.     *)
LEMMA AwaitsStays ==
  ASSUME TypeOK, TypeOK', TalkerInv, Advances, NEW r \in Careful, Awaits(r),
         pc'[r] = pc[r], num'[r] = num[r], ch'[r] = ch[r], ~key'[r]
  PROVE  Awaits(r)'
<1>1. /\ r \in Party /\ r \notin Slow
      /\ num[r] \in 0..N /\ ch[r] \in 0..N /\ N \in Nat
  BY HandshakeAssumption DEF TypeOK, Careful, Receivers
<1>2. Latest \in 0..N /\ Latest' \in 0..N
  BY BytesNat DEF TypeOK, Latest
<1>3. Past(num[r])' /\ (Past(ch[r]) => Past(ch[r])')
  BY <1>1, PastStays DEF Awaits
<1>4. pc[r] = "RX_DAV_IS_LOW" => num[r] < Latest' /\ ~Preparing'
  BY <1>1, <1>2 DEF Awaits, Advances
<1>5. pc[r] = "RX_WAIT_FOR_DAV_HI" /\ ch[r] # 0 =>
        num[r] < ch[r] /\ ch[r] <= Latest' /\ (ch[r] = Latest' => ~Preparing')
  BY <1>1, <1>2 DEF Awaits, Advances
<1> QED BY <1>1, <1>3, <1>4, <1>5 DEF Awaits

(* A careful receiver's own turn: it latches only a byte it does not know, *)
(* and returns it after the talker has taken it from the bus.              *)
LEMMA AwaitsReads ==
  ASSUME TypeOK, TalkerInv, NEW r \in Careful, Awaits(r), LogGrows(r), Read(r),
         Latest' = Latest, Preparing' = Preparing, dav'[Source] = dav[Source]
  PROVE  Awaits(r)' /\ LogGrows(r)'
<1> USE StateSets, BytesNat
<1>0. /\ r \in Party /\ num[r] \in 0..N /\ ch[r] \in 0..N /\ N \in Nat
      /\ got[r] \in Seq(0..N) /\ Latest \in 0..N
  BY HandshakeAssumption DEF TypeOK, Careful, Receivers, Latest
<1>1. \A n \in 0..N : Past(n)' <=> Past(n)
  BY DEF Past
<1>2. ~key'[r]
  BY <1>0 DEF Awaits, Read, StartRead, RxStart, RxWaitForDavLow, RxDavIsLow, RxWaitForDavHi,
     RxDavIsHi, RxFinish, RxError, Stay
<1>3. CASE RxDavIsLow(r)
  <2>1. /\ pc[r] = "RX_DAV_IS_LOW" /\ pc'[r] = "RX_WAIT_FOR_DAV_HI"
        /\ num' = num /\ got' = got /\ ch'[r] = BusRead
    BY <1>0, <1>3, BusReadType DEF RxDavIsLow, InCall, Goto, TypeOK
  <2>2. BusRead \in {0, Latest}
    <3>1. \A p \in Party : data[p] # 0 => p = Source
      BY DEF TalkerInv, ReceiversListen, Receivers
    <3>2. CASE \E p \in Party : data[p] # 0
      <4> DEFINE q == CHOOSE p \in Party : data[p] # 0
      <4>1. q \in Party /\ data[q] # 0
        BY <3>2
      <4>2. BusRead = data[Source]
        BY <3>1, <3>2, <4>1 DEF BusRead
      <4> QED BY <4>2 DEF TalkerInv, SourceInv
    <3>3. CASE ~\E p \in Party : data[p] # 0
      BY <3>3 DEF BusRead
    <3> QED BY <3>2, <3>3
  <2>3. num[r] < Latest /\ ~Preparing
    BY <2>1 DEF Awaits
  <2> QED BY <1>0, <1>1, <1>2, <2>1, <2>2, <2>3 DEF Awaits, LogGrows
<1>4. CASE RxWaitForDavLow(r)
  <2>1. /\ pc'[r] = "RX_DAV_IS_LOW" /\ num' = num /\ got' = got /\ Low(dav)
    BY <1>0, <1>4 DEF RxWaitForDavLow, InCall, Goto, Stay, TypeOK
  <2>2. dav[Source]
    BY <2>1 DEF Low, TalkerInv, ReceiversListen, Receivers
  <2>3. num[r] < Latest /\ ~Preparing
    BY <1>0, <2>2 DEF Awaits, Past, TalkerInv, SourceInv
  <2> QED BY <1>0, <1>1, <1>2, <2>1, <2>3 DEF Awaits, LogGrows
<1>5. CASE RxWaitForDavHi(r)
  <2>1. /\ pc[r] = "RX_WAIT_FOR_DAV_HI" /\ num' = num /\ got' = got /\ ch' = ch
        /\ \/ pc'[r] = "RX_DAV_IS_HI" /\ ~Low(dav)
           \/ pc'[r] = "RX_ERROR"
    BY <1>0, <1>5 DEF RxWaitForDavHi, InCall, Goto, Stay, TypeOK
  <2>2. pc'[r] = "RX_DAV_IS_HI" /\ ch[r] # 0 => num[r] < ch[r] /\ Past(ch[r])
    <3>1. pc'[r] = "RX_DAV_IS_HI" => ~dav[Source]
      BY <2>1 DEF Low
    <3> QED BY <1>0, <2>1, <3>1 DEF Awaits, Past
  <2> QED BY <1>0, <1>1, <1>2, <2>1, <2>2 DEF Awaits, LogGrows
<1>6. CASE RxDavIsHi(r)
  <2>1. /\ pc[r] = "RX_DAV_IS_HI" /\ pc'[r] = "RX_FINISH"
        /\ num' = num /\ got' = got /\ ch' = ch
    BY <1>0, <1>6 DEF RxDavIsHi, InCall, Goto, Stay, TypeOK
  <2> QED BY <1>0, <1>1, <1>2, <2>1 DEF Awaits, LogGrows
<1>7. CASE RxFinish(r)
  <2>1. /\ pc[r] = "RX_FINISH" /\ pc'[r] = "idle"
        /\ num'[r] = IF ch[r] = 0 THEN num[r] ELSE ch[r]
        /\ got'[r] = Append(got[r], ch[r])
    BY <1>0, <1>7 DEF RxFinish, ReadReturns, InCall, Goto, TypeOK
  <2>2. ch[r] # 0 => num[r] < ch[r] /\ Past(ch[r])
    BY <2>1 DEF Awaits
  <2>3. Past(num[r])' /\ num'[r] \in 0..N /\ num[r] <= num'[r]
    BY <1>0, <1>1, <2>1, <2>2 DEF Awaits, Past
  <2>4. Awaits(r)'
    BY <1>2, <2>1, <2>3 DEF Awaits
  <2>5. /\ Len(got'[r]) = Len(got[r]) + 1 /\ got'[r][Len(got[r]) + 1] = ch[r]
        /\ \A i \in 1..Len(got[r]) : got'[r][i] = got[r][i] /\ got[r][i] \in 0..N
    BY <1>0, <2>1
  <2>6. \A i \in 1..Len(got'[r]) : got'[r][i] <= num'[r]
    <3> SUFFICES ASSUME NEW i \in 1..Len(got'[r]) PROVE got'[r][i] <= num'[r]
      OBVIOUS
    <3>1. CASE i = Len(got[r]) + 1
      BY <1>0, <2>1, <2>2, <2>5, <3>1
    <3>2. CASE i # Len(got[r]) + 1
      <4>1. i \in 1..Len(got[r])
        BY <1>0, <2>5, <3>2
      <4>2. got'[r][i] <= num[r] /\ got'[r][i] \in 0..N
        BY <2>5, <4>1 DEF LogGrows
      <4> QED BY <1>0, <2>3, <4>2
    <3> QED BY <3>1, <3>2
  <2>7. ASSUME NEW i \in 1..Len(got'[r]), NEW j \in 1..Len(got'[r]), i < j, got'[r][j] # 0
        PROVE  got'[r][i] < got'[r][j]
    <3>1. i \in 1..Len(got[r])
      BY <1>0, <2>5, <2>7
    <3>2. CASE j = Len(got[r]) + 1
      <4>1. got[r][i] <= num[r] /\ got'[r][i] = got[r][i] /\ got[r][i] \in 0..N
        BY <2>5, <3>1 DEF LogGrows
      <4>2. got'[r][j] = ch[r] /\ num[r] < ch[r]
        BY <2>2, <2>5, <2>7, <3>2
      <4> QED BY <1>0, <4>1, <4>2
    <3>3. CASE j # Len(got[r]) + 1
      <4>1. j \in 1..Len(got[r])
        BY <1>0, <2>5, <3>3
      <4> QED BY <2>5, <2>7, <3>1, <4>1 DEF LogGrows
    <3> QED BY <3>2, <3>3
  <2>8. LogGrows(r)'
    BY <2>6, <2>7 DEF LogGrows
  <2> QED BY <2>4, <2>8
<1>8. CASE StartRead(r) \/ RxStart(r) \/ RxError(r)
  <2>1. /\ num' = num /\ got' = got
        /\ pc'[r] \in {"RX_START", "RX_WAIT_FOR_DAV_LOW", "idle"}
    <3>1. CASE StartRead(r) \/ RxStart(r)
      BY <1>0, <3>1 DEF StartRead, RxStart, Goto, Stay, TypeOK
    <3>2. CASE RxError(r)
      <4>1. pc[r] = "RX_ERROR"
        BY <3>2 DEF RxError, InCall
      <4> QED BY <1>0, <3>2, <4>1 DEF RxError, ErrorReturns, Goto, TypeOK
    <3> QED BY <1>8, <3>1, <3>2
  <2> QED BY <1>0, <1>1, <1>2, <2>1 DEF Awaits, LogGrows
<1> QED BY <1>3, <1>4, <1>5, <1>6, <1>7, <1>8 DEF Read

LEMMA FaultNext ==
  ASSUME OneTalks, TypeOK, TypeOK', FaultInv, [Next]_vars
  PROVE  FaultInv'
<1> USE StateSets, BytesNat
<1>1. TalkerInv /\ TalkerInv' /\ Advances
  BY TalkerNext DEF FaultInv
<1>2. ASSUME NEW r \in Careful PROVE Awaits(r)' /\ LogGrows(r)'
  <2>1. /\ r \in Receivers /\ r \in Party /\ r # Source /\ r \notin Keyed
        /\ Awaits(r) /\ LogGrows(r) /\ ~key[r]
    BY <1>2 DEF Careful, Receivers, FaultInv, Awaits
  <2>2. ASSUME pc'[r] = pc[r], num'[r] = num[r], ch'[r] = ch[r], got'[r] = got[r], ~key'[r]
        PROVE  Awaits(r)' /\ LogGrows(r)'
    <3>1. Awaits(r)'
      BY <1>1, <1>2, <2>1, <2>2, AwaitsStays
    <3> QED BY <2>1, <2>2, <3>1 DEF LogGrows
  <2>3. ASSUME NEW p \in Party \ {r}, StepOf(p) PROVE Awaits(r)' /\ LogGrows(r)'
    BY <2>1, <2>2, <2>3, OthersStay
  <2>4. ASSUME StepOf(r) PROVE Awaits(r)' /\ LogGrows(r)'
    <3>1. /\ pc'[Source] = pc[Source] /\ num'[Source] = num[Source]
          /\ ch'[Source] = ch[Source] /\ dav'[Source] = dav[Source]
      BY <2>1, <2>4, OthersStay
    <3>2. Latest' = Latest /\ Preparing' = Preparing
      BY <3>1 DEF Latest, Preparing
    <3>3. CASE Read(r)
      BY <1>1, <1>2, <2>1, <3>1, <3>2, <3>3, AwaitsReads
    <3>4. CASE TimerTask(r)
      BY <2>1, <2>2, <3>4 DEF TimerTask
    <3>5. CASE IfcBreak(r)
      <4>1. /\ pc'[r] = "idle" /\ got' = got /\ key' = key
            /\ num'[r] = num[r]
        <5>1. pc[r] \notin TxStates
          BY <1>1, <2>1 DEF TalkerInv, ReceiversListen
        <5> QED BY <2>1, <3>5, <5>1 DEF IfcBreak, ErrorReturns, Goto, TypeOK
      <4>2. Past(num[r])'
        <5>1. num[r] \in 0..N /\ Past(num[r])
          BY <2>1 DEF TypeOK, Awaits
        <5> QED BY <1>1, <4>1, <5>1, PastStays
      <4>3. Awaits(r)'
        BY <2>1, <4>1, <4>2 DEF Awaits
      <4> QED BY <2>1, <4>1, <4>3 DEF LogGrows
    <3>6. ~Write(r)
      BY <1>1, <2>1, ListenersNeverWrite DEF TalkerInv
    <3>7. ~KeyBreak(r) /\ ~KeyHit(r) /\ ~KeyTaken(r)
      BY <2>1 DEF KeyBreak, KeyHit, KeyTaken
    <3> QED BY <2>4, <3>3, <3>4, <3>5, <3>6, <3>7 DEF StepOf, Step
  <2>5. CASE Ifc \/ Quiet \/ UNCHANGED vars
    BY <2>1, <2>2, <2>5 DEF Ifc, Quiet, vars
  <2> QED BY <2>3, <2>4, <2>5 DEF Next, StepOf
<1> QED BY <1>1, <1>2 DEF FaultInv

LEMMA FaultInit == OneTalks /\ Init => FaultInv
<1> SUFFICES ASSUME OneTalks, Init PROVE FaultInv
  OBVIOUS
<1> USE BytesNat, StateSets
<1>1. /\ pc[Source] = "idle" /\ \A r \in Receivers : r \in Party /\ pc[r] = "RX_START"
      /\ \A p \in Party : /\ num[p] = 0 /\ data[p] = 0 /\ ~dav[p] /\ ~key[p]
                          /\ got[p] = <<>>
  BY DEF Init, Source, Receivers
<1>2. Latest = 0 /\ ~Preparing
  BY <1>1 DEF Latest, Preparing
<1>3. ReceiversListen /\ SourceInv
  BY <1>1, <1>2 DEF ReceiversListen, SourceInv
<1>4. ASSUME NEW r \in Careful PROVE Awaits(r) /\ LogGrows(r)
  <2>1. r \in Receivers
    BY DEF Careful
  <2> QED BY <1>1, <1>2, <2>1 DEF Awaits, LogGrows, Past
<1> QED BY <1>3, <1>4 DEF FaultInv, TalkerInv

LEMMA OneTalksFaultInv == ASSUME OneTalks PROVE Spec => []FaultInv
<1>1. Init => FaultInv
  BY FaultInit
<1>2. TypeOK /\ TypeOK' /\ FaultInv /\ [Next]_vars => FaultInv'
  BY FaultNext
<1> QED BY <1>1, <1>2, TypeCorrect, PTL DEF Spec

(* One talker: no party that neither stalls nor has a console reads a byte *)
(* twice or two bytes out of order, whatever the others do, whatever waits *)
(* time out, whenever IFC is pulled.                                       *)
THEOREM OneTalkerNeverTwice == ASSUME OneTalks PROVE Spec => []NeverTwice
<1>1. TypeOK /\ FaultInv => NeverTwice
  <2> SUFFICES ASSUME TypeOK, FaultInv, NEW p \in Party \ (Slow \cup Keyed),
                      NEW i \in 1..Len(got[p]), NEW j \in 1..Len(got[p]),
                      i < j, got[p][j] # 0
               PROVE  got[p][i] < got[p][j]
    BY DEF NeverTwice
  <2>1. p # Source
    BY DEF FaultInv, TalkerInv, SourceInv
  <2>2. p \in Careful
    BY <2>1 DEF Careful, Receivers
  <2> QED BY <2>2 DEF FaultInv, LogGrows
<1> QED BY <1>1, TypeCorrect, OneTalksFaultInv, PTL

(* One talker: nobody else ever drives DAV or the data lines, with as many *)
(* receivers and as many faults as there may be.                           *)
THEOREM OneTalkerOneDriver == ASSUME OneTalks PROVE Spec => []OneDriver
<1>1. FaultInv => OneDriver
  <2> SUFFICES ASSUME FaultInv, NEW p \in Party, dav[p] \/ data[p] # 0 PROVE p = Source
    BY DEF OneDriver
  <2> QED BY DEF FaultInv, TalkerInv, ReceiversListen, Receivers
<1> QED BY <1>1, OneTalksFaultInv, PTL

(***************************************************************************)
(* Two parties whose roles change between bytes, no fault.  A party that   *)
(* has sent pulls no line until it reads; the next talker waits for NDAC,  *)
(* which nobody else can pull, so it cannot run ahead of it.               *)
(***************************************************************************)
Pair == \E a, b : a # b /\ Party = {a, b}

(* What a party pulls low, state by state.                                 *)
PartyLines(p) ==
  /\ dav[p] <=> (pc[p] \in {"TX_WAIT_FOR_NRFD_LOW", "TX_WAIT_FOR_NDAC_HI",
                            "TX_SET_DAV_HI"})
  /\ data[p] = IF dav[p] \/ pc[p] = "TX_SET_DAV_LOW" THEN ch[p] ELSE 0
  /\ pc[p] # "idle" => (nrfd[p] <=> (pc[p] = "RX_START" \/ Holding(p)))
  /\ ndac[p] <=> (pc[p] \in {"RX_START", "RX_WAIT_FOR_DAV_LOW", "RX_DAV_IS_LOW"})
  /\ Holding(p) \/ pc[p] \in TxStates => ~done[p]

(* It writes when its turn has come, reads when it has not, and holds the  *)
(* byte after the last it knows.                                           *)
Turns(p) ==
  /\ pc[p] \notin {"RX_ERROR", "TX_ERROR"}
  /\ pc[p] \in TxStates => ch[p] = num[p] + 1 /\ Talker[num[p] + 1] = p
  /\ pc[p] \in RxStates => ~(num[p] < N /\ Talker[num[p] + 1] = p)
  /\ Holding(p) => ch[p] = num[p] + 1

(* It has been given bytes of the other in their order, each once, up to   *)
(* the last it knows.                                                      *)
InOrder(p) ==
  /\ \A i \in 1..Len(got[p]) : got[p][i] <= num[p]
  /\ \A i, j \in 1..Len(got[p]) : i < j => got[p][i] < got[p][j]

(* p waits for its turn or for the other's byte; it knows n, or has taken  *)
(* it and not returned it.                                                 *)
Fresh(p) == pc[p] \in {"idle", "RX_START", "RX_WAIT_FOR_DAV_LOW",
                       "TX_START", "TX_WAIT_READY"}
Has(p, n) == (Fresh(p) /\ num[p] = n) \/ Holds(p, n)

(* Where q can be for each state of p.                                     *)
InStep(p, q) ==
  \/ Fresh(p) /\ Has(q, num[p])
  \/ /\ pc[p] \in {"TX_PUT_DATA", "TX_SET_DAV_LOW"}
     /\ pc[q] = "RX_WAIT_FOR_DAV_LOW" /\ num[q] = num[p]
  \/ /\ pc[p] \in {"TX_WAIT_FOR_NRFD_LOW", "TX_WAIT_FOR_NDAC_HI"}
     /\ num[q] = num[p]
     /\ \/ pc[q] \in {"RX_WAIT_FOR_DAV_LOW", "RX_DAV_IS_LOW"}
        \/ pc[q] = "RX_WAIT_FOR_DAV_HI" /\ ch[q] = ch[p]
  \/ /\ pc[p] = "TX_SET_DAV_HI"
     /\ pc[q] = "RX_WAIT_FOR_DAV_HI" /\ ch[q] = ch[p] /\ num[q] = num[p]
  \/ pc[p] \in {"TX_WAIT_FOR_DAV_HI", "TX_FINISH"} /\ Has(q, ch[p])

Abreast(p, q) == InStep(p, q) \/ InStep(q, p)

RolesInv ==
  /\ ~ifc
  /\ \A p \in Party : ~key[p] /\ PartyLines(p) /\ Turns(p) /\ InOrder(p)
  /\ \A p, q \in Party : p # q => Abreast(p, q)
  /\ ConfirmedDelivered /\ NothingMissed

(* Of a pair, a line is low when one of the two pulls it.                  *)
LEMMA PairLow ==
  ASSUME NEW p, NEW q, Party = {p, q}
  PROVE  /\ Low(dav) <=> dav[p] \/ dav[q]
         /\ Low(nrfd) <=> nrfd[p] \/ nrfd[q]
         /\ Low(ndac) <=> ndac[p] \/ ndac[q]
BY DEF Low

(* A step of p in which no call returns: the lines, the turn of p and its  *)
(* place beside q are all there is to show.                                *)
LEMMA NothingReturns ==
  ASSUME TypeOK, RolesInv, NEW p, NEW q, p # q, Party = {p, q}, StepOf(p),
         UNCHANGED <<num, got, sent, ifc, key>>,
         Holding(p) => Holding(p)' /\ ch'[p] = ch[p],
         PartyLines(p)', Turns(p)', Abreast(p, q)'
  PROVE  RolesInv'
<1>1. /\ pc'[q] = pc[q] /\ ch'[q] = ch[q] /\ dav'[q] = dav[q] /\ data'[q] = data[q]
      /\ nrfd'[q] = nrfd[q] /\ ndac'[q] = ndac[q] /\ done'[q] = done[q]
  BY OthersStay
<1>2. Holding(q)' <=> Holding(q)
  BY <1>1 DEF Holding
<1>3. PartyLines(q)' /\ Turns(q)'
  BY <1>1, <1>2 DEF RolesInv, PartyLines, Turns
<1>4. \A r \in Party : ~key'[r] /\ InOrder(r)'
  BY DEF RolesInv, InOrder
<1>5. Abreast(q, p)'
  BY DEF Abreast
<1>6. \A r \in Party : Holding(r) => Holding(r)' /\ ch'[r] = ch[r]
  BY <1>1, <1>2
<1>7. ConfirmedDelivered' /\ NothingMissed'
  BY <1>6 DEF RolesInv, ConfirmedDelivered, NothingMissed, Returned
<1> QED BY <1>3, <1>4, <1>5, <1>7 DEF RolesInv

(* A step of p after which it knows the next byte, n: a read that returns  *)
(* it, or a write whose byte q has taken.                                  *)
LEMMA OneReturns ==
  ASSUME TypeOK, RolesInv, NEW p, NEW q, p # q, Party = {p, q}, StepOf(p),
         NEW n, n = num[p] + 1, pc'[p] = "idle", num'[p] = n,
         UNCHANGED <<ch, pins, done, ifc, key>>,
         Abreast(p, q)',
         \/ /\ ch[p] = n /\ sent' = sent
            /\ got' = [got EXCEPT ![p] = Append(@, n)]
         \/ /\ Talker[n] = p /\ got' = got /\ sent' = sent \cup {n}
            /\ Talker[n] # q => n \in Returned(q) \/ (Holding(q) /\ ch[q] = n),
         PartyLines(p)'
  PROVE  RolesInv'
<1>0. /\ pc'[q] = pc[q] /\ num'[q] = num[q] /\ got'[q] = got[q]
  BY OthersStay
<1>1. Holding(q)' <=> Holding(q)
  BY <1>0 DEF Holding
<1>2. PartyLines(q)' /\ Turns(q)' /\ InOrder(q)'
  BY <1>0, <1>1 DEF RolesInv, PartyLines, Turns, InOrder, pins
<1>3. Turns(p)'
  BY StateSets DEF Turns, Holding
<1>4. num[p] \in Nat /\ n \in Nat /\ got[p] \in Seq(0..N)
  BY HandshakeAssumption DEF TypeOK
<1>5. /\ InOrder(p)'
      /\ \A m \in Returned(p) : m \in Returned(p)'
      /\ ch[p] = n /\ got' # got => n \in Returned(p)'
  <2> DEFINE log == got[p]
  <2>0. /\ Len(log) \in Nat /\ \A i \in 1..Len(log) : log[i] \in Nat /\ log[i] < n
        /\ \A i, j \in 1..Len(log) : i < j => log[i] < log[j]
    <3>1. InOrder(p)
      BY DEF RolesInv
    <3>2. Len(log) \in Nat /\ \A i \in 1..Len(log) : log[i] \in Nat
      BY <1>4, HandshakeAssumption
    <3> QED BY <1>4, <3>1, <3>2 DEF InOrder
  <2>1. CASE got' = got
    <3>1. got'[p] = log
      BY <2>1
    <3>2. InOrder(p)'
      BY <1>4, <2>0, <3>1 DEF InOrder
    <3> QED BY <2>1, <3>2 DEF Returned
  <2>2. CASE got' = [got EXCEPT ![p] = Append(@, n)]
    <3>1. got'[p] = Append(got[p], n)
      BY <2>2 DEF TypeOK
    <3>2. /\ Len(got'[p]) = Len(got[p]) + 1 /\ got'[p][Len(got[p]) + 1] = n
          /\ \A i \in 1..Len(got[p]) : got'[p][i] = got[p][i]
          /\ Len(got[p]) \in Nat
      BY <1>4, <3>1
    <3>3. \A i \in 1..Len(got'[p]) : i \in 1..Len(log) \/ i = Len(log) + 1
      BY <2>0, <3>2
    <3>4. InOrder(p)'
      <4>1. \A i \in 1..Len(got'[p]) : got'[p][i] <= n
        BY <1>4, <2>0, <3>2, <3>3
      <4>2. ASSUME NEW i \in 1..Len(got'[p]), NEW j \in 1..Len(got'[p]), i < j
            PROVE  got'[p][i] < got'[p][j]
        <5>1. i \in 1..Len(log)
          BY <2>0, <3>2, <4>2
        <5>2. got'[p][i] = log[i] /\ log[i] < n
          BY <2>0, <3>2, <5>1
        <5> QED BY <2>0, <3>2, <3>3, <4>2, <5>2
      <4> QED BY <4>1, <4>2 DEF InOrder
    <3>5. n \in Returned(p)' /\ \A m \in Returned(p) : m \in Returned(p)'
      BY <3>2 DEF Returned
    <3> QED BY <3>4, <3>5
  <2> QED BY <2>1, <2>2
<1>6. NothingMissed'
  <2>1. \A m \in 1..num[q] : Talker[m] # q => m \in Returned(q)'
    BY <1>0 DEF RolesInv, NothingMissed, Returned
  <2>2. \A m \in 1..n : m \in 1..num[p] \/ m = n
    BY <1>4
  <2>3. Talker[n] # p => n \in Returned(p)'
    <3>1. CASE got' = got
      <4>1. got' # [got EXCEPT ![p] = Append(@, n)]
        <5>1. Len(Append(got[p], n)) = Len(got[p]) + 1 /\ Len(got[p]) \in Nat
          BY <1>4
        <5>2. [got EXCEPT ![p] = Append(@, n)][p] = Append(got[p], n)
          BY DEF TypeOK
        <5> QED BY <3>1, <5>1, <5>2
      <4> QED BY <4>1
    <3>2. CASE got' # got
      BY <1>5, <3>2
    <3> QED BY <3>1, <3>2
  <2>4. \A m \in 1..n : Talker[m] # p => m \in Returned(p)'
    BY <1>5, <2>2, <2>3 DEF RolesInv, NothingMissed
  <2> QED BY <1>0, <2>1, <2>4 DEF NothingMissed
<1>7. ConfirmedDelivered'
  <2>1. ASSUME NEW m \in sent', Talker[m] # q
        PROVE  m \in Returned(q)' \/ (Holding(q)' /\ ch'[q] = m)
    BY <1>0, <1>1, <2>1 DEF RolesInv, ConfirmedDelivered, Returned
  <2>2. ASSUME NEW m \in sent', Talker[m] # p
        PROVE  m \in Returned(p)'
    <3>1. m \in sent
      BY <2>2
    <3>2. m \in Returned(p) \/ (Holding(p) /\ ch[p] = m)
      BY <2>2, <3>1 DEF RolesInv, ConfirmedDelivered
    <3>3. CASE m \in Returned(p)
      BY <1>5, <3>3
    <3>4. CASE Holding(p) /\ ch[p] = m
      <4>1. m = n
        BY <3>4 DEF RolesInv, Turns
      <4> QED BY <1>4, <1>6, <2>2, <4>1 DEF NothingMissed
    <3> QED BY <3>2, <3>3, <3>4
  <2> QED BY <2>1, <2>2 DEF ConfirmedDelivered
<1>8. Abreast(q, p)' /\ ~ifc' /\ ~key'[p] /\ ~key'[q]
  BY DEF Abreast, RolesInv
<1> QED BY <1>2, <1>3, <1>5, <1>6, <1>7, <1>8 DEF RolesInv

(* Every turn of a read keeps the pair in step.                            *)
LEMMA RolesRead ==
  ASSUME NoFault, TypeOK, RolesInv, NEW p, NEW q, p # q, Party = {p, q}, Read(p)
  PROVE  RolesInv'
<1> USE StateSets
<1>0. /\ StepOf(p) /\ p \in Party /\ q \in Party
      /\ ~key[p] /\ ~ifc /\ num[p] \in Nat /\ num[q] \in Nat
      /\ PartyLines(p) /\ PartyLines(q) /\ Turns(p) /\ Turns(q) /\ Abreast(p, q)
  BY HandshakeAssumption DEF StepOf, Step, RolesInv, TypeOK
<1>1. /\ pc'[q] = pc[q] /\ num'[q] = num[q] /\ ch'[q] = ch[q]
  BY <1>0, OthersStay
<1>2. CASE StartRead(p)
  <2>1. /\ pc[p] = "idle" /\ pc'[p] = "RX_START" /\ UNCHANGED <<num, got, sent, ifc, key>>
        /\ ~dav'[p] /\ data'[p] = 0 /\ nrfd'[p] /\ ndac'[p]
        /\ ~(num[p] < N /\ Talker[num[p] + 1] = p)
    BY <1>0, <1>2, HandshakeAssumption DEF StartRead, BusReadInit, Goto, TypeOK
  <2>2. PartyLines(p)' /\ Turns(p)'
    BY <2>1 DEF PartyLines, Turns, Holding
  <2>3. Abreast(p, q)'
    BY <1>0, <1>1, <2>1 DEF Abreast, InStep, Has, Fresh, Holds, Holding
  <2> QED BY <1>0, <2>1, <2>2, <2>3, NothingReturns DEF Holding
<1>3. CASE RxStart(p)
  <2>1. /\ pc[p] = "RX_START" /\ pc'[p] = "RX_WAIT_FOR_DAV_LOW"
        /\ UNCHANGED <<num, ch, got, sent, ifc, key, dav, data, ndac, done>> /\ ~nrfd'[p]
    BY <1>0, <1>3 DEF RxStart, Stay, InCall, Goto, TypeOK
  <2>2. PartyLines(p)' /\ Turns(p)'
    BY <1>0, <2>1 DEF PartyLines, Turns, Holding
  <2>3. Abreast(p, q)'
    BY <1>0, <1>1, <2>1 DEF Abreast, InStep, Has, Fresh, Holds, Holding
  <2> QED BY <1>0, <2>1, <2>2, <2>3, NothingReturns DEF Holding
<1>4. CASE RxWaitForDavLow(p)
  <2>1. /\ pc[p] = "RX_WAIT_FOR_DAV_LOW" /\ pc'[p] = "RX_DAV_IS_LOW"
        /\ UNCHANGED <<num, ch, got, sent, ifc, key, pins, done>> /\ Low(dav)
    BY <1>0, <1>4 DEF RxWaitForDavLow, Stay, InCall, Goto, TypeOK
  <2>2. dav[q]
    BY <1>0, <2>1, PairLow DEF PartyLines
  <2>3. pc[q] \in {"TX_WAIT_FOR_NRFD_LOW", "TX_WAIT_FOR_NDAC_HI", "TX_SET_DAV_HI"}
    BY <1>0, <2>2 DEF PartyLines
  <2>4. PartyLines(p)' /\ Turns(p)'
    BY <1>0, <2>1 DEF PartyLines, Turns, Holding, pins
  <2>5. Abreast(p, q)'
    BY <1>0, <1>1, <2>1, <2>3 DEF Abreast, InStep, Has, Fresh, Holds, Holding
  <2> QED BY <1>0, <2>1, <2>4, <2>5, NothingReturns DEF Holding
<1>5. CASE RxDavIsLow(p)
  <2>1. /\ pc[p] = "RX_DAV_IS_LOW" /\ pc'[p] = "RX_WAIT_FOR_DAV_HI"
        /\ UNCHANGED <<num, got, sent, ifc, key, dav, data>>
        /\ nrfd'[p] /\ ~ndac'[p] /\ ~done'[p] /\ ch'[p] = BusRead
    BY <1>0, <1>5 DEF RxDavIsLow, TimeoutSet, InCall, Goto, TypeOK
  <2>2. pc[q] \in {"TX_WAIT_FOR_NRFD_LOW", "TX_WAIT_FOR_NDAC_HI"} /\ num[q] = num[p]
    BY <1>0, <2>1 DEF Abreast, InStep, Has, Fresh, Holds, Holding
  <2>3. data[q] = ch[q] /\ ch[q] = num[p] + 1 /\ data[p] = 0
    BY <1>0, <2>1, <2>2 DEF PartyLines, Turns
  <2>4. BusRead = ch[q]
    <3>1. ch[q] # 0
      BY <1>0, <2>3
    <3>2. \A r \in Party : data[r] # 0 <=> r = q
      BY <2>3, <3>1
    <3>3. (CHOOSE r \in Party : data[r] # 0) = q
      BY <1>0, <3>2
    <3> QED BY <1>0, <2>3, <3>1, <3>3 DEF BusRead
  <2>5. PartyLines(p)' /\ Turns(p)'
    BY <1>0, <2>1, <2>3, <2>4 DEF PartyLines, Turns, Holding
  <2>6. Abreast(p, q)'
    BY <1>1, <2>1, <2>2, <2>4 DEF Abreast, InStep
  <2> QED BY <1>0, <2>1, <2>5, <2>6, NothingReturns DEF Holding
<1>6. CASE RxWaitForDavHi(p)
  <2>1. /\ pc[p] = "RX_WAIT_FOR_DAV_HI" /\ pc'[p] = "RX_DAV_IS_HI" /\ ~Low(dav)
        /\ UNCHANGED <<num, ch, got, sent, ifc, key, pins, done>>
    BY <1>0, <1>6 DEF RxWaitForDavHi, TimedOut, Stay, InCall, Goto, TypeOK, PartyLines, Holding
  <2>2. ~dav[q]
    BY <2>1, PairLow
  <2>3. pc[q] \notin {"TX_WAIT_FOR_NRFD_LOW", "TX_WAIT_FOR_NDAC_HI", "TX_SET_DAV_HI"}
    BY <1>0, <2>2 DEF PartyLines
  <2>4. PartyLines(p)' /\ Turns(p)'
    BY <1>0, <2>1 DEF PartyLines, Turns, Holding, pins
  <2>5. Abreast(p, q)'
    BY <1>0, <1>1, <2>1, <2>3 DEF Abreast, InStep, Has, Fresh, Holds, Holding
  <2> QED BY <1>0, <2>1, <2>4, <2>5, NothingReturns DEF Holding
<1>7. CASE RxDavIsHi(p)
  <2>1. /\ pc[p] = "RX_DAV_IS_HI" /\ pc'[p] = "RX_FINISH"
        /\ UNCHANGED <<num, ch, got, sent, ifc, key, pins, done>>
    BY <1>0, <1>7 DEF RxDavIsHi, Stay, InCall, Goto, TypeOK
  <2>2. PartyLines(p)' /\ Turns(p)'
    BY <1>0, <2>1 DEF PartyLines, Turns, Holding, pins
  <2>3. Abreast(p, q)'
    BY <1>0, <1>1, <2>1 DEF Abreast, InStep, Has, Fresh, Holds, Holding
  <2> QED BY <1>0, <2>1, <2>2, <2>3, NothingReturns DEF Holding
<1>8. CASE RxFinish(p)
  <2>0. pc[p] = "RX_FINISH" /\ ch[p] = num[p] + 1
    BY <1>0, <1>8 DEF RxFinish, InCall, Turns, Holding
  <2>1. /\ pc'[p] = "idle" /\ num'[p] = num[p] + 1 /\ sent' = sent
        /\ UNCHANGED <<ch, pins, done, ifc, key>>
        /\ got' = [got EXCEPT ![p] = Append(@, num[p] + 1)]
    <3>1. num[p] + 1 # 0
      BY <1>0
    <3> QED BY <1>0, <1>8, <2>0, <3>1 DEF RxFinish, ReadReturns, Goto, TypeOK
  <2>2. PartyLines(p)'
    BY <1>0, <2>0, <2>1 DEF PartyLines, Holding, pins
  <2>3. Abreast(p, q)'
    BY <1>0, <1>1, <2>0, <2>1 DEF Abreast, InStep, Has, Fresh, Holds, Holding
  <2> QED BY <1>0, <2>0, <2>1, <2>2, <2>3, OneReturns
<1>9. ~RxError(p)
  BY <1>0 DEF RxError, InCall, Turns
<1> QED BY <1>2, <1>3, <1>4, <1>5, <1>6, <1>7, <1>8, <1>9 DEF Read

(* Every turn of a write keeps the pair in step.                           *)
LEMMA RolesWrite ==
  ASSUME NoFault, TypeOK, RolesInv, NEW p, NEW q, p # q, Party = {p, q}, Write(p)
  PROVE  RolesInv'
<1> USE StateSets
<1>0. /\ StepOf(p) /\ p \in Party /\ q \in Party
      /\ ~key[p] /\ ~ifc /\ num[p] \in Nat /\ num[q] \in Nat
      /\ PartyLines(p) /\ PartyLines(q) /\ Turns(p) /\ Turns(q) /\ Abreast(p, q)
  BY HandshakeAssumption DEF StepOf, Step, RolesInv, TypeOK
<1>1. /\ pc'[q] = pc[q] /\ num'[q] = num[q] /\ ch'[q] = ch[q]
  BY <1>0, OthersStay
<1>2. CASE StartWrite(p)
  <2>1. /\ pc[p] = "idle" /\ pc'[p] = "TX_START" /\ UNCHANGED <<num, got, sent, ifc, key>>
        /\ ~dav'[p] /\ data'[p] = 0 /\ ~nrfd'[p] /\ ~ndac'[p] /\ ~done'[p]
        /\ ch'[p] = num[p] + 1 /\ Talker[num[p] + 1] = p
    BY <1>0, <1>2, HandshakeAssumption DEF StartWrite, BusReadInit, TimeoutSet, Goto, TypeOK
  <2>2. PartyLines(p)' /\ Turns(p)'
    BY <2>1 DEF PartyLines, Turns, Holding
  <2>3. Abreast(p, q)'
    BY <1>0, <1>1, <2>1 DEF Abreast, InStep, Has, Fresh, Holds, Holding
  <2> QED BY <1>0, <2>1, <2>2, <2>3, NothingReturns DEF Holding
<1>3. CASE TxStart(p)
  <2>1. /\ pc[p] = "TX_START" /\ pc'[p] = "TX_WAIT_READY" /\ ~done'[p]
        /\ UNCHANGED <<num, ch, got, sent, ifc, key, pins>>
    BY <1>0, <1>3 DEF TxStart, TxWait, TimedOut, TimeoutSet, Stay, InCall, Goto, TypeOK,
      PartyLines
  <2>2. PartyLines(p)' /\ Turns(p)'
    BY <1>0, <2>1 DEF PartyLines, Turns, Holding, pins
  <2>3. Abreast(p, q)'
    BY <1>0, <1>1, <2>1 DEF Abreast, InStep, Has, Fresh, Holds, Holding
  <2> QED BY <1>0, <2>1, <2>2, <2>3, NothingReturns DEF Holding
<1>4. CASE TxWaitReady(p)
  <2>1. /\ pc[p] = "TX_WAIT_READY" /\ pc'[p] = "TX_PUT_DATA" /\ ~done'[p]
        /\ ~Low(nrfd) /\ Low(ndac)
        /\ UNCHANGED <<num, ch, got, sent, ifc, key, pins>>
    BY <1>0, <1>4 DEF TxWaitReady, TxWait, TimedOut, TimeoutSet, Stay, InCall, Goto, TypeOK,
      PartyLines
  <2>2. ~nrfd[q] /\ ndac[q]
    BY <1>0, <2>1, PairLow DEF PartyLines
  <2>3. pc[q] \in {"RX_WAIT_FOR_DAV_LOW", "RX_DAV_IS_LOW"}
    BY <1>0, <2>2 DEF PartyLines
  <2>4. PartyLines(p)' /\ Turns(p)'
    BY <1>0, <2>1 DEF PartyLines, Turns, Holding, pins
  <2>5. Abreast(p, q)'
    BY <1>0, <1>1, <2>1, <2>3 DEF Abreast, InStep, Has, Fresh, Holds, Holding
  <2> QED BY <1>0, <2>1, <2>4, <2>5, NothingReturns DEF Holding
<1>5. CASE TxPutData(p)
  <2>1. /\ pc[p] = "TX_PUT_DATA" /\ pc'[p] = "TX_SET_DAV_LOW" /\ ~done'[p]
        /\ UNCHANGED <<num, ch, got, sent, ifc, key, dav, nrfd, ndac>> /\ data'[p] = ch[p]
    BY <1>0, <1>5 DEF TxPutData, TimeoutSet, Stay, InCall, Goto, TypeOK
  <2>2. PartyLines(p)' /\ Turns(p)'
    BY <1>0, <2>1 DEF PartyLines, Turns, Holding
  <2>3. Abreast(p, q)'
    BY <1>0, <1>1, <2>1 DEF Abreast, InStep, Has, Fresh, Holds, Holding
  <2> QED BY <1>0, <2>1, <2>2, <2>3, NothingReturns DEF Holding
<1>6. CASE TxSetDavLow(p)
  <2>1. /\ pc[p] = "TX_SET_DAV_LOW" /\ pc'[p] = "TX_WAIT_FOR_NRFD_LOW" /\ ~done'[p]
        /\ UNCHANGED <<num, ch, got, sent, ifc, key, data, nrfd, ndac>> /\ dav'[p]
    BY <1>0, <1>6 DEF TxSetDavLow, TimeoutSet, Stay, InCall, Goto, TypeOK
  <2>2. PartyLines(p)' /\ Turns(p)'
    BY <1>0, <2>1 DEF PartyLines, Turns, Holding
  <2>3. Abreast(p, q)'
    BY <1>0, <1>1, <2>1 DEF Abreast, InStep, Has, Fresh, Holds, Holding
  <2> QED BY <1>0, <2>1, <2>2, <2>3, NothingReturns DEF Holding
<1>7. CASE TxWaitForNrfdLow(p)
  <2>1. /\ pc[p] = "TX_WAIT_FOR_NRFD_LOW" /\ pc'[p] = "TX_WAIT_FOR_NDAC_HI" /\ ~done'[p]
        /\ UNCHANGED <<num, ch, got, sent, ifc, key, pins>>
    BY <1>0, <1>7 DEF TxWaitForNrfdLow, TxWait, TimedOut, TimeoutSet, Stay, InCall, Goto,
      TypeOK, PartyLines
  <2>2. PartyLines(p)' /\ Turns(p)'
    BY <1>0, <2>1 DEF PartyLines, Turns, Holding, pins
  <2>3. Abreast(p, q)'
    BY <1>0, <1>1, <2>1 DEF Abreast, InStep, Has, Fresh, Holds, Holding
  <2> QED BY <1>0, <2>1, <2>2, <2>3, NothingReturns DEF Holding
<1>8. CASE TxWaitForNdacHi(p)
  <2>1. /\ pc[p] = "TX_WAIT_FOR_NDAC_HI" /\ pc'[p] = "TX_SET_DAV_HI" /\ ~Low(ndac)
        /\ UNCHANGED <<num, ch, got, sent, ifc, key, pins, done>>
    BY <1>0, <1>8 DEF TxWaitForNdacHi, TimedOut, Stay, InCall, Goto, TypeOK, PartyLines
  <2>2. ~ndac[q]
    BY <2>1, PairLow
  <2>3. pc[q] \notin {"RX_WAIT_FOR_DAV_LOW", "RX_DAV_IS_LOW"}
    BY <1>0, <2>2 DEF PartyLines
  <2>4. PartyLines(p)' /\ Turns(p)'
    BY <1>0, <2>1 DEF PartyLines, Turns, Holding, pins
  <2>5. Abreast(p, q)'
    BY <1>0, <1>1, <2>1, <2>3 DEF Abreast, InStep, Has, Fresh, Holds, Holding
  <2> QED BY <1>0, <2>1, <2>4, <2>5, NothingReturns DEF Holding
<1>9. CASE TxSetDavHi(p)
  <2>1. /\ pc[p] = "TX_SET_DAV_HI" /\ pc'[p] = "TX_WAIT_FOR_DAV_HI" /\ ~done'[p]
        /\ UNCHANGED <<num, ch, got, sent, ifc, key>>
        /\ ~dav'[p] /\ data'[p] = 0 /\ ~nrfd'[p] /\ ~ndac'[p]
    BY <1>0, <1>9, HandshakeAssumption
    DEF TxSetDavHi, BusReadInit, TimeoutSet, Stay, InCall, Goto, TypeOK
  <2>2. PartyLines(p)' /\ Turns(p)'
    BY <1>0, <2>1 DEF PartyLines, Turns, Holding
  <2>3. Abreast(p, q)'
    BY <1>0, <1>1, <2>1 DEF Abreast, InStep, Has, Fresh, Holds, Holding, Turns
  <2> QED BY <1>0, <2>1, <2>2, <2>3, NothingReturns DEF Holding
<1>10. CASE TxWaitForDavHi(p)
  <2>1. /\ pc[p] = "TX_WAIT_FOR_DAV_HI" /\ pc'[p] = "TX_FINISH"
        /\ UNCHANGED <<num, ch, got, sent, ifc, key, pins, done>>
    BY <1>0, <1>10 DEF TxWaitForDavHi, TimedOut, Stay, InCall, Goto, TypeOK, PartyLines
  <2>2. PartyLines(p)' /\ Turns(p)'
    BY <1>0, <2>1 DEF PartyLines, Turns, Holding, pins
  <2>3. Abreast(p, q)'
    BY <1>0, <1>1, <2>1 DEF Abreast, InStep, Has, Fresh, Holds, Holding
  <2> QED BY <1>0, <2>1, <2>2, <2>3, NothingReturns DEF Holding
<1>11. CASE TxFinish(p)
  <2>0. pc[p] = "TX_FINISH" /\ ch[p] = num[p] + 1 /\ Talker[num[p] + 1] = p
    BY <1>0, <1>11 DEF TxFinish, InCall, Turns
  <2>1. /\ pc'[p] = "idle" /\ num'[p] = num[p] + 1 /\ sent' = sent \cup {num[p] + 1}
        /\ UNCHANGED <<ch, pins, done, ifc, key, got>>
    BY <1>0, <1>11, <2>0 DEF TxFinish, WriteReturns, Goto, TypeOK
  <2>2. PartyLines(p)'
    BY <1>0, <2>0, <2>1 DEF PartyLines, Holding, pins
  <2>3. Has(q, num[p] + 1)
    BY <1>0, <2>0 DEF Abreast, InStep, Has, Fresh, Holds, Holding
  <2>4. Abreast(p, q)'
    BY <1>0, <1>1, <2>1, <2>3 DEF Abreast, InStep, Has, Fresh, Holds, Holding
  <2>5. num[p] + 1 \in Returned(q) \/ (Holding(q) /\ ch[q] = num[p] + 1)
    <3>1. CASE Holds(q, num[p] + 1)
      BY <3>1 DEF Holds
    <3>2. CASE num[q] = num[p] + 1
      <4>1. num[p] + 1 \in 1..num[q]
        BY <1>0, <3>2
      <4> QED BY <1>0, <2>0, <4>1 DEF RolesInv, NothingMissed
    <3> QED BY <2>3, <3>1, <3>2 DEF Has
  <2> QED BY <1>0, <2>0, <2>1, <2>2, <2>4, <2>5, OneReturns
<1>12. ~TxError(p)
  BY <1>0 DEF TxError, InCall, Turns
<1> QED BY <1>2, <1>3, <1>4, <1>5, <1>6, <1>7, <1>8, <1>9, <1>10, <1>11, <1>12 DEF Write

(* Each step of a pair without fault is a turn of one of their loops.      *)
LEMMA RolesNext ==
  ASSUME NoFault, Pair, TypeOK, RolesInv, [Next]_vars
  PROVE  RolesInv'
<1>1. ASSUME NEW p \in Party, Step(p) PROVE RolesInv'
  <2>1. PICK q : p # q /\ Party = {p, q}
    BY DEF Pair
  <2>2. ~KeyBreak(p) /\ ~IfcBreak(p)
    BY DEF KeyBreak, IfcBreak, RolesInv
  <2> QED BY <1>1, <2>1, <2>2, RolesRead, RolesWrite DEF Step
<1>2. ~Ifc /\ \A p \in Party : ~TimerTask(p) /\ ~KeyHit(p) /\ ~KeyTaken(p)
  BY DEF NoFault, Ifc, TimerTask, KeyHit, KeyTaken, RolesInv
<1>3. CASE Quiet \/ UNCHANGED vars
  <2>1. UNCHANGED vars
    BY <1>3 DEF Quiet
  <2> QED BY <2>1 DEF vars, pins, RolesInv, PartyLines, Turns, InOrder, Abreast, InStep,
    Has, Fresh, Holds, Holding, ConfirmedDelivered, NothingMissed, Returned
<1> QED BY <1>1, <1>2, <1>3 DEF Next

LEMMA RolesInit == NoFault /\ Init => RolesInv
<1> SUFFICES ASSUME NoFault, Init PROVE RolesInv
  OBVIOUS
<1> USE StateSets DEF Init
<1>1. ASSUME NEW p \in Party
      PROVE  ~key[p] /\ PartyLines(p) /\ Turns(p) /\ InOrder(p)
  <2>1. pc[p] = IF p = Talker[1] THEN "idle" ELSE "RX_START"
    OBVIOUS
  <2>2. /\ ~dav[p] /\ data[p] = 0 /\ num[p] = 0 /\ got[p] = <<>>
        /\ nrfd[p] = (p # Talker[1]) /\ ndac[p] = (p # Talker[1])
    OBVIOUS
  <2>3. PartyLines(p)
    BY <2>1, <2>2 DEF PartyLines, Holding
  <2>4. Turns(p)
    BY <2>1, <2>2 DEF Turns, Holding
  <2>5. InOrder(p)
    BY <2>2 DEF InOrder
  <2> QED BY <2>3, <2>4, <2>5
<1>2. \A p, q \in Party : Abreast(p, q)
  BY DEF Abreast, InStep, Has, Fresh
<1>3. ConfirmedDelivered /\ NothingMissed
  BY DEF ConfirmedDelivered, NothingMissed
<1> QED BY <1>1, <1>2, <1>3 DEF RolesInv

(* Two parties that take turns to send, no fault: a byte whose write has   *)
(* returned is with the other, who reads each byte once, in their order,   *)
(* and misses none, though it may have been the talker a moment before.    *)
THEOREM TwoPartiesTakeTurns ==
  ASSUME NoFault, Pair
  PROVE  Spec => []ConfirmedDelivered /\ []NothingMissed /\ []NeverTwice
<1>1. TypeOK /\ RolesInv /\ [Next]_vars => RolesInv'
  BY RolesNext
<1>2. RolesInv => ConfirmedDelivered /\ NothingMissed /\ NeverTwice
  BY DEF RolesInv, InOrder, NeverTwice
<1>3. Init => RolesInv
  BY RolesInit
<1> QED BY <1>1, <1>2, <1>3, TypeCorrect, PTL DEF Spec
================================================================================
