-------------------------- MODULE InterruptsProofs ---------------------------
(***************************************************************************)
(* What is proved of Interrupts: for any ring, any words and any number of *)
(* interrupts, the console's characters come in order, the clock stays set *)
(* and is read to a tick, and without a tick between the halves of         *)
(* _mmc_timeout no time-out ends early.                                    *)
(***************************************************************************)
EXTENDS Interrupts, FiniteSetTheorems, TLAPS

Slots == 0 .. RX_BUF_SIZE - 1

LEMMA Sizes == /\ RX_BUF_SIZE \in Nat /\ RX_BUF_SIZE > 0
               /\ HalfWord \in Nat /\ HalfWord > 0
               /\ TicCounts \in Nat /\ TicCounts > 0
               /\ SecondTics \in Nat /\ SecondTics > 0
               /\ Times \subseteq Timespec /\ Waits \subseteq Nat
BY SizesAssumption DEF Timespec

-----------------------------------------------------------------------------
(* Types.  Those of the ring come with its invariant.                      *)
CountType == tcnt \in 0 .. TicCounts - 1
OtherTypes == CountType /\ CallTypes /\ TimerTypes

LEMMA TypesInit == Init => OtherTypes
<1> SUFFICES ASSUME Init PROVE OtherTypes
  OBVIOUS
<1> USE Sizes DEF Init
<1>1. CountType
  BY DEF CountType
<1>2. CallTypes
  BY DEF CallTypes, Called, Places, Idle, Zero, Timespec
<1>3. TimerTypes
  BY DEF TimerTypes, Zero, Timespec, Wait
<1> QED
  BY <1>1, <1>2, <1>3 DEF OtherTypes

LEMMA PutType ==
  ASSUME NEW x \in Nat, NEW y \in Nat, NEW h \in Halves
  PROVE  Put(x, y, h) \in Nat
<1>1. \A z \in Nat : z % HalfWord \in Nat /\ z \div HalfWord \in Nat
  BY Sizes
<1>2. \A a, b \in Nat : HalfWord * a + b \in Nat
  BY Sizes
<1> QED
  BY <1>1, <1>2 DEF Put, Half, Halves

(* A word is read or written one half further, or the next one begun.      *)
LEMMA HalfMoved ==
  ASSUME CallTypes, NEW h \in Halves, NEW n \in Nat,
         op' = [op EXCEPT !.halves = @ \ {h}, !.reg = n]
           \/ op' = [op EXCEPT !.halves = @ \ {h}]
  PROVE  CallTypes'
<1>1. op.halves \ {h} \in SUBSET Halves
  BY DEF CallTypes
<1> QED
  BY <1>1 DEF CallTypes

LEMMA GoneTo ==
  ASSUME CallTypes, NEW at \in Places, Goes(at)
  PROVE  CallTypes'
<1>1. op' = [op EXCEPT !.at = at, !.halves = Halves, !.reg = 0]
  BY DEF Goes
<1>2. Halves \in SUBSET Halves
  OBVIOUS
<1> QED
  BY <1>1, <1>2 DEF CallTypes

LEMMA Returned == Return => CallTypes'
<1>1. Zero \in Timespec
  BY DEF Zero, Timespec
<1>2. {} \in SUBSET Halves
  OBVIOUS
<1>3. Idle \in [do : Called, at : Places, halves : SUBSET Halves, ts : Timespec, n : Nat, reg : Nat]
  BY <1>1, <1>2 DEF Idle, Called, Places
<1> QED
  BY <1>3 DEF Return, CallTypes

LEMMA TypesStep == OtherTypes /\ RingTypes /\ [Next]_vars => OtherTypes'
<1> SUFFICES ASSUME OtherTypes, RingTypes, [Next]_vars PROVE OtherTypes'
  OBVIOUS
<1>0. CountType /\ CallTypes /\ TimerTypes
  BY DEF OtherTypes
<1>a. tcnt \in Nat /\ rx_count \in Nat
  BY <1>0, Sizes DEF CountType, RingTypes
<1> USE Sizes, <1>0
<1>1. CASE Count
  <2>1. CallTypes' /\ TimerTypes'
    BY <1>1 DEF Count, CallTypes, TimerTypes, timing, waits
  <2>2. CountType'
    BY <1>1 DEF Count, hardware, CountType, Timespec, CallTypes
  <2> QED
    BY <2>1, <2>2 DEF OtherTypes
<1>2. CASE TimerInterrupt
  <2>1. CallTypes'
    BY <1>2 DEF TimerInterrupt, CallTypes
  <2>2. CountType'
    BY <1>2 DEF TimerInterrupt, Later, Counted, Passed, hardware, CountType, Timespec, CallTypes
  <2>3. TimerTypes'
    <3>1. clock' \in Timespec /\ mmc' \in Nat /\ tasks' = tasks
      BY <1>2 DEF TimerInterrupt, Later, TimerTypes, Timespec
    <3>2. gpib' \in [down : Nat, done : BOOLEAN]
      <4>1. gpib \in [down : Nat, done : BOOLEAN]
        BY DEF TimerTypes
      <4>2. CASE gpib.down > 0
        <5>1. Counted(gpib) = [gpib EXCEPT !.down = @ - 1] /\ gpib.down - 1 \in Nat
          BY <4>1, <4>2 DEF Counted
        <5> QED
          BY <4>1, <5>1, <1>2 DEF TimerInterrupt
      <4>3. CASE ~(gpib.down > 0)
        <5>1. Counted(gpib) = [gpib EXCEPT !.done = TRUE]
          BY <4>3 DEF Counted
        <5> QED
          BY <4>1, <5>1, <1>2 DEF TimerInterrupt
      <4> QED
        BY <4>2, <4>3
    <3>3. set' \in [time : Timespec, tick : BOOLEAN]
      <4>1. set \in [time : Timespec, tick : BOOLEAN]
        BY DEF TimerTypes
      <4>2. Later(set.time) \in Timespec
        BY <4>1 DEF Later, Timespec
      <4> QED
        BY <1>2, <4>1, <4>2 DEF TimerInterrupt
    <3>4. \A w \in Wait : Passed(w) \in Wait
      <4>1. \A w \in Wait : [w EXCEPT !.ticks = @ + 1] \in Wait
        BY DEF Wait
      <4>2. \A w \in Wait : Passed(w) = w \/ Passed(w) = [w EXCEPT !.ticks = @ + 1]
        BY DEF Passed
      <4> QED
        BY <4>1, <4>2
    <3>5. gpibWait' \in Wait /\ mmcWait' \in Wait
      BY <3>4, <1>2 DEF TimerInterrupt, TimerTypes
    <3> QED
      BY <3>1, <3>2, <3>3, <3>5 DEF TimerTypes
  <2> QED
    BY <2>1, <2>2, <2>3 DEF OtherTypes
<1>3. CASE ReceiveInterrupt
  <2>1. CountType' /\ CallTypes' /\ TimerTypes'
    BY <1>3 DEF ReceiveInterrupt, CountType, CallTypes, TimerTypes, hardware, timing, waits
  <2> QED
    BY <2>1 DEF OtherTypes
<1>4. ASSUME NEW f \in Fields, NEW h \in Halves, WriteHalf(f, h) PROVE OtherTypes'
  <2>1. CountType'
    BY <1>4 DEF WriteHalf, CountType, hardware
  <2>2. CallTypes'
    <3>1. CASE op.halves # {h}
      BY <1>4, <3>1, HalfMoved DEF WriteHalf
    <3>2. CASE op.halves = {h}
      BY <1>4, <3>2, GoneTo DEF WriteHalf, Places
    <3> QED
      BY <3>1, <3>2
  <2>3. TimerTypes'
    BY <1>4, PutType DEF WriteHalf, Goes, Fields, timing, waits, TimerTypes, Timespec, Wait,
       CallTypes
  <2> QED
    BY <2>1, <2>2, <2>3 DEF OtherTypes
<1>5. ASSUME NEW f \in Fields, NEW h \in Halves, CompareHalf(f, h) PROVE OtherTypes'
  <2>1. CountType'
    BY <1>5 DEF CompareHalf, CountType, hardware
  <2>2. CallTypes'
    <3> DEFINE word == Put(op.reg, clock[f], h)
    <3>1. word \in Nat
      BY <1>5, PutType DEF CallTypes, TimerTypes, Timespec, Fields
    <3>2. CASE op.halves # {h}
      BY <1>5, <3>1, <3>2, HalfMoved DEF CompareHalf
    <3>3. CASE op.halves = {h}
      <4>1. Goes("compare sec") \/ Goes("write nsec") \/ Return
        BY <1>5, <3>3 DEF CompareHalf, Compared, Holds, Again
      <4> QED
        BY <4>1, GoneTo, Returned DEF Places
    <3> QED
      BY <3>2, <3>3
  <2>3. TimerTypes'
    <3>1. /\ tasks' = tasks /\ clock' = clock /\ gpib' = gpib /\ mmc' = mmc
          /\ gpibWait' = gpibWait /\ mmcWait' = mmcWait
      BY <1>5 DEF CompareHalf, waits
    <3>2. \/ set' = set \/ set' = [set EXCEPT !.tick = FALSE]
          \/ set' = [set EXCEPT !.time = op.ts]
      <4>1. CASE op.halves # {h}
        BY <1>5, <4>1 DEF CompareHalf
      <4>2. CASE op.halves = {h}
        <5>1. Holds(f) \/ Again
          BY <1>5, <4>2 DEF CompareHalf, Compared
        <5> QED
          BY <5>1, Zenon DEF Holds, Again
      <4> QED
        BY <4>1, <4>2
    <3>3. set' \in [time : Timespec, tick : BOOLEAN]
      <4>1. set \in [time : Timespec, tick : BOOLEAN] /\ op.ts \in Timespec
        BY DEF TimerTypes, CallTypes
      <4> HIDE <1>0
      <4>2. [set EXCEPT !.tick = FALSE] \in [time : Timespec, tick : BOOLEAN]
        BY <4>1
      <4>3. [set EXCEPT !.time = op.ts]
              \in [time : Timespec, tick : BOOLEAN]
        BY <4>1
      <4> QED
        BY <3>2, <4>1, <4>2, <4>3
    <3> QED
      BY <3>1, <3>3 DEF TimerTypes
  <2> QED
    BY <2>1, <2>2, <2>3 DEF OtherTypes
<1>6. CASE ReadClock
  <2>1. CountType' /\ TimerTypes'
    BY <1>6 DEF ReadClock, CountType, TimerTypes, hardware, timing, waits
  <2>2. CallTypes'
    BY <1>6 DEF ReadClock, CallTypes, Timespec, Called, Places, TimerTypes, CountType
  <2> QED
    BY <2>1, <2>2 DEF OtherTypes
<1>7. CASE ReadCount
  <2>1. CountType' /\ TimerTypes'
    BY <1>7 DEF ReadCount, CountType, TimerTypes, hardware, timing, waits
  <2>2. CallTypes'
    BY <1>7, <1>a DEF ReadCount, CallTypes, Places
  <2> QED
    BY <2>1, <2>2 DEF OtherTypes
<1>8. CASE ReadFlag
  <2>1. TimerTypes'
    BY <1>8 DEF ReadFlag, TimerTypes, timing, waits
  <2>2. CountType'
    BY <1>8 DEF ReadFlag, Sei, Return, Idle, Zero, Normal, Overflow, hardware, CountType,
       Timespec, CallTypes
  <2>3. CallTypes'
    BY <1>8 DEF ReadFlag, Sei, Return, Idle, Zero, Normal, Overflow, CallTypes, Timespec,
       Called, Places, TimerTypes, CountType
  <2> QED
    BY <2>1, <2>2, <2>3 DEF OtherTypes
<1>9. ASSUME NEW h \in Halves, WriteTimeout(h) PROVE OtherTypes'
  <2>1. CountType'
    BY <1>9 DEF WriteTimeout, Sei, Return, Idle, Zero, hardware, CountType, Timespec, CallTypes
  <2>2. CallTypes'
    BY <1>9, HalfMoved, Returned DEF WriteTimeout
  <2>3. TimerTypes'
    BY <1>9, PutType DEF WriteTimeout, Sei, Return, Idle, Zero, timing, waits, TimerTypes,
       Timespec, Wait, CallTypes
  <2> QED
    BY <2>1, <2>2, <2>3 DEF OtherTypes
<1>10. ASSUME NEW h \in Halves, ReadTimeout(h) PROVE OtherTypes'
  <2>1. CountType'
    BY <1>10 DEF ReadTimeout, CountType, hardware
  <2>2. CallTypes'
    <3>1. Put(op.reg, mmc, h) \in Nat
      BY <1>10, PutType DEF CallTypes, TimerTypes
    <3> QED
      BY <1>10, <3>1, HalfMoved, Returned DEF ReadTimeout
  <2>3. TimerTypes'
    BY <1>10, PutType DEF ReadTimeout, Return, Idle, Zero, timing, waits, TimerTypes,
       Timespec, Wait, CallTypes
  <2> QED
    BY <2>1, <2>2, <2>3 DEF OtherTypes
<1>11. CASE TakeTail
  <2>1. CountType' /\ TimerTypes'
    BY <1>11 DEF TakeTail, CountType, TimerTypes, hardware, timing, waits
  <2>2. CallTypes'
    <3>1. rx_buf[rx_tail] \in Nat
      BY DEF RingTypes
    <3> QED
      BY <1>11, <3>1, <1>a DEF TakeTail, CallTypes, Places
  <2> QED
    BY <2>1, <2>2 DEF OtherTypes
<1>12. CASE CountTail
  <2>1. TimerTypes'
    BY <1>12 DEF CountTail, TimerTypes, timing, waits
  <2>2. CountType'
    BY <1>12 DEF CountTail, Sei, Return, Idle, Zero, hardware, CountType, Timespec, CallTypes
  <2>3. CallTypes'
    BY <1>12 DEF CountTail, Sei, Return, Idle, Zero, CallTypes, Timespec, Called, Places,
       TimerTypes, CountType
  <2> QED
    BY <2>1, <2>2, <2>3 DEF OtherTypes
<1>13. CASE InstallMmc
  <2>1. CountType' /\ CallTypes'
    BY <1>13 DEF InstallMmc, CountType, CallTypes, hardware
  <2>2. TimerTypes'
    BY <1>13 DEF InstallMmc, timing, waits, TimerTypes, Timespec, Wait, CallTypes
  <2> QED
    BY <2>1, <2>2 DEF OtherTypes
<1>14. CASE InstallGpib
  <2>1. CountType' /\ CallTypes'
    BY <1>14 DEF InstallGpib, CountType, CallTypes, hardware
  <2>2. TimerTypes'
    BY <1>14 DEF InstallGpib, timing, waits, TimerTypes, Timespec, Wait, CallTypes
  <2> QED
    BY <2>1, <2>2 DEF OtherTypes
<1>15. ASSUME NEW t \in Times, ClockSetTime(t) PROVE OtherTypes'
  <2>1. CountType'
    BY <1>15 DEF ClockSetTime, Starts, Calls, CountType, hardware
  <2>2. CallTypes'
    BY <1>15 DEF ClockSetTime, Starts, Calls, Idle, Zero, Nothing, CallTypes, Timespec,
       Called, Places, TimerTypes, CountType
  <2>3. TimerTypes'
    BY <1>15 DEF ClockSetTime, Starts, Calls, Idle, Zero, Nothing, timing, waits,
       TimerTypes, Timespec, Wait, CallTypes
  <2> QED
    BY <2>1, <2>2, <2>3 DEF OtherTypes
<1>16. CASE ClockGetTime
  <2>1. TimerTypes'
    BY <1>16 DEF ClockGetTime, Calls, TimerTypes, timing, waits
  <2>2. CountType'
    BY <1>16 DEF ClockGetTime, Calls, Cli, Idle, Zero, Nothing, hardware, CountType,
       Timespec, CallTypes
  <2>3. CallTypes'
    <3>1. Zero \in Timespec
      BY DEF Zero, Timespec
    <3> QED
      BY <1>16, <1>a, <3>1 DEF ClockGetTime, Idle, CallTypes, Called, Places
  <2> QED
    BY <2>1, <2>2, <2>3 DEF OtherTypes
<1>17. ASSUME NEW w \in Waits, GpibTimeoutSet(w) PROVE OtherTypes'
  <2>1. CountType' /\ CallTypes'
    BY <1>17 DEF GpibTimeoutSet, Calls, CountType, CallTypes, hardware
  <2>2. TimerTypes'
    BY <1>17 DEF GpibTimeoutSet, Calls, Zero, Nothing, timing, waits, TimerTypes, Timespec,
       Wait, CallTypes
  <2> QED
    BY <2>1, <2>2 DEF OtherTypes
<1>18. ASSUME NEW w \in Waits, MmcSetTimeout(w) PROVE OtherTypes'
  <2>1. CountType'
    BY <1>18 DEF MmcSetTimeout, Starts, Calls, Cli, Idle, Zero, Nothing, hardware,
       CountType, Timespec, CallTypes
  <2>2. CallTypes'
    BY <1>18 DEF MmcSetTimeout, Starts, Calls, Cli, Idle, Zero, Nothing, CallTypes,
       Timespec, Called, Places, TimerTypes, CountType
  <2>3. TimerTypes'
    BY <1>18 DEF MmcSetTimeout, Starts, Calls, Cli, Idle, Zero, Nothing, timing, waits,
       TimerTypes, Timespec, Wait, CallTypes
  <2> QED
    BY <2>1, <2>2, <2>3 DEF OtherTypes
<1>19. CASE MmcTestTimeout
  <2>1. CountType' /\ TimerTypes'
    BY <1>19 DEF MmcTestTimeout, Starts, Calls, CountType, TimerTypes, hardware, timing, waits
  <2>2. CallTypes'
    BY <1>19 DEF MmcTestTimeout, Starts, Calls, Idle, Zero, Nothing, CallTypes, Timespec,
       Called, Places, TimerTypes, CountType
  <2> QED
    BY <2>1, <2>2 DEF OtherTypes
<1>20. CASE GetTail
  <2>1. TimerTypes'
    BY <1>20 DEF GetTail, Starts, Calls, TimerTypes, timing, waits
  <2>2. CountType'
    BY <1>20 DEF GetTail, Starts, Calls, Cli, Idle, Zero, Nothing, hardware, CountType,
       Timespec, CallTypes
  <2>3. CallTypes'
    BY <1>20 DEF GetTail, Starts, Calls, Cli, Idle, Zero, Nothing, CallTypes, Timespec,
       Called, Places, TimerTypes, CountType
  <2> QED
    BY <2>1, <2>2, <2>3 DEF OtherTypes
<1>21. CASE UartRxFlush
  <2>1. CountType' /\ CallTypes' /\ TimerTypes'
    BY <1>21 DEF UartRxFlush, Calls, CountType, CallTypes, TimerTypes, hardware, timing, waits
  <2> QED
    BY <2>1 DEF OtherTypes
<1>22. CASE UNCHANGED vars
  BY <1>22 DEF vars, OtherTypes, CountType, CallTypes, TimerTypes, hardware, timing, waits
<1> QED
  BY <1>1, <1>2, <1>3, <1>4, <1>5, <1>6, <1>7, <1>8, <1>9, <1>10, <1>11, <1>12, <1>13, <1>14,
     <1>15, <1>16, <1>17, <1>18, <1>19, <1>20, <1>21, <1>22 DEF Next, Step, Call

-----------------------------------------------------------------------------
(* The ring.  `Taken` is the moment when the tail has moved on and the     *)
(* count has not: the character is in op.n and counts as unread.           *)
Taking == op.do = "uart_get_tail"
Taken == Taking /\ op.at = "count"

TakingInv ==
  Taking => /\ ~irq
            /\ op.at \in {"tail", "count"}
            /\ rx_count >= 1
            /\ op.at = "count" => op.reg = rx_count

RingHolds ==
  /\ Len(stored) = Len(read) + rx_count
  /\ \A i \in 1 .. Len(read) : read[i] = stored[i]
  /\ ~Taken => /\ rx_head = Slot(rx_tail + rx_count)
               /\ \A i \in 0 .. rx_count - 1 :
                    rx_buf[Slot(rx_tail + i)] = stored[Len(read) + 1 + i]
  /\ Taken => /\ rx_head = Slot(rx_tail + (rx_count - 1))
              /\ op.n = stored[Len(read) + 1]
              /\ \A i \in 0 .. rx_count - 2 :
                   rx_buf[Slot(rx_tail + i)] = stored[Len(read) + 2 + i]

InSendingOrder ==
  /\ \A i \in 1 .. Len(stored) : stored[i] <= sent
  /\ \A i, j \in 1 .. Len(stored) : i < j => stored[i] < stored[j]
  /\ lost > 0 <=> rx_error = RX_OVERFLOW

RingInv == RingTypes /\ TakingInv /\ RingHolds /\ InSendingOrder

LEMMA RingInit == Init => RingInv
<1> SUFFICES ASSUME Init PROVE RingInv
  OBVIOUS
<1> USE Sizes DEF Init
<1>1. RingTypes
  BY DEF RingTypes, Slots
<1>2. TakingInv
  BY DEF TakingInv, Taking, Idle
<1>3. RingHolds
  <2>1. ~Taken
    BY DEF Taken, Taking, Idle
  <2>2. Len(stored) = 0 /\ Len(read) = 0 /\ rx_count = 0 /\ rx_head = Slot(rx_tail + rx_count)
    BY DEF Slot
  <2> HIDE DEF Init
  <2> QED
    BY <2>1, <2>2 DEF RingHolds
<1>4. InSendingOrder
  <2>1. lost > 0 <=> rx_error = RX_OVERFLOW
    BY DEF RX_OVERFLOW
  <2>2. Len(stored) = 0
    OBVIOUS
  <2> HIDE DEF Init
  <2> QED
    BY <2>1, <2>2 DEF InSendingOrder
<1> QED
  BY <1>1, <1>2, <1>3, <1>4 DEF RingInv

(* A step that leaves the ring and the log alone: it leaves the call and   *)
(* the flag alone, too, or is no part of uart_get_tail.                    *)
LEMMA RingApart ==
  ASSUME RingInv, serial' = serial, Taking' <=> Taking, Taking => op' = op /\ irq' = irq
  PROVE  RingInv'
<1>1. Taken' <=> Taken
  BY DEF Taken, Taking
<1>2. RingTypes'
  BY DEF RingInv, RingTypes, serial, ring
<1>3. TakingInv'
  BY DEF RingInv, TakingInv, Taking, serial, ring
<1>4. RingHolds'
  BY <1>1 DEF RingInv, RingHolds, Taken, Taking, serial, ring
<1>5. InSendingOrder'
  BY DEF RingInv, InSendingOrder, serial, ring
<1> QED
  BY <1>2, <1>3, <1>4, <1>5 DEF RingInv

LEMMA RingBeside ==
  ASSUME RingInv, serial' = serial, op' = op, irq' = irq PROVE RingInv'
BY RingApart DEF Taking

LEMMA RingAside ==
  ASSUME RingInv, serial' = serial, op.do # "uart_get_tail", op'.do # "uart_get_tail"
  PROVE  RingInv'
BY RingApart DEF Taking

LEMMA RingReceive == RingInv /\ ReceiveInterrupt => RingInv'
<1> SUFFICES ASSUME RingInv, ReceiveInterrupt PROVE RingInv'
  OBVIOUS
<1> USE Sizes
<1>0. RingTypes /\ TakingInv /\ RingHolds /\ InSendingOrder
  BY DEF RingInv
<1>1. /\ ~Taking /\ ~Taken /\ ~Taking' /\ ~Taken'
      /\ irq' = irq /\ read' = read /\ rx_tail' = rx_tail /\ sent' = sent + 1
  BY <1>0 DEF ReceiveInterrupt, TakingInv, hardware, Taken, Taking
<1>2. TakingInv'
  BY <1>1 DEF TakingInv
<1>3. CASE rx_count < RX_BUF_SIZE
  <2>1. /\ rx_buf' = [rx_buf EXCEPT ![rx_head] = sent + 1]
        /\ rx_head' = Wrapped(rx_head) /\ rx_count' = rx_count + 1
        /\ stored' = Append(stored, sent + 1)
        /\ rx_error' = rx_error /\ lost' = lost
    BY <1>3 DEF ReceiveInterrupt
  <2>2. RingTypes'
    BY <1>0, <1>1, <1>3, <2>1 DEF RingTypes, Wrapped, Slots
  <2>3. RingHolds'
    <3>0. /\ stored \in Seq(Nat) /\ read \in Seq(Nat) /\ rx_count \in Nat /\ sent + 1 \in Nat
          /\ Len(stored) = Len(read) + rx_count
      BY <1>0 DEF RingTypes, RingHolds
    <3>1. Len(stored') = Len(read') + rx_count'
      <4>1. Len(stored') = Len(stored) + 1 /\ Len(stored) \in Nat /\ Len(read) \in Nat
        BY <3>0, <2>1
      <4> QED
        BY <4>1, <3>0, <1>1, <2>1
    <3>2. ASSUME NEW i \in 1 .. Len(read') PROVE read'[i] = stored'[i]
      <4>1. i \in 1 .. Len(stored) /\ i \in 1 .. Len(read)
        BY <3>0, <1>1
      <4>2. stored'[i] = stored[i]
        BY <3>0, <4>1, <2>1
      <4> QED
        BY <4>1, <4>2, <1>0, <1>1 DEF RingHolds
    <3>3. rx_head = Slot(rx_tail + rx_count)
      BY <1>0, <1>1 DEF RingHolds
    <3>4. rx_head' = Slot(rx_tail' + rx_count')
      <4>1. rx_tail \in 0 .. RX_BUF_SIZE - 1 /\ rx_count \in 0 .. RX_BUF_SIZE - 1
        BY <1>0, <1>3 DEF RingTypes
      <4>2. Wrapped(Slot(rx_tail + rx_count)) = Slot(rx_tail + (rx_count + 1))
        BY <4>1 DEF Slot, Wrapped
      <4> QED
        BY <4>2, <3>3, <1>1, <2>1
    <3>5. ASSUME NEW i \in 0 .. rx_count' - 1
          PROVE  rx_buf'[Slot(rx_tail' + i)] = stored'[Len(read') + 1 + i]
      <4>1. CASE i = rx_count
        <5>1. rx_buf'[Slot(rx_tail' + i)] = sent + 1
          BY <4>1, <1>0, <1>1, <2>1, <3>3 DEF RingTypes
        <5>2. Len(read') + 1 + i = Len(stored) + 1
          BY <4>1, <1>0, <1>1 DEF RingHolds, RingTypes
        <5> QED
          BY <5>1, <5>2, <1>0, <2>1 DEF RingTypes
      <4>2. CASE i # rx_count
        <5>1. i \in 0 .. rx_count - 1
          BY <4>2, <2>1, <1>0 DEF RingTypes
        <5>2. Slot(rx_tail + i) \in Slots /\ Slot(rx_tail + i) # rx_head
          BY <5>1, <1>0, <1>3, <3>3 DEF Slot, Slots, RingTypes
        <5>3. rx_buf[Slot(rx_tail + i)] = stored[Len(read) + 1 + i]
          BY <5>1, <1>0, <1>1 DEF RingHolds
        <5>4. Len(read) + 1 + i \in 1 .. Len(stored)
          BY <5>1, <1>0 DEF RingHolds, RingTypes
        <5> QED
          BY <5>2, <5>3, <5>4, <1>0, <1>1, <2>1 DEF RingTypes
      <4> QED
        BY <4>1, <4>2
    <3> QED
      BY <1>1, <3>1, <3>2, <3>4, <3>5 DEF RingHolds
  <2>4. InSendingOrder'
    <3>1. /\ Len(stored') = Len(stored) + 1 /\ stored'[Len(stored) + 1] = sent + 1
          /\ \A i \in 1 .. Len(stored) : stored'[i] = stored[i] /\ stored[i] \in Nat
          /\ Len(stored) \in Nat /\ sent \in Nat
      <4>1. stored \in Seq(Nat) /\ sent \in Nat /\ sent + 1 \in Nat
        BY <1>0 DEF RingTypes
      <4> QED
        BY <4>1, <2>1
    <3>2. \A i \in 1 .. Len(stored) : stored[i] < sent + 1
      BY <1>0, <3>1 DEF InSendingOrder
    <3>3. \A i \in 1 .. Len(stored') : stored'[i] <= sent'
      BY <1>1, <3>1, <3>2
    <3>4. \A i, j \in 1 .. Len(stored') : i < j => stored'[i] < stored'[j]
      BY <1>0, <3>1, <3>2 DEF InSendingOrder
    <3>5. lost' > 0 <=> rx_error' = RX_OVERFLOW
      BY <1>0, <2>1 DEF InSendingOrder
    <3> QED
      BY <3>3, <3>4, <3>5 DEF InSendingOrder
  <2> QED
    BY <1>2, <2>2, <2>3, <2>4 DEF RingInv
<1>4. CASE ~(rx_count < RX_BUF_SIZE)
  <2>1. /\ rx_error' = RX_OVERFLOW /\ lost' = lost + 1
        /\ rx_buf' = rx_buf /\ rx_head' = rx_head /\ rx_count' = rx_count /\ stored' = stored
    BY <1>4 DEF ReceiveInterrupt
  <2>2. RingTypes'
    BY <1>0, <1>1, <2>1 DEF RingTypes
  <2>3. RingHolds'
    BY <1>0, <1>1, <2>1 DEF RingHolds
  <2>4. InSendingOrder'
    BY <1>0, <1>1, <2>1 DEF InSendingOrder, RingTypes
  <2> QED
    BY <1>2, <2>2, <2>3, <2>4 DEF RingInv
<1> QED
  BY <1>3, <1>4

LEMMA RingGetTail == RingInv /\ GetTail => RingInv'
<1> SUFFICES ASSUME RingInv, GetTail PROVE RingInv'
  OBVIOUS
<1> USE Sizes
<1>0. RingTypes /\ TakingInv /\ RingHolds /\ InSendingOrder
  BY DEF RingInv
<1>1. /\ op.do = "none" /\ op' = [Idle EXCEPT !.do = "uart_get_tail", !.at = "tail"]
      /\ rx_count >= 1 /\ irq' = FALSE /\ serial' = serial
  BY DEF GetTail, Starts, Calls, Cli
<1>2. /\ ~Taken /\ ~Taken' /\ op'.at = "tail"
      /\ rx_head' = rx_head /\ rx_tail' = rx_tail /\ rx_count' = rx_count
      /\ rx_buf' = rx_buf /\ rx_error' = rx_error
      /\ sent' = sent /\ stored' = stored /\ read' = read /\ lost' = lost
  BY <1>1 DEF Taken, Taking, Idle, serial, ring
<1>3. RingTypes'
  BY <1>0, <1>1, <1>2 DEF RingTypes
<1>4. TakingInv'
  BY <1>1, <1>2 DEF TakingInv
<1>5. RingHolds'
  BY <1>0, <1>2 DEF RingHolds
<1>6. InSendingOrder'
  BY <1>0, <1>2 DEF InSendingOrder
<1> QED
  BY <1>3, <1>4, <1>5, <1>6 DEF RingInv

LEMMA RingTakeTail == CallTypes /\ RingInv /\ TakeTail => RingInv'
<1> SUFFICES ASSUME CallTypes, RingInv, TakeTail PROVE RingInv'
  OBVIOUS
<1> USE Sizes
<1>0. RingTypes /\ TakingInv /\ RingHolds /\ InSendingOrder
  BY DEF RingInv
<1>1. /\ Taking /\ op.at = "tail"
      /\ op'.do = op.do /\ op'.at = "count" /\ op'.n = rx_buf[rx_tail] /\ op'.reg = rx_count
      /\ rx_tail' = Wrapped(rx_tail) /\ irq' = irq
      /\ rx_head' = rx_head /\ rx_count' = rx_count /\ rx_buf' = rx_buf /\ rx_error' = rx_error
      /\ sent' = sent /\ stored' = stored /\ read' = read /\ lost' = lost
  BY DEF TakeTail, At, Taking, hardware, CallTypes
<1>2. ~Taken /\ Taken' /\ Taking' /\ ~irq /\ rx_count >= 1
  BY <1>0, <1>1 DEF Taken, Taking, TakingInv
<1>3. RingTypes'
  BY <1>0, <1>1 DEF RingTypes, Wrapped, Slots
<1>4. TakingInv'
  BY <1>1, <1>2 DEF TakingInv
<1>5. RingHolds'
  <2>1. rx_head = Slot(rx_tail + rx_count)
    BY <1>0, <1>2 DEF RingHolds
  <2>2. rx_head' = Slot(rx_tail' + (rx_count' - 1))
    <3>1. /\ rx_tail \in 0 .. RX_BUF_SIZE - 1 /\ rx_count \in 1 .. RX_BUF_SIZE
          /\ rx_tail' = IF rx_tail + 1 >= RX_BUF_SIZE THEN 0 ELSE rx_tail + 1
      BY <1>0, <1>1, <1>2 DEF RingTypes, Wrapped
    <3>2. Slot(rx_tail + rx_count) = Slot(rx_tail' + (rx_count - 1))
      BY <3>1 DEF Slot
    <3> QED
      BY <2>1, <3>2, <1>1
  <2>3. op'.n = stored'[Len(read') + 1]
    <3>0. 0 \in 0 .. rx_count - 1
      BY <1>0, <1>2 DEF RingTypes
    <3>1. rx_buf[Slot(rx_tail + 0)] = stored[Len(read) + 1 + 0]
      BY <3>0, <1>0, <1>2 DEF RingHolds
    <3>2. Slot(rx_tail + 0) = rx_tail /\ Len(read) + 1 + 0 = Len(read) + 1
      BY <1>0 DEF Slot, Slots, RingTypes
    <3> QED
      BY <3>1, <3>2, <1>1
  <2>4. ASSUME NEW i \in 0 .. rx_count' - 2
        PROVE  rx_buf'[Slot(rx_tail' + i)] = stored'[Len(read') + 2 + i]
    <3>1. i + 1 \in 0 .. rx_count - 1 /\ i \in Nat
      BY <1>0, <1>1 DEF RingTypes
    <3>2. rx_buf[Slot(rx_tail + (i + 1))] = stored[Len(read) + 1 + (i + 1)]
      BY <3>1, <1>0, <1>2 DEF RingHolds
    <3>3. Slot(rx_tail' + i) = Slot(rx_tail + (i + 1))
      BY <3>1, <1>0, <1>1 DEF Slot, Wrapped, Slots, RingTypes
    <3>4. Len(read) + 1 + (i + 1) = Len(read') + 2 + i
      BY <3>1, <1>0, <1>1 DEF RingTypes
    <3> QED
      BY <3>2, <3>3, <3>4, <1>1
  <2> QED
    BY <1>0, <1>1, <1>2, <2>2, <2>3, <2>4 DEF RingHolds
<1>6. InSendingOrder'
  BY <1>0, <1>1 DEF InSendingOrder
<1> QED
  BY <1>3, <1>4, <1>5, <1>6 DEF RingInv

LEMMA RingCountTail == RingInv /\ CountTail => RingInv'
<1> SUFFICES ASSUME RingInv, CountTail PROVE RingInv'
  OBVIOUS
<1> USE Sizes
<1>0. RingTypes /\ TakingInv /\ RingHolds /\ InSendingOrder
  BY DEF RingInv
<1>1. /\ Taken /\ op' = Idle /\ irq' = TRUE
      /\ rx_count' = op.reg - 1 /\ read' = Append(read, op.n)
      /\ rx_head' = rx_head /\ rx_tail' = rx_tail /\ rx_buf' = rx_buf /\ rx_error' = rx_error
      /\ sent' = sent /\ stored' = stored /\ lost' = lost
  BY DEF CountTail, At, Taken, Taking, Sei, Return
<1>2. /\ ~Taking' /\ ~Taken' /\ op.reg = rx_count /\ rx_count >= 1
      /\ op.n = stored[Len(read) + 1] /\ rx_head = Slot(rx_tail + (rx_count - 1))
  BY <1>0, <1>1 DEF Taken, Taking, TakingInv, Idle, RingHolds
<1>3. op.n \in Nat /\ Len(read) + 1 \in 1 .. Len(stored)
  BY <1>0, <1>2 DEF RingHolds, RingTypes
<1>4. RingTypes'
  BY <1>0, <1>1, <1>2, <1>3 DEF RingTypes
<1>5. TakingInv'
  BY <1>2 DEF TakingInv
<1>6. RingHolds'
  <2>0. /\ Len(read') = Len(read) + 1 /\ rx_count' = rx_count - 1
        /\ Len(read) \in Nat /\ rx_count \in Nat
    BY <1>0, <1>1, <1>2, <1>3 DEF RingTypes
  <2>1. Len(stored') = Len(read') + rx_count'
    <3>1. Len(stored) = Len(read) + rx_count
      BY <1>0 DEF RingHolds
    <3> QED
      BY <3>1, <2>0, <1>1
  <2>2. ASSUME NEW i \in 1 .. Len(read') PROVE read'[i] = stored'[i]
    <3>1. CASE i = Len(read) + 1
      BY <3>1, <1>0, <1>1, <1>2, <1>3 DEF RingTypes
    <3>2. CASE i # Len(read) + 1
      <4>1. i \in 1 .. Len(read)
        BY <3>2, <2>0
      <4>2. read'[i] = read[i]
        BY <4>1, <1>0, <1>1, <1>3 DEF RingTypes
      <4> QED
        BY <4>1, <4>2, <1>0, <1>1 DEF RingHolds
    <3> QED
      BY <3>1, <3>2
  <2>3. ASSUME NEW i \in 0 .. rx_count' - 1
        PROVE  rx_buf'[Slot(rx_tail' + i)] = stored'[Len(read') + 1 + i]
    <3>1. i \in 0 .. rx_count - 2
      BY <1>0, <1>1, <1>2 DEF RingTypes
    <3>2. rx_buf[Slot(rx_tail + i)] = stored[Len(read) + 2 + i]
      BY <3>1, <1>0, <1>1 DEF RingHolds
    <3> QED
      BY <3>1, <3>2, <2>0, <1>0, <1>1 DEF RingTypes
  <2> QED
    BY <1>1, <1>2, <2>1, <2>2, <2>3 DEF RingHolds
<1>7. InSendingOrder'
  BY <1>0, <1>1 DEF InSendingOrder
<1> QED
  BY <1>4, <1>5, <1>6, <1>7 DEF RingInv

LEMMA RingFlush == RingInv /\ UartRxFlush => RingInv'
<1> SUFFICES ASSUME RingInv, UartRxFlush PROVE RingInv'
  OBVIOUS
<1> USE Sizes
<1>0. RingTypes
  BY DEF RingInv
<1>1. /\ op.do = "none" /\ op' = op /\ irq' = irq
      /\ rx_head' = 0 /\ rx_tail' = 0 /\ rx_count' = 0 /\ rx_error' = 0
      /\ stored' = <<>> /\ read' = <<>> /\ lost' = 0 /\ rx_buf' = rx_buf /\ sent' = sent
  BY DEF UartRxFlush, Calls, hardware
<1>2. ~Taking' /\ ~Taken'
  BY <1>1 DEF Taken, Taking
<1>3. RingTypes'
  BY <1>0, <1>1 DEF RingTypes, Slots
<1>4. TakingInv'
  BY <1>2 DEF TakingInv
<1>5. RingHolds'
  BY <1>1, <1>2 DEF RingHolds, Slot
<1>6. InSendingOrder'
  <2>1. Len(stored') = 0
    BY <1>1
  <2>2. lost' > 0 <=> rx_error' = RX_OVERFLOW
    BY <1>1 DEF RX_OVERFLOW
  <2> QED
    BY <2>1, <2>2 DEF InSendingOrder
<1> QED
  BY <1>3, <1>4, <1>5, <1>6 DEF RingInv

LEMMA SeqEqual ==
  ASSUME NEW s \in Seq(Nat), NEW t \in Seq(Nat), Len(s) = Len(t),
         \A i \in 1 .. Len(t) : s[i] = t[i]
  PROVE  s = t
OBVIOUS

LEMMA RingStep == OtherTypes /\ RingInv /\ [Next]_vars => RingInv'
<1> SUFFICES ASSUME OtherTypes, RingInv, [Next]_vars PROVE RingInv'
  OBVIOUS
<1>0. CallTypes
  BY DEF OtherTypes
<1>1. CASE Count
  <2>1. serial' = serial
    BY <1>1 DEF Count
  <2>2. op' = op /\ irq' = irq
    BY <1>1 DEF Count, hardware
  <2> QED
    BY <2>1, <2>2, RingBeside
<1>2. CASE TimerInterrupt
  <2>1. serial' = serial
    BY <1>2 DEF TimerInterrupt
  <2>2. op' = op /\ irq' = irq
    BY <1>2 DEF TimerInterrupt, hardware
  <2> QED
    BY <2>1, <2>2, RingBeside
<1>3. CASE ReceiveInterrupt
  BY <1>3, <1>0, RingReceive
<1>4. ASSUME NEW f \in Fields, NEW h \in Halves, WriteHalf(f, h) PROVE RingInv'
  <2>1. serial' = serial
    BY <1>4 DEF WriteHalf
  <2>2. op.do # "uart_get_tail" /\ op'.do # "uart_get_tail"
    BY <1>4, <1>0 DEF WriteHalf, At, Goes, CallTypes
  <2> QED
    BY <2>1, <2>2, RingAside
<1>5. ASSUME NEW f \in Fields, NEW h \in Halves, CompareHalf(f, h) PROVE RingInv'
  <2>1. serial' = serial
    BY <1>5 DEF CompareHalf
  <2>2. op.do # "uart_get_tail" /\ op'.do # "uart_get_tail"
    <3>1. op.do = "clock_settime"
      BY <1>5 DEF CompareHalf, At
    <3>2. CASE op.halves # {h}
      BY <1>5, <1>0, <3>1, <3>2 DEF CompareHalf, CallTypes
    <3>3. CASE op.halves = {h}
      <4>1. op' = Idle \/ Goes("compare sec") \/ Goes("write nsec")
        BY <1>5, <3>3 DEF CompareHalf, Compared, Holds, Again, Return
      <4> QED
        <5>1. ASSUME NEW at, Goes(at) PROVE op'.do = op.do
          BY <5>1, <1>0 DEF Goes, CallTypes
        <5>2. op' = Idle => op'.do = "none"
          BY DEF Idle
        <5> QED
          BY <4>1, <5>1, <5>2, <3>1
    <3> QED
      BY <3>2, <3>3
  <2> QED
    BY <2>1, <2>2, RingAside
<1>6. CASE ReadClock
  <2>1. serial' = serial
    BY <1>6 DEF ReadClock
  <2>2. op.do # "uart_get_tail" /\ op'.do # "uart_get_tail"
    BY <1>6, <1>0 DEF ReadClock, At, CallTypes
  <2> QED
    BY <2>1, <2>2, RingAside
<1>7. CASE ReadCount
  <2>1. serial' = serial
    BY <1>7 DEF ReadCount
  <2>2. op.do # "uart_get_tail" /\ op'.do # "uart_get_tail"
    BY <1>7, <1>0 DEF ReadCount, At, CallTypes
  <2> QED
    BY <2>1, <2>2, RingAside
<1>8. CASE ReadFlag
  <2>1. serial' = serial
    BY <1>8 DEF ReadFlag
  <2>2. op.do # "uart_get_tail" /\ op'.do # "uart_get_tail"
    BY <1>8, <1>0 DEF ReadFlag, At, Return, Idle, CallTypes
  <2> QED
    BY <2>1, <2>2, RingAside
<1>9. ASSUME NEW h \in Halves, WriteTimeout(h) PROVE RingInv'
  <2>1. serial' = serial
    BY <1>9 DEF WriteTimeout
  <2>2. op.do # "uart_get_tail" /\ op'.do # "uart_get_tail"
    BY <1>9, <1>0 DEF WriteTimeout, At, Return, Idle, Sei, CallTypes
  <2> QED
    BY <2>1, <2>2, RingAside
<1>10. ASSUME NEW h \in Halves, ReadTimeout(h) PROVE RingInv'
  <2>1. serial' = serial
    BY <1>10 DEF ReadTimeout
  <2>2. op.do # "uart_get_tail" /\ op'.do # "uart_get_tail"
    <3>1. op.do = "mmc_test_timeout"
      BY <1>10 DEF ReadTimeout, At
    <3>2. CASE op.halves # {h}
      BY <1>10, <1>0, <3>1, <3>2 DEF ReadTimeout, CallTypes
    <3>3. CASE op.halves = {h}
      BY <1>10, <3>1, <3>3 DEF ReadTimeout, Return, Idle
    <3> QED
      BY <3>2, <3>3
  <2> QED
    BY <2>1, <2>2, RingAside
<1>11. CASE TakeTail
  BY <1>11, <1>0, RingTakeTail
<1>12. CASE CountTail
  BY <1>12, <1>0, RingCountTail
<1>13. CASE InstallMmc
  <2>1. serial' = serial
    BY <1>13 DEF InstallMmc
  <2>2. op' = op /\ irq' = irq
    BY <1>13 DEF InstallMmc, hardware
  <2> QED
    BY <2>1, <2>2, RingBeside
<1>14. CASE InstallGpib
  <2>1. serial' = serial
    BY <1>14 DEF InstallGpib
  <2>2. op' = op /\ irq' = irq
    BY <1>14 DEF InstallGpib, hardware
  <2> QED
    BY <2>1, <2>2, RingBeside
<1>15. ASSUME NEW t \in Times, ClockSetTime(t) PROVE RingInv'
  <2>1. serial' = serial
    BY <1>15 DEF ClockSetTime
  <2>2. op.do # "uart_get_tail" /\ op'.do # "uart_get_tail"
    BY <1>15, <1>0 DEF ClockSetTime, Starts, Calls, Idle, CallTypes
  <2> QED
    BY <2>1, <2>2, RingAside
<1>16. CASE ClockGetTime
  <2>1. serial' = serial
    BY <1>16 DEF ClockGetTime
  <2>2. op.do # "uart_get_tail" /\ op'.do # "uart_get_tail"
    BY <1>16, <1>0 DEF ClockGetTime, Calls, Idle, CallTypes
  <2> QED
    BY <2>1, <2>2, RingAside
<1>17. ASSUME NEW w \in Waits, GpibTimeoutSet(w) PROVE RingInv'
  <2>1. serial' = serial
    BY <1>17 DEF GpibTimeoutSet
  <2>2. op' = op /\ irq' = irq
    BY <1>17 DEF GpibTimeoutSet, hardware
  <2> QED
    BY <2>1, <2>2, RingBeside
<1>18. ASSUME NEW w \in Waits, MmcSetTimeout(w) PROVE RingInv'
  <2>1. serial' = serial
    BY <1>18 DEF MmcSetTimeout
  <2>2. op.do # "uart_get_tail" /\ op'.do # "uart_get_tail"
    BY <1>18, <1>0 DEF MmcSetTimeout, Starts, Calls, Idle, CallTypes
  <2> QED
    BY <2>1, <2>2, RingAside
<1>19. CASE MmcTestTimeout
  <2>1. serial' = serial
    BY <1>19 DEF MmcTestTimeout
  <2>2. op.do # "uart_get_tail" /\ op'.do # "uart_get_tail"
    BY <1>19, <1>0 DEF MmcTestTimeout, Starts, Calls, Idle, CallTypes
  <2> QED
    BY <2>1, <2>2, RingAside
<1>20. CASE GetTail
  BY <1>20, <1>0, RingGetTail
<1>21. CASE UartRxFlush
  BY <1>21, <1>0, RingFlush
<1>22. CASE UNCHANGED vars
  <2>1. serial' = serial /\ op' = op /\ irq' = irq
    BY <1>22 DEF vars, hardware
  <2> QED
    BY <2>1, RingBeside
<1> QED
  BY <1>1, <1>2, <1>3, <1>4, <1>5, <1>6, <1>7, <1>8, <1>9, <1>10, <1>11, <1>12, <1>13, <1>14,
     <1>15, <1>16, <1>17, <1>18, <1>19, <1>20, <1>21, <1>22 DEF Next, Step, Call

LEMMA RingGivesOrder == RingInv => RingInOrder
<1> SUFFICES ASSUME RingInv, op.do # "uart_get_tail"
             PROVE  /\ read \o InRing = stored
                    /\ \A i, j \in DOMAIN stored : i < j => stored[i] < stored[j]
                    /\ lost > 0 <=> rx_error = RX_OVERFLOW
  BY DEF RingInOrder
<1> USE Sizes
<1>0. RingTypes /\ RingHolds /\ InSendingOrder /\ ~Taken
  BY DEF RingInv, Taken, Taking
<1>1. InRing \in Seq(Nat) /\ Len(InRing) = rx_count
  <2>1. \A i \in 1 .. rx_count : Slot(rx_tail + i - 1) \in 0 .. RX_BUF_SIZE - 1
    BY <1>0 DEF Slot, RingTypes
  <2>2. \A i \in 1 .. rx_count : rx_buf[Slot(rx_tail + i - 1)] \in Nat
    BY <2>1, <1>0 DEF RingTypes
  <2>3. rx_count \in Nat
    BY <1>0 DEF RingTypes
  <2> QED
    BY <2>2, <2>3 DEF InRing
<1>2. /\ read \in Seq(Nat) /\ stored \in Seq(Nat)
      /\ Len(stored) = Len(read) + rx_count /\ rx_count \in Nat /\ Len(read) \in Nat
  BY <1>0 DEF RingTypes, RingHolds
<1>3. read \o InRing \in Seq(Nat) /\ Len(read \o InRing) = Len(stored)
  BY <1>1, <1>2
<1>4. ASSUME NEW i \in 1 .. Len(stored) PROVE (read \o InRing)[i] = stored[i]
  <2>1. CASE i <= Len(read)
    <3>1. (read \o InRing)[i] = read[i]
      BY <2>1, <1>1, <1>2
    <3>2. read[i] = stored[i]
      BY <2>1, <1>0, <1>2 DEF RingHolds
    <3> QED
      BY <3>1, <3>2
  <2>2. CASE i > Len(read)
    <3> DEFINE j == i - Len(read) - 1
    <3>1. j \in 0 .. rx_count - 1 /\ j + 1 \in 1 .. rx_count /\ i = Len(read) + 1 + j
      BY <2>2, <1>2
    <3>2. (read \o InRing)[i] = InRing[j + 1]
      BY <2>2, <3>1, <1>1, <1>2
    <3>3. InRing[j + 1] = rx_buf[Slot(rx_tail + (j + 1) - 1)]
      BY <3>1 DEF InRing
    <3>4. rx_tail + (j + 1) - 1 = rx_tail + j
      BY <3>1, <1>0 DEF RingTypes
    <3>5. rx_buf[Slot(rx_tail + j)] = stored[Len(read) + 1 + j]
      BY <3>1, <1>0 DEF RingHolds
    <3> QED
      BY <3>1, <3>2, <3>3, <3>4, <3>5
  <2>3. i <= Len(read) \/ i > Len(read)
    BY <1>2
  <2> QED
    BY <2>1, <2>2, <2>3
<1>5. read \o InRing = stored
  <2>1. Len(read \o InRing) = Len(stored)
        /\ \A i \in 1 .. Len(stored) : (read \o InRing)[i] = stored[i]
    BY <1>3, <1>4
  <2> HIDE <1>1, <1>4
  <2> QED
    BY <2>1, <1>2, <1>3, SeqEqual
<1>6. DOMAIN stored = 1 .. Len(stored)
  BY <1>2
<1> QED
  BY <1>0, <1>5, <1>6 DEF InSendingOrder

(* The console's characters come in order, whatever the size of the ring   *)
(* and however many interrupts come: uart_rx_interrupt and uart_get_tail.  *)
THEOREM ConsoleInOrder == Spec => []RingInOrder
<1>1. Init => OtherTypes /\ RingInv
  BY TypesInit, RingInit
<1>2. OtherTypes /\ RingInv /\ [Next]_vars => (OtherTypes /\ RingInv)'
  <2>1. RingInv => RingTypes
    BY DEF RingInv
  <2> QED
    BY <2>1, TypesStep, RingStep
<1>3. OtherTypes /\ RingInv => RingInOrder
  BY RingGivesOrder
<1> QED
  BY <1>1, <1>2, <1>3, PTL DEF Spec

-----------------------------------------------------------------------------
(* Words: made of their halves, and moved half by half.                    *)
LEMMA HalvesMake ==
  ASSUME NEW x \in Nat
  PROVE  /\ x = HalfWord * Half(x, "hi") + Half(x, "lo")
         /\ Half(x, "hi") \in Nat /\ Half(x, "lo") \in 0 .. HalfWord - 1
BY Sizes DEF Half

LEMMA HalvesOf ==
  ASSUME NEW a \in Nat, NEW b \in 0 .. HalfWord - 1
  PROVE  Half(HalfWord * a + b, "hi") = a /\ Half(HalfWord * a + b, "lo") = b
<1>1. HalfWord * a + b \in Nat
  BY Sizes
<1>2. (HalfWord * a + b) \div HalfWord = a
  BY <1>1, Sizes
<1>3. (HalfWord * a + b) % HalfWord = b
  BY <1>1, Sizes
<1> QED
  BY <1>2, <1>3 DEF Half

LEMMA PutMoves ==
  ASSUME NEW x \in Nat, NEW y \in Nat, NEW h \in Halves
  PROVE  Half(Put(x, y, h), h) = Half(y, h)
<1>1. CASE h = "lo"
  BY <1>1, HalvesMake, HalvesOf DEF Put
<1>2. CASE h = "hi"
  BY <1>2, HalvesMake, HalvesOf DEF Put
<1> QED
  BY <1>1, <1>2 DEF Halves

LEMMA PutKeeps ==
  ASSUME NEW x \in Nat, NEW y \in Nat, NEW h \in Halves, NEW g \in Halves \ {h}
  PROVE  Half(Put(x, y, h), g) = Half(x, g)
<1>1. CASE h = "lo"
  BY <1>1, HalvesMake, HalvesOf DEF Put, Halves
<1>2. CASE h = "hi"
  BY <1>2, HalvesMake, HalvesOf DEF Put, Halves
<1> QED
  BY <1>1, <1>2 DEF Halves

LEMMA PutCompletes ==
  ASSUME NEW x \in Nat, NEW y \in Nat, NEW h \in Halves,
         \A g \in Halves \ {h} : Half(x, g) = Half(y, g)
  PROVE  Put(x, y, h) = y
<1>1. CASE h = "lo"
  <2>1. Half(x, "hi") = Half(y, "hi")
    BY <1>1 DEF Halves
  <2> QED
    BY <1>1, <2>1, HalvesMake DEF Put
<1>2. CASE h = "hi"
  <2>1. Half(x, "lo") = Half(y, "lo")
    BY <1>2 DEF Halves
  <2> QED
    BY <1>2, <2>1, HalvesMake DEF Put
<1> QED
  BY <1>1, <1>2 DEF Halves

-----------------------------------------------------------------------------
(* The time-out of the bus: what is left and what has passed is the time   *)
(* asked for until gpib_timer_task says so.                                *)
GpibInv ==
  ~gpibWait.over =>
    /\ "gpib_timer_task" \in tasks
    /\ gpib.done => gpibWait.ticks > gpibWait.for
    /\ ~gpib.done => gpib.down + gpibWait.ticks = gpibWait.for

LEMMA GpibApart ==
  ASSUME GpibInv, gpibWait' = gpibWait, gpib' = gpib, tasks \subseteq tasks'
  PROVE  GpibInv'
BY DEF GpibInv

LEMMA GpibTick == TimerTypes /\ GpibInv /\ TimerInterrupt => GpibInv'
<1> SUFFICES ASSUME TimerTypes, GpibInv, TimerInterrupt, ~gpibWait'.over
             PROVE  /\ "gpib_timer_task" \in tasks'
                    /\ gpib'.done => gpibWait'.ticks > gpibWait'.for
                    /\ ~gpib'.done => gpib'.down + gpibWait'.ticks = gpibWait'.for
  BY DEF GpibInv
<1>0. gpib \in [down : Nat, done : BOOLEAN] /\ gpibWait \in Wait
  BY DEF TimerTypes
<1>1. ~gpibWait.over
  BY <1>0 DEF TimerInterrupt, Passed, Wait
<1>2. /\ "gpib_timer_task" \in tasks /\ tasks' = tasks
      /\ gpib' = Counted(gpib) /\ gpibWait' = [gpibWait EXCEPT !.ticks = @ + 1]
  BY <1>1 DEF GpibInv, TimerInterrupt, Passed
<1>3. gpibWait'.ticks = gpibWait.ticks + 1 /\ gpibWait'.for = gpibWait.for
      /\ gpibWait.ticks \in Nat /\ gpibWait.for \in Nat
  BY <1>0, <1>2 DEF Wait
<1>4. CASE gpib.down > 0
  <2>1. gpib' = [gpib EXCEPT !.down = @ - 1]
    BY <1>2, <1>4 DEF Counted
  <2>2. gpib'.down = gpib.down - 1 /\ gpib'.done = gpib.done /\ gpib.down \in Nat
    BY <2>1, <1>0
  <2> QED
    BY <1>1, <1>2, <1>3, <2>2 DEF GpibInv
<1>5. CASE ~(gpib.down > 0)
  <2>1. gpib' = [gpib EXCEPT !.done = TRUE]
    BY <1>2, <1>5 DEF Counted
  <2>2. gpib'.done /\ gpib.down = 0
    BY <2>1, <1>0, <1>5
  <2> QED
    BY <1>1, <1>2, <1>3, <2>2 DEF GpibInv
<1> QED
  BY <1>4, <1>5

-----------------------------------------------------------------------------
(* The time-out of the card: what is left and what has passed is at least  *)
(* the time asked for, once the word is written.                           *)
Setting == op.do = "mmc_set_ms_timeout"
Testing == op.do = "mmc_test_timeout"

MmcInv ==
  /\ mmcWait.over => mmcWait.ticks >= mmcWait.for
  /\ ~mmcWait.over => "mmc_task" \in tasks
  /\ ~mmcWait.over /\ ~Setting => mmc + mmcWait.ticks >= mmcWait.for
  /\ Setting => /\ ~irq /\ ~mmcWait.over /\ mmcWait.for = op.n /\ mmcWait.ticks = 0
                /\ \A h \in Halves \ op.halves : Half(mmc, h) = Half(op.n, h)
  /\ Testing => /\ ~mmcWait.over /\ op.halves # {}
                /\ \A h \in Halves \ op.halves : Half(op.reg, h) = Half(mmc, h)

(* A step that touches neither the time-out nor a call about it.           *)
LEMMA MmcApart ==
  ASSUME MmcInv, mmc' = mmc, mmcWait' = mmcWait, tasks \subseteq tasks',
         Setting' <=> Setting, Testing' <=> Testing,
         Setting \/ Testing => op' = op /\ irq' = irq
  PROVE  MmcInv'
<1>1. CASE Setting
  <2>1. Setting' /\ op' = op /\ irq' = irq
    BY <1>1
  <2> QED
    BY <1>1, <2>1 DEF MmcInv, Testing, Setting
<1>2. CASE ~Setting
  BY <1>2 DEF MmcInv
<1> QED
  BY <1>1, <1>2

LEMMA MmcBeside ==
  ASSUME MmcInv, mmc' = mmc, mmcWait' = mmcWait, tasks \subseteq tasks', op' = op, irq' = irq
  PROVE  MmcInv'
BY MmcApart DEF Setting, Testing

Others == {"none", "clock_settime", "clock_gettime", "uart_get_tail"}
LEMMA MmcAside ==
  ASSUME MmcInv, mmc' = mmc, mmcWait' = mmcWait, tasks \subseteq tasks',
         op.do \in Others, op'.do \in Others
  PROVE  MmcInv'
BY MmcApart DEF Setting, Testing, Others

(* No tick comes while the word is written, nor between the two halves it  *)
(* is read in.                                                             *)
LEMMA MmcTick ==
  ~Torn /\ OtherTypes /\ MmcInv /\ TimerInterrupt => MmcInv'
<1> SUFFICES ASSUME ~Torn, OtherTypes, MmcInv, TimerInterrupt PROVE MmcInv'
  OBVIOUS
<1>0. mmc \in Nat /\ mmcWait \in Wait /\ op.halves \subseteq Halves
  BY DEF OtherTypes, TimerTypes, CallTypes
<1>1. ~Setting /\ ~Setting' /\ (Testing' <=> Testing) /\ op' = op /\ tasks' = tasks
  BY DEF TimerInterrupt, MmcInv, Setting, Testing
<1>2. Testing => op.halves = Halves
  <2>1. \A h : Cardinality({h}) = 1
    BY FS_Singleton
  <2>2. Testing => \A h : op.halves # {h}
    BY <2>1 DEF TimerInterrupt, BetweenHalves, Testing
  <2>3. Testing => op.halves # {}
    BY DEF MmcInv
  <2>4. \A s \in SUBSET Halves : s = {} \/ s = Halves \/ \E h : s = {h}
    BY DEF Halves
  <2> QED
    BY <2>2, <2>3, <2>4, <1>0
<1>3. CASE mmcWait.over
  <2>1. mmcWait' = mmcWait
    BY <1>3 DEF TimerInterrupt, Passed
  <2> QED
    BY <1>1, <1>3, <2>1 DEF MmcInv
<1>4. CASE ~mmcWait.over
  <2>1. "mmc_task" \in tasks /\ mmcWait' = [mmcWait EXCEPT !.ticks = @ + 1]
    BY <1>4 DEF MmcInv, TimerInterrupt, Passed
  <2>2. mmcWait'.ticks = mmcWait.ticks + 1 /\ mmcWait'.for = mmcWait.for
        /\ mmcWait'.over = mmcWait.over /\ mmcWait.ticks \in Nat /\ mmcWait.for \in Nat
    BY <2>1, <1>0 DEF Wait
  <2>3. mmc' = IF mmc > 0 THEN mmc - 1 ELSE mmc
    BY <2>1 DEF TimerInterrupt
  <2>4. mmc' + mmcWait'.ticks >= mmcWait'.for
    BY <1>0, <1>1, <1>4, <2>2, <2>3 DEF MmcInv
  <2>5. Testing => \A h \in Halves \ op.halves : Half(op.reg, h) = Half(mmc', h)
    BY <1>0, <1>1, <1>2 DEF MmcInv
  <2> QED
    BY <1>1, <1>4, <2>1, <2>2, <2>4, <2>5 DEF MmcInv
<1> QED
  BY <1>3, <1>4

LEMMA MmcWrite ==
  ASSUME OtherTypes, MmcInv, NEW h \in Halves, WriteTimeout(h)
  PROVE  MmcInv'
<1>0. mmc \in Nat /\ op.n \in Nat /\ mmcWait \in Wait /\ CallTypes
  BY DEF OtherTypes, TimerTypes, CallTypes
<1>1. /\ Setting /\ h \in op.halves /\ mmc' = Put(mmc, op.n, h)
      /\ tasks' = tasks /\ mmcWait' = mmcWait
  BY DEF WriteTimeout, At, Setting, waits
<1>2. ~mmcWait.over /\ mmcWait.for = op.n /\ mmcWait.ticks = 0 /\ "mmc_task" \in tasks /\ ~irq
  BY <1>1 DEF MmcInv
<1>3. CASE op.halves = {h}
  <2>1. \A g \in Halves \ {h} : Half(mmc, g) = Half(op.n, g)
    BY <1>1, <1>3 DEF MmcInv
  <2>2. mmc' = op.n
    BY <1>0, <1>1, <2>1, PutCompletes
  <2>3. ~Setting' /\ ~Testing'
    BY <1>3 DEF WriteTimeout, Return, Idle, Setting, Testing
  <2> QED
    BY <1>0, <1>1, <1>2, <2>2, <2>3 DEF MmcInv
<1>4. CASE op.halves # {h}
  <2>1. op' = [op EXCEPT !.halves = @ \ {h}] /\ irq' = irq
    BY <1>4 DEF WriteTimeout, hardware
  <2>2. Setting' /\ ~Testing' /\ op'.n = op.n /\ op'.halves = op.halves \ {h}
    BY <1>0, <1>1, <2>1 DEF CallTypes, Setting, Testing
  <2>3. Half(mmc', h) = Half(op.n, h)
    BY <1>0, <1>1, PutMoves
  <2>4. ASSUME NEW g \in Halves \ op'.halves PROVE Half(mmc', g) = Half(op'.n, g)
    <3>1. CASE g = h
      BY <3>1, <2>2, <2>3
    <3>2. CASE g # h
      <4>1. Half(mmc, g) = Half(op.n, g)
        BY <3>2, <2>2, <1>1 DEF MmcInv
      <4>2. Half(mmc', g) = Half(mmc, g)
        BY <3>2, <1>0, <1>1, PutKeeps
      <4> QED
        BY <4>1, <4>2, <2>2
    <3> QED
      BY <3>1, <3>2
  <2> QED
    BY <1>1, <1>2, <2>1, <2>2, <2>4 DEF MmcInv
<1> QED
  BY <1>3, <1>4

LEMMA MmcRead ==
  ASSUME OtherTypes, MmcInv, NEW h \in Halves, ReadTimeout(h)
  PROVE  MmcInv'
<1>0. mmc \in Nat /\ op.reg \in Nat /\ mmcWait \in Wait /\ CallTypes
  BY DEF OtherTypes, TimerTypes, CallTypes
<1>1. Testing /\ ~Setting /\ h \in op.halves /\ mmc' = mmc /\ tasks' = tasks
  BY DEF ReadTimeout, At, Setting, Testing
<1>2. ~mmcWait.over /\ "mmc_task" \in tasks /\ mmc + mmcWait.ticks >= mmcWait.for
  BY <1>1 DEF MmcInv
<1>3. CASE op.halves = {h}
  <2>1. \A g \in Halves \ {h} : Half(op.reg, g) = Half(mmc, g)
    BY <1>1, <1>3 DEF MmcInv
  <2>2. Put(op.reg, mmc, h) = mmc
    BY <1>0, <2>1, PutCompletes
  <2>3. ~Setting' /\ ~Testing'
    BY <1>3 DEF ReadTimeout, Return, Idle, Setting, Testing
  <2>4. mmcWait' = [mmcWait EXCEPT !.over = (mmc = 0)]
    BY <1>3, <2>2 DEF ReadTimeout
  <2>5. /\ mmcWait'.for = mmcWait.for /\ mmcWait'.ticks = mmcWait.ticks
        /\ mmcWait'.over <=> mmc = 0
        /\ mmcWait.ticks \in Nat /\ mmcWait.for \in Nat
    BY <1>0, <2>4 DEF Wait
  <2> QED
    BY <1>0, <1>1, <1>2, <2>3, <2>5 DEF MmcInv
<1>4. CASE op.halves # {h}
  <2>1. op' = [op EXCEPT !.halves = @ \ {h}, !.reg = Put(op.reg, mmc, h)] /\ mmcWait' = mmcWait
    BY <1>4 DEF ReadTimeout
  <2>2. /\ Testing' /\ ~Setting' /\ op'.reg = Put(op.reg, mmc, h)
        /\ op'.halves = op.halves \ {h} /\ op'.halves # {}
    BY <1>0, <1>1, <1>4, <2>1 DEF CallTypes, Setting, Testing
  <2>3. Half(op'.reg, h) = Half(mmc, h)
    BY <1>0, <2>2, PutMoves
  <2>4. ASSUME NEW g \in Halves \ op'.halves PROVE Half(op'.reg, g) = Half(mmc, g)
    <3>1. CASE g = h
      BY <3>1, <2>3
    <3>2. CASE g # h
      <4>1. Half(op.reg, g) = Half(mmc, g)
        BY <3>2, <2>2, <1>1 DEF MmcInv
      <4>2. Half(op'.reg, g) = Half(op.reg, g)
        BY <3>2, <1>0, <2>2, PutKeeps
      <4> QED
        BY <4>1, <4>2
    <3> QED
      BY <3>1, <3>2
  <2> QED
    BY <1>1, <1>2, <2>1, <2>2, <2>4 DEF MmcInv
<1> QED
  BY <1>3, <1>4

-----------------------------------------------------------------------------
WaitsInv == GpibInv /\ MmcInv

LEMMA WaitsInit == Init => WaitsInv
<1> SUFFICES ASSUME Init PROVE WaitsInv
  OBVIOUS
<1>1. /\ gpibWait = [for |-> 0, ticks |-> 0, over |-> TRUE] /\ mmcWait = gpibWait
      /\ op = Idle
  BY DEF Init
<1>2. GpibInv
  BY <1>1 DEF GpibInv
<1>3. MmcInv
  BY <1>1 DEF MmcInv, Setting, Testing, Idle
<1> QED
  BY <1>2, <1>3 DEF WaitsInv

LEMMA WaitsStep ==
  ~Torn /\ OtherTypes /\ WaitsInv /\ [Next]_vars => WaitsInv'
<1> SUFFICES ASSUME ~Torn, OtherTypes, WaitsInv, [Next]_vars PROVE WaitsInv'
  OBVIOUS
<1>0. GpibInv /\ MmcInv /\ CallTypes /\ TimerTypes
  BY DEF WaitsInv, OtherTypes
<1>1. CASE Count
  <2>1. gpibWait' = gpibWait /\ gpib' = gpib /\ tasks' = tasks
    BY <1>1 DEF Count, timing, waits
  <2>2. GpibInv'
    BY <1>0, <2>1, GpibApart
  <2>3. mmc' = mmc /\ mmcWait' = mmcWait
    BY <1>1 DEF Count, timing, waits
  <2>4. op' = op /\ irq' = irq
    BY <1>1 DEF Count, hardware
  <2>5. MmcInv'
    BY <1>0, <2>1, <2>3, <2>4, MmcBeside
  <2> QED
    BY <2>2, <2>5, <1>0 DEF WaitsInv
<1>2. CASE TimerInterrupt
  BY <1>2, <1>0, GpibTick, MmcTick DEF WaitsInv
<1>3. CASE ReceiveInterrupt
  <2>1. gpibWait' = gpibWait /\ gpib' = gpib /\ tasks' = tasks
    BY <1>3 DEF ReceiveInterrupt, timing, waits
  <2>2. GpibInv'
    BY <1>0, <2>1, GpibApart
  <2>3. mmc' = mmc /\ mmcWait' = mmcWait
    BY <1>3 DEF ReceiveInterrupt, timing, waits
  <2>4. op' = op /\ irq' = irq
    BY <1>3 DEF ReceiveInterrupt, hardware
  <2>5. MmcInv'
    BY <1>0, <2>1, <2>3, <2>4, MmcBeside
  <2> QED
    BY <2>2, <2>5, <1>0 DEF WaitsInv
<1>4. ASSUME NEW f \in Fields, NEW h \in Halves, WriteHalf(f, h) PROVE WaitsInv'
  <2>1. gpibWait' = gpibWait /\ gpib' = gpib /\ tasks' = tasks
    BY <1>4 DEF WriteHalf, waits
  <2>2. GpibInv'
    BY <1>0, <2>1, GpibApart
  <2>3. mmc' = mmc /\ mmcWait' = mmcWait
    BY <1>4 DEF WriteHalf, waits
  <2>4. op.do \in Others /\ op'.do \in Others
    BY <1>4, <1>0 DEF WriteHalf, At, Goes, Others, CallTypes
  <2>5. MmcInv'
    BY <1>0, <2>1, <2>3, <2>4, MmcAside
  <2> QED
    BY <2>2, <2>5, <1>0 DEF WaitsInv
<1>5. ASSUME NEW f \in Fields, NEW h \in Halves, CompareHalf(f, h) PROVE WaitsInv'
  <2>1. gpibWait' = gpibWait /\ gpib' = gpib /\ tasks' = tasks
    BY <1>5 DEF CompareHalf, waits
  <2>2. GpibInv'
    BY <1>0, <2>1, GpibApart
  <2>3. mmc' = mmc /\ mmcWait' = mmcWait
    BY <1>5 DEF CompareHalf, waits
  <2>4. op.do \in Others /\ op'.do \in Others
    <3>1. op.do = "clock_settime"
      BY <1>5 DEF CompareHalf, At
    <3>2. CASE op.halves # {h}
      BY <1>5, <1>0, <3>1, <3>2 DEF CompareHalf, CallTypes, Others
    <3>3. CASE op.halves = {h}
      <4>1. op' = Idle \/ Goes("compare sec") \/ Goes("write nsec")
        BY <1>5, <3>3 DEF CompareHalf, Compared, Holds, Again, Return
      <4>2. ASSUME NEW at, Goes(at) PROVE op'.do = op.do
        BY <4>2, <1>0 DEF Goes, CallTypes
      <4>3. op' = Idle => op'.do = "none"
        BY DEF Idle
      <4> QED
        BY <4>1, <4>2, <4>3, <3>1 DEF Others
    <3> QED
      BY <3>2, <3>3
  <2>5. MmcInv'
    BY <1>0, <2>1, <2>3, <2>4, MmcAside
  <2> QED
    BY <2>2, <2>5, <1>0 DEF WaitsInv
<1>6. CASE ReadClock
  <2>1. gpibWait' = gpibWait /\ gpib' = gpib /\ tasks' = tasks
    BY <1>6 DEF ReadClock, timing, waits
  <2>2. GpibInv'
    BY <1>0, <2>1, GpibApart
  <2>3. mmc' = mmc /\ mmcWait' = mmcWait
    BY <1>6 DEF ReadClock, timing, waits
  <2>4. op.do \in Others /\ op'.do \in Others
    BY <1>6, <1>0 DEF ReadClock, At, Others, CallTypes
  <2>5. MmcInv'
    BY <1>0, <2>1, <2>3, <2>4, MmcAside
  <2> QED
    BY <2>2, <2>5, <1>0 DEF WaitsInv
<1>7. CASE ReadCount
  <2>1. gpibWait' = gpibWait /\ gpib' = gpib /\ tasks' = tasks
    BY <1>7 DEF ReadCount, timing, waits
  <2>2. GpibInv'
    BY <1>0, <2>1, GpibApart
  <2>3. mmc' = mmc /\ mmcWait' = mmcWait
    BY <1>7 DEF ReadCount, timing, waits
  <2>4. op.do \in Others /\ op'.do \in Others
    BY <1>7, <1>0 DEF ReadCount, At, Others, CallTypes
  <2>5. MmcInv'
    BY <1>0, <2>1, <2>3, <2>4, MmcAside
  <2> QED
    BY <2>2, <2>5, <1>0 DEF WaitsInv
<1>8. CASE ReadFlag
  <2>1. gpibWait' = gpibWait /\ gpib' = gpib /\ tasks' = tasks
    BY <1>8 DEF ReadFlag, timing, waits
  <2>2. GpibInv'
    BY <1>0, <2>1, GpibApart
  <2>3. mmc' = mmc /\ mmcWait' = mmcWait
    BY <1>8 DEF ReadFlag, timing, waits
  <2>4. op.do \in Others /\ op'.do \in Others
    BY <1>8, <1>0 DEF ReadFlag, At, Return, Idle, Others, CallTypes
  <2>5. MmcInv'
    BY <1>0, <2>1, <2>3, <2>4, MmcAside
  <2> QED
    BY <2>2, <2>5, <1>0 DEF WaitsInv
<1>9. ASSUME NEW h \in Halves, WriteTimeout(h) PROVE WaitsInv'
  <2>1. gpibWait' = gpibWait /\ gpib' = gpib /\ tasks' = tasks
    BY <1>9 DEF WriteTimeout, waits
  <2>2. GpibInv'
    BY <1>0, <2>1, GpibApart
  <2>3. MmcInv'
    BY <1>0, <1>9, MmcWrite
  <2> QED
    BY <2>2, <2>3, <1>0 DEF WaitsInv
<1>10. ASSUME NEW h \in Halves, ReadTimeout(h) PROVE WaitsInv'
  <2>1. gpibWait' = gpibWait /\ gpib' = gpib /\ tasks' = tasks
    BY <1>10 DEF ReadTimeout
  <2>2. GpibInv'
    BY <1>0, <2>1, GpibApart
  <2>3. MmcInv'
    BY <1>0, <1>10, MmcRead
  <2> QED
    BY <2>2, <2>3, <1>0 DEF WaitsInv
<1>11. CASE TakeTail
  <2>1. gpibWait' = gpibWait /\ gpib' = gpib /\ tasks' = tasks
    BY <1>11 DEF TakeTail, timing, waits
  <2>2. GpibInv'
    BY <1>0, <2>1, GpibApart
  <2>3. mmc' = mmc /\ mmcWait' = mmcWait
    BY <1>11 DEF TakeTail, timing, waits
  <2>4. op.do \in Others /\ op'.do \in Others
    BY <1>11, <1>0 DEF TakeTail, At, Others, CallTypes
  <2>5. MmcInv'
    BY <1>0, <2>1, <2>3, <2>4, MmcAside
  <2> QED
    BY <2>2, <2>5, <1>0 DEF WaitsInv
<1>12. CASE CountTail
  <2>1. gpibWait' = gpibWait /\ gpib' = gpib /\ tasks' = tasks
    BY <1>12 DEF CountTail, timing, waits
  <2>2. GpibInv'
    BY <1>0, <2>1, GpibApart
  <2>3. mmc' = mmc /\ mmcWait' = mmcWait
    BY <1>12 DEF CountTail, timing, waits
  <2>4. op.do \in Others /\ op'.do \in Others
    BY <1>12, <1>0 DEF CountTail, At, Return, Idle, Others, CallTypes
  <2>5. MmcInv'
    BY <1>0, <2>1, <2>3, <2>4, MmcAside
  <2> QED
    BY <2>2, <2>5, <1>0 DEF WaitsInv
<1>13. CASE InstallMmc
  <2>1. /\ op.do = "none" /\ op' = op /\ irq' = irq /\ mmc' = 0 /\ mmcWait' = mmcWait
        /\ gpibWait' = gpibWait /\ gpib' = gpib /\ tasks \subseteq tasks' /\ "mmc_task" \notin tasks
    BY <1>13 DEF InstallMmc, waits, hardware
  <2>2. GpibInv'
    BY <1>0, <2>1, GpibApart
  <2>3. mmcWait.over /\ ~Setting /\ ~Testing /\ ~Setting' /\ ~Testing'
    BY <1>0, <2>1 DEF MmcInv, Setting, Testing
  <2>4. MmcInv'
    BY <1>0, <2>1, <2>3 DEF MmcInv
  <2> QED
    BY <2>2, <2>4 DEF WaitsInv
<1>14. CASE InstallGpib
  <2>1. /\ op' = op /\ irq' = irq /\ mmc' = mmc /\ mmcWait' = mmcWait
        /\ gpibWait' = gpibWait /\ tasks \subseteq tasks' /\ "gpib_timer_task" \notin tasks
    BY <1>14 DEF InstallGpib, waits, hardware
  <2>2. GpibInv'
    BY <1>0, <2>1 DEF GpibInv
  <2>3. MmcInv'
    BY <1>0, <2>1, MmcBeside
  <2> QED
    BY <2>2, <2>3 DEF WaitsInv
<1>15. ASSUME NEW t \in Times, ClockSetTime(t) PROVE WaitsInv'
  <2>1. gpibWait' = gpibWait /\ gpib' = gpib /\ tasks' = tasks
    BY <1>15 DEF ClockSetTime, timing, waits
  <2>2. GpibInv'
    BY <1>0, <2>1, GpibApart
  <2>3. mmc' = mmc /\ mmcWait' = mmcWait
    BY <1>15 DEF ClockSetTime, timing, waits
  <2>4. op.do \in Others /\ op'.do \in Others
    BY <1>15, <1>0 DEF ClockSetTime, Starts, Calls, Idle, Others, CallTypes
  <2>5. MmcInv'
    BY <1>0, <2>1, <2>3, <2>4, MmcAside
  <2> QED
    BY <2>2, <2>5, <1>0 DEF WaitsInv
<1>16. CASE ClockGetTime
  <2>1. gpibWait' = gpibWait /\ gpib' = gpib /\ tasks' = tasks
    BY <1>16 DEF ClockGetTime, timing, waits
  <2>2. GpibInv'
    BY <1>0, <2>1, GpibApart
  <2>3. mmc' = mmc /\ mmcWait' = mmcWait
    BY <1>16 DEF ClockGetTime, timing, waits
  <2>4. op.do \in Others /\ op'.do \in Others
    BY <1>16, <1>0 DEF ClockGetTime, Calls, Idle, Others, CallTypes
  <2>5. MmcInv'
    BY <1>0, <2>1, <2>3, <2>4, MmcAside
  <2> QED
    BY <2>2, <2>5, <1>0 DEF WaitsInv
<1>17. ASSUME NEW w \in Waits, GpibTimeoutSet(w) PROVE WaitsInv'
  <2>1. /\ op' = op /\ irq' = irq /\ mmc' = mmc /\ mmcWait' = mmcWait /\ tasks' = tasks
        /\ "gpib_timer_task" \in tasks /\ w \in Nat
        /\ gpib' = [down |-> w, done |-> FALSE]
        /\ gpibWait' = [for |-> w, ticks |-> 0, over |-> FALSE]
    BY <1>17, Sizes DEF GpibTimeoutSet, hardware
  <2>2. GpibInv'
    BY <2>1 DEF GpibInv
  <2>3. MmcInv'
    BY <1>0, <2>1, MmcBeside
  <2> QED
    BY <2>2, <2>3 DEF WaitsInv
<1>18. ASSUME NEW w \in Waits, MmcSetTimeout(w) PROVE WaitsInv'
  <2>1. /\ gpibWait' = gpibWait /\ gpib' = gpib /\ tasks' = tasks /\ "mmc_task" \in tasks
        /\ irq' = FALSE
        /\ op' = [Idle EXCEPT !.do = "mmc_set_ms_timeout", !.at = "write",
                           !.halves = Halves, !.n = w]
        /\ mmcWait' = [for |-> w, ticks |-> 0, over |-> FALSE]
    BY <1>18 DEF MmcSetTimeout, Starts, Cli
  <2>2. Setting' /\ ~Testing' /\ op'.n = w /\ op'.halves = Halves
    BY <2>1 DEF Setting, Testing, Idle
  <2>3. GpibInv'
    BY <1>0, <2>1, GpibApart
  <2>4. MmcInv'
    BY <2>1, <2>2 DEF MmcInv
  <2> QED
    BY <2>3, <2>4 DEF WaitsInv
<1>19. CASE MmcTestTimeout
  <2>1. /\ gpibWait' = gpibWait /\ gpib' = gpib /\ tasks' = tasks
        /\ mmc' = mmc /\ mmcWait' = mmcWait /\ ~mmcWait.over
        /\ op.do = "none"
        /\ op' = [Idle EXCEPT !.do = "mmc_test_timeout", !.at = "read", !.halves = Halves]
    BY <1>19 DEF MmcTestTimeout, Starts, Calls, timing, waits
  <2>2. ~Setting /\ ~Setting' /\ op'.halves = Halves /\ Halves # {}
    BY <2>1 DEF Setting, Idle, Halves
  <2>3. GpibInv'
    BY <1>0, <2>1, GpibApart
  <2>4. MmcInv'
    BY <1>0, <2>1, <2>2 DEF MmcInv
  <2> QED
    BY <2>3, <2>4 DEF WaitsInv
<1>20. CASE GetTail
  <2>1. gpibWait' = gpibWait /\ gpib' = gpib /\ tasks' = tasks
    BY <1>20 DEF GetTail, timing, waits
  <2>2. GpibInv'
    BY <1>0, <2>1, GpibApart
  <2>3. mmc' = mmc /\ mmcWait' = mmcWait
    BY <1>20 DEF GetTail, timing, waits
  <2>4. op.do \in Others /\ op'.do \in Others
    BY <1>20, <1>0 DEF GetTail, Starts, Calls, Idle, Others, CallTypes
  <2>5. MmcInv'
    BY <1>0, <2>1, <2>3, <2>4, MmcAside
  <2> QED
    BY <2>2, <2>5, <1>0 DEF WaitsInv
<1>21. CASE UartRxFlush
  <2>1. gpibWait' = gpibWait /\ gpib' = gpib /\ tasks' = tasks
    BY <1>21 DEF UartRxFlush, timing, waits
  <2>2. GpibInv'
    BY <1>0, <2>1, GpibApart
  <2>3. mmc' = mmc /\ mmcWait' = mmcWait
    BY <1>21 DEF UartRxFlush, timing, waits
  <2>4. op' = op /\ irq' = irq
    BY <1>21 DEF UartRxFlush, hardware
  <2>5. MmcInv'
    BY <1>0, <2>1, <2>3, <2>4, MmcBeside
  <2> QED
    BY <2>2, <2>5, <1>0 DEF WaitsInv
<1>22. CASE UNCHANGED vars
  <2>1. gpibWait' = gpibWait /\ gpib' = gpib /\ tasks' = tasks
        /\ mmc' = mmc /\ mmcWait' = mmcWait /\ op' = op /\ irq' = irq
    BY <1>22 DEF vars, hardware, timing, waits
  <2> QED
    BY <1>0, <2>1, GpibApart, MmcBeside DEF WaitsInv
<1> QED
  BY <1>1, <1>2, <1>3, <1>4, <1>5, <1>6, <1>7, <1>8, <1>9, <1>10, <1>11, <1>12, <1>13, <1>14,
     <1>15, <1>16, <1>17, <1>18, <1>19, <1>20, <1>21, <1>22 DEF Next, Step, Call

LEMMA WaitsGive == OtherTypes /\ WaitsInv => WaitsLast
<1> SUFFICES ASSUME OtherTypes, WaitsInv PROVE WaitsLast
  OBVIOUS
<1>1. gpib \in [down : Nat, done : BOOLEAN] /\ gpibWait \in Wait
  BY DEF OtherTypes, TimerTypes
<1>2. ASSUME ~gpibWait.over PROVE gpib.done <=> gpibWait.ticks > gpibWait.for
  <2>1. gpib.down \in Nat /\ gpibWait.ticks \in Nat /\ gpibWait.for \in Nat
    BY <1>1 DEF Wait
  <2>2. CASE gpib.done
    BY <1>2, <2>2 DEF WaitsInv, GpibInv
  <2>3. CASE ~gpib.done
    BY <1>2, <2>1, <2>3 DEF WaitsInv, GpibInv
  <2> QED
    BY <2>2, <2>3
<1>3. mmcWait.over => mmcWait.ticks >= mmcWait.for
  BY DEF WaitsInv, MmcInv
<1> QED
  BY <1>2, <1>3 DEF WaitsLast

(* If no tick falls between the halves of _mmc_timeout that                *)
(* mmc_test_timeout reads, no time-out ends early, however the interrupts  *)
(* come and however long the time-outs and the words are.                  *)
THEOREM TimeoutsLast == ~Torn /\ Spec => []WaitsLast
<1>1. Init => OtherTypes /\ RingInv /\ WaitsInv
  BY TypesInit, RingInit, WaitsInit
<1>2. ~Torn /\ OtherTypes /\ RingInv /\ WaitsInv /\ [Next]_vars
        => (OtherTypes /\ RingInv /\ WaitsInv)'
  <2>1. RingInv => RingTypes
    BY DEF RingInv
  <2> QED
    BY <2>1, TypesStep, RingStep, WaitsStep
<1>3. OtherTypes /\ WaitsInv => WaitsLast
  BY WaitsGive
<1>4. SUFFICES ASSUME ~Torn PROVE Spec => []WaitsLast
  OBVIOUS
<1> QED
  BY <1>1, <1>2, <1>3, <1>4, PTL DEF Spec

-----------------------------------------------------------------------------
(* The clock is set.  Until a tick comes the words written are right half  *)
(* by half; a tick among the writes makes the comparison decide, for no    *)
(* second one comes in a round; a tick among the comparisons finds a clock *)
(* that is right and makes it later.                                       *)
SettingClock == op.do = "clock_settime"
Comparing == op.at \in {"compare nsec", "compare sec"}
Moved == Halves \ op.halves

WriteInv ==
  SettingClock /\ ~set.tick =>
    /\ op.at = "write nsec" =>
         \A h \in Moved : Half(clock.nsec, h) = Half(op.ts.nsec, h)
    /\ op.at = "write sec" =>
         /\ clock.nsec = op.ts.nsec
         /\ \A h \in Moved : Half(clock.sec, h) = Half(op.ts.sec, h)
    /\ Comparing => clock = op.ts

CompareInv ==
  SettingClock =>
    \/ set.tick /\ clock = Later(op.ts)
    \/ /\ op.at = "compare nsec" => \A h \in Moved : Half(op.reg, h) = Half(clock.nsec, h)
       /\ op.at = "compare sec" =>
            /\ clock.nsec = op.ts.nsec
            /\ \A h \in Moved : Half(op.reg, h) = Half(clock.sec, h)

SetInv == WriteInv /\ CompareInv /\ SetTimeHolds

LEMMA SetInit == Init => SetInv
BY DEF Init, SetInv, WriteInv, CompareInv, SetTimeHolds, SettingClock, Idle

(* Whoever moves neither the clock nor the place in clock_settime.         *)
LEMMA SetApart ==
  ASSUME SetInv, clock' = clock, set' = set,
         op' = op \/ (~SettingClock /\ ~SettingClock')
  PROVE  SetInv'
<1>1. CASE op' = op
  BY <1>1 DEF SetInv, WriteInv, CompareInv, SetTimeHolds, SettingClock, Comparing, Moved
<1>2. CASE ~SettingClock /\ ~SettingClock'
  BY <1>2 DEF SetInv, WriteInv, CompareInv, SetTimeHolds, SettingClock
<1> QED
  BY <1>1, <1>2

LEMMA LaterType == ASSUME NEW t \in Timespec PROVE Later(t) \in Timespec
BY Sizes DEF Later, Timespec

LEMMA SetTick ==
  ASSUME OtherTypes, SetInv, TimerInterrupt
  PROVE  SetInv'
<1>1. /\ clock' = Later(clock) /\ op' = op
      /\ SettingClock => ~set.tick
      /\ set' = [time |-> Later(set.time), tick |-> set.tick \/ SettingClock]
  BY DEF TimerInterrupt, RoundIsShort, SettingClock
<1>2. set'.time = Later(set.time) /\ set'.tick = (set.tick \/ SettingClock)
  BY <1>1
<1>3. CASE SettingClock
  <2>1. ~set.tick /\ set'.tick /\ SettingClock'
    BY <1>1, <1>2, <1>3 DEF SettingClock
  <2>2. WriteInv' /\ SetTimeHolds'
    BY <2>1 DEF WriteInv, SetTimeHolds, SettingClock
  <2>3. CASE Comparing
    <3>1. clock = op.ts
      BY <1>3, <2>1, <2>3 DEF SetInv, WriteInv
    <3>2. clock' = Later(op'.ts)
      BY <1>1, <3>1
    <3> QED
      BY <2>1, <2>2, <3>2 DEF SetInv, CompareInv
  <2>4. CASE ~Comparing
    BY <1>1, <2>2, <2>4 DEF SetInv, CompareInv, Comparing
  <2> QED
    BY <2>3, <2>4
<1>4. CASE ~SettingClock
  <2>1. ~SettingClock' /\ (clock = set.time \/ (set.tick /\ clock = Later(set.time)))
    BY <1>1, <1>4 DEF SettingClock, SetInv, SetTimeHolds
  <2>2. set'.tick = set.tick
    <3>1. set.tick \in BOOLEAN
      BY DEF OtherTypes, TimerTypes
    <3> QED
      BY <1>2, <1>4, <3>1
  <2>3. clock' = set'.time \/ (set'.tick /\ clock' = Later(set'.time))
    BY <1>1, <1>2, <2>1, <2>2
  <2> QED
    BY <2>1, <2>3 DEF SetInv, WriteInv, CompareInv, SetTimeHolds, SettingClock
<1> QED
  BY <1>3, <1>4

LEMMA SetBegins ==
  ASSUME SetInv, NEW t \in Times, ClockSetTime(t)
  PROVE  SetInv'
<1>1. /\ op' = [Idle EXCEPT !.do = "clock_settime", !.at = "write nsec", !.halves = Halves,
                            !.ts = t]
  BY DEF ClockSetTime, Starts
<1>2. op'.do = "clock_settime" /\ op'.at = "write nsec" /\ op'.halves = Halves
  BY <1>1 DEF Idle
<1> QED
  BY <1>2 DEF SetInv, WriteInv, CompareInv, SetTimeHolds, SettingClock, Comparing, Moved

(* A half of the clock is written.                                         *)
LEMMA SetWrites ==
  ASSUME OtherTypes, SetInv, NEW f \in Fields, NEW h \in Halves, WriteHalf(f, h)
  PROVE  SetInv'
<1>1. /\ SettingClock /\ h \in op.halves /\ ~Comparing
      /\ op.at = (IF f = "nsec" THEN "write nsec" ELSE "write sec")
      /\ clock' = [clock EXCEPT ![f] = Put(clock[f], op.ts[f], h)]
      /\ set' = set
  BY DEF WriteHalf, At, SettingClock, Comparing
<1>2. clock \in Timespec /\ op.ts \in Timespec
  BY DEF OtherTypes, TimerTypes, CallTypes
<1>3. CASE op.halves # {h}
  <2>1. op' = [op EXCEPT !.halves = @ \ {h}]
    BY <1>3 DEF WriteHalf
  <2>2. /\ op'.do = op.do /\ op'.at = op.at /\ op'.ts = op.ts
        /\ Moved' = Moved \cup {h}
    BY <1>1, <2>1 DEF OtherTypes, CallTypes, Moved
  <2>3. CompareInv' /\ SetTimeHolds'
    BY <1>1, <2>2 DEF CompareInv, SetTimeHolds, SettingClock, Comparing
  <2>4. CASE f = "nsec"
    <3>1. clock'.nsec = Put(clock.nsec, op.ts.nsec, h) /\ op.at = "write nsec"
      BY <1>1, <1>2, <2>4 DEF Timespec
    <3>2. ASSUME ~set.tick, NEW g \in Moved \cup {h}
          PROVE  Half(clock'.nsec, g) = Half(op.ts.nsec, g)
      <4>0. clock.nsec \in Nat /\ op.ts.nsec \in Nat
        BY <1>2 DEF Timespec
      <4>1. CASE g = h
        BY <3>1, <4>0, <4>1, PutMoves
      <4>2. CASE g # h
        <5>1. g \in Halves \ {h} /\ Half(clock.nsec, g) = Half(op.ts.nsec, g)
          BY <1>1, <3>1, <3>2, <4>2 DEF SetInv, WriteInv, Moved
        <5>2. Half(Put(clock.nsec, op.ts.nsec, h), g) = Half(clock.nsec, g)
          BY <4>0, <5>1, PutKeeps
        <5> QED
          BY <3>1, <5>1, <5>2
      <4> QED
        BY <4>1, <4>2
    <3>3. WriteInv'
      BY <1>1, <2>2, <3>1, <3>2 DEF WriteInv, SettingClock, Comparing
    <3> QED
      BY <2>3, <3>3 DEF SetInv
  <2>5. CASE f = "sec"
    <3>1. /\ clock'.sec = Put(clock.sec, op.ts.sec, h) /\ clock'.nsec = clock.nsec
          /\ op.at = "write sec"
      BY <1>1, <1>2, <2>5 DEF Timespec
    <3>2. ASSUME ~set.tick, NEW g \in Moved \cup {h}
          PROVE  Half(clock'.sec, g) = Half(op.ts.sec, g)
      <4>0. clock.sec \in Nat /\ op.ts.sec \in Nat
        BY <1>2 DEF Timespec
      <4>1. CASE g = h
        BY <3>1, <4>0, <4>1, PutMoves
      <4>2. CASE g # h
        <5>1. g \in Halves \ {h} /\ Half(clock.sec, g) = Half(op.ts.sec, g)
          BY <1>1, <3>1, <3>2, <4>2 DEF SetInv, WriteInv, Moved
        <5>2. Half(Put(clock.sec, op.ts.sec, h), g) = Half(clock.sec, g)
          BY <4>0, <5>1, PutKeeps
        <5> QED
          BY <3>1, <5>1, <5>2
      <4> QED
        BY <4>1, <4>2
    <3>3. ~set.tick => clock'.nsec = op.ts.nsec
      BY <1>1, <3>1 DEF SetInv, WriteInv
    <3>4. WriteInv'
      BY <1>1, <2>2, <3>1, <3>2, <3>3 DEF WriteInv, SettingClock, Comparing
    <3> QED
      BY <2>3, <3>4 DEF SetInv
  <2> QED
    BY <2>4, <2>5 DEF Fields
<1>4. CASE op.halves = {h}
  <2>1. Moved = Halves \ {h}
    BY <1>4 DEF Moved
  <2>2. CASE f = "nsec"
    <3>1. /\ clock'.nsec = Put(clock.nsec, op.ts.nsec, h) /\ op.at = "write nsec"
      BY <1>1, <1>2, <2>2 DEF Timespec
    <3>2. op' = [op EXCEPT !.at = "write sec", !.halves = Halves, !.reg = 0]
      BY <1>4, <2>2 DEF WriteHalf, Goes
    <3>3. op'.do = op.do /\ op'.at = "write sec" /\ op'.ts = op.ts /\ Moved' = {}
      BY <3>2 DEF OtherTypes, CallTypes, Moved
    <3>4. ASSUME ~set.tick PROVE clock'.nsec = op.ts.nsec
      <4>1. \A g \in Halves \ {h} : Half(clock.nsec, g) = Half(op.ts.nsec, g)
        BY <1>1, <2>1, <3>1, <3>4 DEF SetInv, WriteInv
      <4>2. clock.nsec \in Nat /\ op.ts.nsec \in Nat
        BY <1>2 DEF Timespec
      <4>3. Put(clock.nsec, op.ts.nsec, h) = op.ts.nsec
        BY <4>1, <4>2, PutCompletes
      <4> QED
        BY <3>1, <4>3
    <3> QED
      BY <1>1, <3>3, <3>4 DEF SetInv, WriteInv, CompareInv, SetTimeHolds, SettingClock, Comparing
  <2>3. CASE f = "sec"
    <3>1. /\ clock'.sec = Put(clock.sec, op.ts.sec, h) /\ clock'.nsec = clock.nsec
          /\ op.at = "write sec"
      BY <1>1, <1>2, <2>3 DEF Timespec
    <3>2. op' = [op EXCEPT !.at = "compare nsec", !.halves = Halves, !.reg = 0]
      BY <1>4, <2>3 DEF WriteHalf, Goes
    <3>3. op'.do = op.do /\ op'.at = "compare nsec" /\ op'.ts = op.ts /\ Moved' = {}
      BY <3>2 DEF OtherTypes, CallTypes, Moved
    <3>4. ASSUME ~set.tick PROVE clock' = op.ts
      <4>1. /\ clock.nsec = op.ts.nsec
            /\ \A g \in Halves \ {h} : Half(clock.sec, g) = Half(op.ts.sec, g)
        BY <1>1, <2>1, <3>1, <3>4 DEF SetInv, WriteInv
      <4>0. clock.sec \in Nat /\ op.ts.sec \in Nat
        BY <1>2 DEF Timespec
      <4>2. clock'.sec = op.ts.sec /\ clock'.nsec = op.ts.nsec
        BY <3>1, <4>0, <4>1, PutCompletes
      <4>3. clock' \in Timespec
        BY <1>1, <1>2, <4>2, <2>3 DEF Timespec
      <4> QED
        BY <1>2, <4>2, <4>3 DEF Timespec
    <3> QED
      BY <1>1, <3>3, <3>4 DEF SetInv, WriteInv, CompareInv, SetTimeHolds, SettingClock, Comparing
  <2> QED
    BY <2>2, <2>3 DEF Fields
<1> QED
  BY <1>3, <1>4

(* A half of the clock is compared, and at the last one either the word is *)
(* what was meant or writing begins again.                                 *)
LEMMA SetCompares ==
  ASSUME OtherTypes, SetInv, NEW f \in Fields, NEW h \in Halves, CompareHalf(f, h)
  PROVE  SetInv'
<1> DEFINE word == Put(op.reg, clock[f], h)
<1>1. /\ SettingClock /\ Comparing /\ h \in op.halves /\ clock' = clock
      /\ op.at = (IF f = "nsec" THEN "compare nsec" ELSE "compare sec")
  BY DEF CompareHalf, At, SettingClock, Comparing
<1>2. clock \in Timespec /\ op.ts \in Timespec /\ op.reg \in Nat
  BY DEF OtherTypes, TimerTypes, CallTypes
<1>3. clock[f] \in Nat
  BY <1>2 DEF Fields, Timespec
<1>4. ASSUME ~(set.tick /\ clock = Later(op.ts))
      PROVE  /\ \A g \in Moved : Half(op.reg, g) = Half(clock[f], g)
             /\ f = "sec" => clock.nsec = op.ts.nsec
  BY <1>1, <1>4 DEF SetInv, CompareInv, Fields
<1>5. ~set.tick => clock = op.ts
  BY <1>1 DEF SetInv, WriteInv
<1>6. CASE op.halves # {h}
  <2>1. op' = [op EXCEPT !.halves = @ \ {h}, !.reg = word] /\ set' = set
    BY <1>6 DEF CompareHalf
  <2>2. /\ op'.do = op.do /\ op'.at = op.at /\ op'.ts = op.ts /\ op'.reg = word
        /\ Moved' = Moved \cup {h}
    BY <1>1, <2>1 DEF OtherTypes, CallTypes, Moved
  <2>3. WriteInv' /\ SetTimeHolds'
    BY <1>1, <1>5, <2>1, <2>2 DEF WriteInv, SetTimeHolds, SettingClock, Comparing
  <2>4. CASE set.tick /\ clock = Later(op.ts)
    BY <1>1, <2>1, <2>2, <2>3, <2>4 DEF SetInv, CompareInv, SettingClock
  <2>5. CASE ~(set.tick /\ clock = Later(op.ts))
    <3>1. ASSUME NEW g \in Moved \cup {h} PROVE Half(word, g) = Half(clock[f], g)
      <4>1. Half(word, h) = Half(clock[f], h)
        BY <1>2, <1>3, PutMoves
      <4>2. CASE g # h
        <5>1. g \in Halves \ {h} /\ Half(op.reg, g) = Half(clock[f], g)
          BY <1>4, <2>5, <3>1, <4>2 DEF Moved
        <5>2. Half(word, g) = Half(op.reg, g)
          BY <1>2, <1>3, <5>1, PutKeeps
        <5> QED
          BY <5>1, <5>2
      <4> QED
        BY <4>1, <4>2
    <3>2. f = "sec" => clock.nsec = op.ts.nsec
      BY <1>4, <2>5
    <3>3. CompareInv'
      <4>1. op'.at = "compare nsec" => \A g \in Moved' : Half(op'.reg, g) = Half(clock'.nsec, g)
        BY <1>1, <2>2, <3>1 DEF Fields
      <4>2. op'.at = "compare sec" =>
              /\ clock'.nsec = op'.ts.nsec
              /\ \A g \in Moved' : Half(op'.reg, g) = Half(clock'.sec, g)
        BY <1>1, <2>2, <3>1, <3>2 DEF Fields
      <4> QED
        BY <4>1, <4>2 DEF CompareInv
    <3> QED
      BY <2>3, <3>3 DEF SetInv
  <2> QED
    BY <2>4, <2>5
<1>7. CASE op.halves = {h}
  <2>1. Compared(f, word)
    BY <1>7 DEF CompareHalf
  <2>2. CASE word # op.ts[f]
    <3>1. Goes("write nsec") /\ set' = [set EXCEPT !.tick = FALSE]
      BY <2>1, <2>2 DEF Compared, Again
    <3>2. op'.do = op.do /\ op'.at = "write nsec" /\ Moved' = {}
      BY <3>1 DEF Goes, OtherTypes, CallTypes, Moved
    <3> QED
      BY <1>1, <3>2
      DEF SetInv, WriteInv, CompareInv, SetTimeHolds, SettingClock, Comparing
  <2>3. CASE word = op.ts[f]
    <3>0. Holds(f)
      BY <2>1, <2>3 DEF Compared
    <3>1. CASE f = "nsec"
      <4>1. Goes("compare sec") /\ set' = set
        BY <3>0, <3>1 DEF Holds
      <4>2. op'.do = op.do /\ op'.at = "compare sec" /\ op'.ts = op.ts /\ Moved' = {}
        BY <4>1 DEF Goes, OtherTypes, CallTypes, Moved
      <4>3. \/ set.tick /\ clock = Later(op.ts)
            \/ clock.nsec = op.ts.nsec
        <5>1. CASE ~(set.tick /\ clock = Later(op.ts))
          <6>1. \A g \in Halves \ {h} : Half(op.reg, g) = Half(clock[f], g)
            BY <1>4, <1>7, <5>1 DEF Moved
          <6>2. word = clock[f]
            BY <1>2, <1>3, <6>1, PutCompletes
          <6> QED
            BY <2>3, <3>1, <6>2
        <5> QED
          BY <5>1
      <4>4. CompareInv'
        BY <1>1, <4>1, <4>2, <4>3 DEF CompareInv
      <4>5. WriteInv' /\ SetTimeHolds'
        BY <1>1, <1>5, <4>1, <4>2 DEF WriteInv, SetTimeHolds, SettingClock, Comparing
      <4> QED
        BY <4>4, <4>5 DEF SetInv
    <3>2. CASE f = "sec"
      <4>1. Return /\ set' = [set EXCEPT !.time = op.ts]
        BY <3>0, <3>2 DEF Holds
      <4>2. set'.time = op.ts /\ set'.tick = set.tick /\ ~SettingClock'
        BY <4>1 DEF OtherTypes, TimerTypes, Return, Idle, SettingClock
      <4>3. \/ set.tick /\ clock = Later(op.ts)
            \/ clock = op.ts
        <5>1. CASE ~(set.tick /\ clock = Later(op.ts))
          <6>1. \A g \in Halves \ {h} : Half(op.reg, g) = Half(clock[f], g)
            BY <1>4, <1>7, <5>1 DEF Moved
          <6>2. word = clock[f]
            BY <1>2, <1>3, <6>1, PutCompletes
          <6>3. clock.sec = op.ts.sec /\ clock.nsec = op.ts.nsec
            BY <1>4, <2>3, <3>2, <5>1, <6>2
          <6> QED
            BY <1>2, <6>3 DEF Timespec
        <5> QED
          BY <5>1
      <4> QED
        BY <1>1, <4>2, <4>3 DEF SetInv, WriteInv, CompareInv, SetTimeHolds, SettingClock
    <3> QED
      BY <3>1, <3>2 DEF Fields
  <2> QED
    BY <2>2, <2>3
<1> QED
  BY <1>6, <1>7

(* Every other step leaves the clock and what it should show alone.        *)
LEMMA ClockElsewhere ==
  ASSUME OtherTypes, [Next]_vars, ~TimerInterrupt, \A t \in Times : ~ClockSetTime(t),
         \A f \in Fields, h \in Halves : ~WriteHalf(f, h) /\ ~CompareHalf(f, h)
  PROVE  /\ clock' = clock /\ set' = set
         /\ op' = op \/ (~SettingClock /\ ~SettingClock')
<1>1. CASE Count \/ ReceiveInterrupt \/ InstallMmc \/ InstallGpib \/ UartRxFlush \/ UNCHANGED vars
  BY <1>1 DEF Count, ReceiveInterrupt, InstallMmc, InstallGpib, UartRxFlush, vars, timing
<1>2. ASSUME NEW w \in Waits, GpibTimeoutSet(w)
      PROVE  clock' = clock /\ set' = set /\ op' = op
  BY <1>2 DEF GpibTimeoutSet
<1>3. ASSUME \/ \E w \in Waits : MmcSetTimeout(w)
             \/ MmcTestTimeout \/ GetTail \/ ClockGetTime
      PROVE  clock' = clock /\ set' = set /\ ~SettingClock /\ ~SettingClock'
  <2>1. clock' = clock /\ set' = set /\ op.do = "none"
    BY <1>3 DEF MmcSetTimeout, MmcTestTimeout, GetTail, ClockGetTime, Starts, Calls, timing
  <2>2. op'.do \in {"mmc_set_ms_timeout", "mmc_test_timeout", "uart_get_tail", "clock_gettime"}
    BY <1>3 DEF MmcSetTimeout, MmcTestTimeout, GetTail, ClockGetTime, Starts, Idle
  <2> QED
    BY <2>1, <2>2 DEF SettingClock
<1>4. ASSUME \/ ReadClock \/ ReadCount \/ ReadFlag \/ TakeTail \/ CountTail
             \/ \E h \in Halves : WriteTimeout(h) \/ ReadTimeout(h)
      PROVE  clock' = clock /\ set' = set /\ ~SettingClock /\ ~SettingClock'
  <2>1. clock' = clock /\ set' = set /\ ~SettingClock
    BY <1>4 DEF ReadClock, ReadCount, ReadFlag, TakeTail, CountTail, WriteTimeout, ReadTimeout,
                At, SettingClock, timing
  <2>2. op'.do \in {op.do, "none"}
    <3>1. CASE ReadClock \/ ReadCount \/ TakeTail
      BY <3>1 DEF ReadClock, ReadCount, TakeTail, OtherTypes, CallTypes
    <3>2. CASE ReadFlag \/ CountTail
      BY <3>2 DEF ReadFlag, CountTail, Return, Idle
    <3>3. ASSUME NEW h \in Halves, WriteTimeout(h) PROVE op'.do \in {op.do, "none"}
      <4>1. CASE op.halves = {h}
        BY <3>3, <4>1 DEF WriteTimeout, Return, Idle
      <4>2. CASE op.halves # {h}
        BY <3>3, <4>2 DEF WriteTimeout, OtherTypes, CallTypes
      <4> QED
        BY <4>1, <4>2
    <3>4. ASSUME NEW h \in Halves, ReadTimeout(h) PROVE op'.do \in {op.do, "none"}
      <4>1. CASE op.halves = {h}
        BY <3>4, <4>1 DEF ReadTimeout, Return, Idle
      <4>2. CASE op.halves # {h}
        BY <3>4, <4>2 DEF ReadTimeout, OtherTypes, CallTypes
      <4> QED
        BY <4>1, <4>2
    <3> QED
      BY <1>4, <3>1, <3>2, <3>3, <3>4
  <2> QED
    BY <2>1, <2>2 DEF SettingClock
<1> QED
  BY <1>1, <1>2, <1>3, <1>4 DEF Next, Step, Call

LEMMA SetStep == OtherTypes /\ SetInv /\ [Next]_vars => SetInv'
<1> SUFFICES ASSUME OtherTypes, SetInv, [Next]_vars PROVE SetInv'
  OBVIOUS
<1>1. CASE TimerInterrupt
  BY <1>1, SetTick
<1>2. ASSUME NEW t \in Times, ClockSetTime(t) PROVE SetInv'
  BY <1>2, SetBegins
<1>3. ASSUME NEW f \in Fields, NEW h \in Halves, WriteHalf(f, h) \/ CompareHalf(f, h)
      PROVE  SetInv'
  BY <1>3, SetWrites, SetCompares
<1> QED
  BY <1>1, <1>2, <1>3, ClockElsewhere, SetApart

-----------------------------------------------------------------------------
(* The time is told.  While clock_gettime runs no tick is counted, so the  *)
(* clock stands; the counter goes on, and when it wraps the flag says so   *)
(* until the interrupts are back.                                          *)
TellingTime == op.do = "clock_gettime"

LEMMA InCountsType == ASSUME NEW t \in Timespec PROVE InCounts(t) \in Nat
<1>1. SecondCounts \in Nat /\ t.sec \in Nat /\ t.nsec \in Nat
  BY Sizes DEF SecondCounts, Timespec
<1>2. t.sec * SecondCounts \in Nat
  BY <1>1
<1> QED
  BY <1>1, <1>2 DEF InCounts

(* Carrying a second changes no time.                                      *)
LEMMA NormalSame ==
  ASSUME NEW t \in Timespec
  PROVE  Normal(t) \in Timespec /\ InCounts(Normal(t)) = InCounts(t)
<1>1. SecondCounts \in Nat /\ t.sec \in Nat /\ t.nsec \in Nat
  BY Sizes DEF SecondCounts, Timespec
<1>2. CASE t.nsec >= SecondCounts
  <2>1. Normal(t) = [sec |-> t.sec + 1, nsec |-> t.nsec - SecondCounts]
    BY <1>2 DEF Normal
  <2>2. t.nsec - SecondCounts \in Nat
    BY <1>1, <1>2
  <2>3. Normal(t).sec = t.sec + 1 /\ Normal(t).nsec = t.nsec - SecondCounts
    BY <2>1
  <2>4. \A s, c \in Nat : (s + 1) * c = s * c + c
    OBVIOUS
  <2>5. t.sec * SecondCounts \in Nat
    BY <1>1
  <2> QED
    BY <1>1, <2>1, <2>2, <2>3, <2>4, <2>5 DEF InCounts, Timespec
<1>3. CASE ~(t.nsec >= SecondCounts)
  BY <1>3 DEF Normal
<1> QED
  BY <1>2, <1>3

(* A tick and a carry leave the nanoseconds below a second.                *)
Valid(t) == t.nsec < SecondCounts

LEMMA LaterValid == ASSUME NEW t \in Timespec PROVE Valid(Later(t))
<1>1. SecondCounts \in Nat /\ SecondCounts > 0 /\ t.nsec \in Nat
  BY Sizes, ClockAssumption DEF SecondCounts, Timespec
<1> QED
  BY <1>1, Sizes DEF Valid, Later, Timespec

LEMMA NormalValid ==
  ASSUME NEW t \in Timespec, t.nsec < SecondCounts + 2 * TicCounts
  PROVE  Valid(Normal(t))
<1>1. SecondCounts \in Nat /\ t.nsec \in Nat /\ 2 * TicCounts <= SecondCounts
  <2>1. \A n, c \in Nat : n >= 2 => 2 * c <= n * c
    OBVIOUS
  <2> QED
    BY <2>1, Sizes, ClockAssumption DEF SecondCounts, Timespec
<1> QED
  BY <1>1, Sizes DEF Valid, Normal

TimesValid == Valid(set.time) /\ (SettingClock => Valid(op.ts))

ToldTypes == told \in [from : Nat, got : Timespec, to : Nat, errorf : BOOLEAN]

TellInv ==
  TellingTime =>
    /\ ~irq
    /\ op.n \in 0 .. TicCounts - 1
    /\ op.at \in {"count", "flag"} => op.ts = clock
    /\ op.at = "flag" => op.reg \in 0 .. TicCounts - 1
    /\ ~ocf => op.n <= tcnt /\ (op.at = "flag" => op.n <= op.reg /\ op.reg <= tcnt)
    /\ \/ told.from = InCounts(clock) + op.n
       \/ /\ told.from = InCounts(clock) + op.n + TicCounts
          /\ ocf /\ op.n <= tcnt
          /\ op.at = "flag" => op.n <= op.reg

ToldInv == ToldTypes /\ TimesValid /\ TellInv /\ TimeToldIsNear

LEMMA ToldInit == Init => ToldInv
<1> SUFFICES ASSUME Init PROVE ToldInv
  OBVIOUS
<1>1. SecondCounts \in Nat /\ SecondCounts > 0
  BY Sizes DEF SecondCounts
<1>2. 0 * SecondCounts = 0
  BY <1>1
<1>3. InCounts(Zero) = 0 /\ Zero \in Timespec
  BY <1>2 DEF InCounts, Zero, Timespec
<1>4. /\ told.from = 0 /\ told.got = Zero /\ told.to = 0 /\ ~told.errorf /\ ToldTypes
      /\ op.do = "none" /\ set.time = Zero
  BY <1>3 DEF Init, Nothing, Idle, ToldTypes
<1>5. TimesValid /\ TellInv
  BY <1>1, <1>4 DEF TimesValid, Valid, Zero, SettingClock, TellInv, TellingTime
<1>6. TimeToldIsNear
  BY <1>1, <1>3, <1>4, Sizes DEF TimeToldIsNear, Zero
<1> QED
  BY <1>4, <1>5, <1>6 DEF ToldInv

(* A call that begins starts a new log.                                    *)
LEMMA NothingTold ==
  ASSUME told' = Nothing, ~TellingTime'
  PROVE  ToldTypes' /\ TellInv' /\ TimeToldIsNear'
<1>1. SecondCounts \in Nat /\ SecondCounts > 0
  BY Sizes DEF SecondCounts
<1>2. 0 * SecondCounts = 0
  BY <1>1
<1>3. InCounts(Zero) = 0 /\ Zero \in Timespec
  BY <1>2 DEF InCounts, Zero, Timespec
<1>4. told'.from = 0 /\ told'.got = Zero /\ told'.to = 0 /\ ~told'.errorf /\ ToldTypes'
  BY <1>3 DEF Nothing, ToldTypes
<1>5. TimeToldIsNear'
  BY <1>1, <1>3, <1>4, Sizes DEF TimeToldIsNear, Zero
<1> QED
  BY <1>4, <1>5 DEF TellInv

(* A step outside clock_gettime keeps the log.                             *)
LEMMA ToldApart ==
  ASSUME ToldInv, told' = told, ~TellingTime, ~TellingTime', TimesValid'
  PROVE  ToldInv'
BY DEF ToldInv, ToldTypes, TellInv, TimeToldIsNear, TellingTime

(* Nobody sets the clock to a time that is none, and it never becomes one. *)
LEMMA ValidStep ==
  ASSUME OtherTypes, TimesValid, [Next]_vars
  PROVE  TimesValid'
<1>1. set.time \in Timespec /\ op.ts \in Timespec
  BY DEF OtherTypes, TimerTypes, CallTypes
<1>2. CASE TimerInterrupt
  <2>1. set'.time = Later(set.time) /\ op' = op
    BY <1>2 DEF TimerInterrupt
  <2> QED
    BY <1>1, <2>1, LaterValid DEF TimesValid, SettingClock, Valid
<1>3. ASSUME NEW t \in Times, ClockSetTime(t) PROVE TimesValid'
  <2>1. op'.ts = t /\ set'.time = set.time
    BY <1>3 DEF ClockSetTime, Starts, Idle, OtherTypes, TimerTypes
  <2> QED
    BY <2>1, ClockAssumption DEF TimesValid, Valid, SecondCounts
<1>4. ASSUME NEW f \in Fields, NEW h \in Halves, WriteHalf(f, h) PROVE TimesValid'
  <2>1. SettingClock /\ set' = set
    BY <1>4 DEF WriteHalf, At, SettingClock
  <2>2. op'.ts = op.ts
    <3>1. CASE op.halves # {h}
      BY <1>4, <3>1 DEF WriteHalf, OtherTypes, CallTypes
    <3>2. CASE op.halves = {h}
      BY <1>4, <3>2 DEF WriteHalf, Goes, OtherTypes, CallTypes
    <3> QED
      BY <3>1, <3>2
  <2> QED
    BY <2>1, <2>2 DEF TimesValid, Valid
<1>5. ASSUME NEW f \in Fields, NEW h \in Halves, CompareHalf(f, h) PROVE TimesValid'
  <2> DEFINE word == Put(op.reg, clock[f], h)
  <2>1. SettingClock
    BY <1>5 DEF CompareHalf, At, SettingClock
  <2>2. CASE op.halves # {h}
    <3>1. set' = set /\ op'.ts = op.ts
      BY <1>5, <2>2 DEF CompareHalf, OtherTypes, CallTypes
    <3> QED
      BY <2>1, <3>1 DEF TimesValid, Valid
  <2>3. CASE op.halves = {h}
    <3>1. Holds(f) \/ Again
      BY <1>5, <2>3 DEF CompareHalf, Compared
    <3>2. CASE \E at \in Places : Goes(at)
      <4>1. op'.ts = op.ts
        BY <3>2 DEF Goes, OtherTypes, CallTypes
      <4>2. set'.time = set.time \/ set'.time = op.ts
        BY <3>1 DEF Holds, Again, OtherTypes, TimerTypes
      <4> QED
        BY <2>1, <4>1, <4>2 DEF TimesValid, Valid
    <3>3. CASE ~\E at \in Places : Goes(at)
      <4>1. Return /\ set' = [set EXCEPT !.time = op.ts]
        BY <3>1, <3>3 DEF Holds, Again, Places
      <4>2. ~SettingClock' /\ set'.time = op.ts
        BY <4>1 DEF Return, Idle, SettingClock, OtherTypes, TimerTypes
      <4> QED
        BY <2>1, <4>2 DEF TimesValid, Valid
    <3> QED
      BY <3>2, <3>3
  <2> QED
    BY <2>2, <2>3
<1>6. CASE set' = set /\ (op' = op \/ ~SettingClock')
  BY <1>6 DEF TimesValid, Valid, SettingClock
<1> QED
  BY <1>2, <1>3, <1>4, <1>5, <1>6, ClockElsewhere

LEMMA TellBegins ==
  ASSUME OtherTypes, ToldInv, ClockGetTime
  PROVE  ToldTypes' /\ TellInv' /\ TimeToldIsNear'
<1>1. /\ told' = [Nothing EXCEPT !.from = Now]
      /\ op' = [Idle EXCEPT !.do = "clock_gettime", !.at = "clock", !.n = tcnt]
      /\ irq' = FALSE /\ tcnt' = tcnt /\ ocf' = ocf /\ clock' = clock
  BY DEF ClockGetTime, Calls, Cli, timing
<1>2. op'.do = "clock_gettime" /\ op'.at = "clock" /\ op'.n = tcnt
  BY <1>1 DEF Idle
<1>3. InCounts(clock) \in Nat /\ tcnt \in 0 .. TicCounts - 1
  BY InCountsType DEF OtherTypes, TimerTypes, CountType
<1>4. Now = InCounts(clock) + tcnt \/ (ocf /\ Now = InCounts(clock) + tcnt + TicCounts)
  BY <1>3 DEF Now
<1>5. Now \in Nat
  BY <1>3, <1>4, Sizes
<1>6. Zero \in Timespec
  BY DEF Zero, Timespec
<1>7. told'.from = Now /\ ToldTypes'
  BY <1>1, <1>5, <1>6 DEF ToldTypes, Nothing
<1>8. InCounts(clock)' = InCounts(clock)
  BY <1>1 DEF InCounts
<1>9. TellInv'
  BY <1>1, <1>2, <1>3, <1>4, <1>7, <1>8, Sizes DEF TellInv
<1> QED
  BY <1>2, <1>7, <1>9 DEF TimeToldIsNear

LEMMA TellGoesOn ==
  ASSUME OtherTypes, ToldInv, TellingTime, Count \/ ReadClock \/ ReadCount
  PROVE  ToldTypes' /\ TellInv' /\ TimeToldIsNear'
<1>1. told' = told /\ clock' = clock /\ irq' = irq
  BY DEF Count, ReadClock, ReadCount, timing, hardware
<1>2. InCounts(clock) \in Nat /\ tcnt \in 0 .. TicCounts - 1 /\ op.n \in Nat
  BY InCountsType DEF OtherTypes, TimerTypes, CountType, CallTypes
<1>3. InCounts(clock)' = InCounts(clock)
  BY <1>1 DEF InCounts
<1>4. CASE Count
  <2>1. /\ op' = op
        /\ \/ tcnt' = tcnt + 1 /\ (ocf' <=> ocf)
           \/ tcnt' = 0 /\ ocf' /\ ~ocf
    <3>1. CASE tcnt = TicCounts - 1
      BY <1>4, <3>1 DEF Count
    <3>2. CASE tcnt # TicCounts - 1
      BY <1>4, <3>2 DEF Count
    <3> QED
      BY <3>1, <3>2
  <2>2. TellInv'
    BY <1>1, <1>2, <1>3, <2>1, Sizes DEF ToldInv, TellInv, TellingTime
  <2> QED
    BY <1>1, <2>1, <2>2 DEF ToldInv, ToldTypes, TimeToldIsNear, TellingTime
<1>5. CASE ReadClock
  <2>1. /\ op.at = "clock" /\ op' = [op EXCEPT !.at = "count", !.ts = clock]
        /\ tcnt' = tcnt /\ ocf' = ocf
    BY <1>5 DEF ReadClock, At, hardware
  <2>2. op'.do = op.do /\ op'.at = "count" /\ op'.ts = clock /\ op'.n = op.n
    BY <2>1 DEF OtherTypes, CallTypes
  <2>3. TellInv'
    BY <1>1, <1>2, <1>3, <2>1, <2>2 DEF ToldInv, TellInv, TellingTime
  <2> QED
    BY <1>1, <2>2, <2>3 DEF ToldInv, ToldTypes, TimeToldIsNear, TellingTime
<1>6. CASE ReadCount
  <2>1. /\ op.at = "count" /\ op' = [op EXCEPT !.at = "flag", !.reg = tcnt]
        /\ tcnt' = tcnt /\ ocf' = ocf
    BY <1>6 DEF ReadCount, At, hardware
  <2>2. op'.do = op.do /\ op'.at = "flag" /\ op'.ts = op.ts /\ op'.n = op.n /\ op'.reg = tcnt
    BY <2>1 DEF OtherTypes, CallTypes
  <2>3. TellInv'
    BY <1>1, <1>2, <1>3, <2>1, <2>2 DEF ToldInv, TellInv, TellingTime
  <2> QED
    BY <1>1, <2>2, <2>3 DEF ToldInv, ToldTypes, TimeToldIsNear, TellingTime
<1> QED
  BY <1>4, <1>5, <1>6

LEMMA TellEnds ==
  ASSUME OtherTypes, SetInv, ToldInv, ReadFlag
  PROVE  ToldTypes' /\ TellInv' /\ TimeToldIsNear'
<1> DEFINE read_ == [op.ts EXCEPT !.nsec = @ + Overflow + op.reg]
<1>1. /\ TellingTime /\ op.at = "flag"
      /\ told' = [told EXCEPT !.got = Normal(read_), !.errorf = op.reg < op.n /\ ~ocf,
                              !.to = Now]
      /\ op' = Idle
  BY DEF ReadFlag, At, TellingTime, Return
<1>2. /\ op.ts = clock /\ clock \in Timespec /\ set.time \in Timespec
      /\ clock.nsec \in Nat /\ InCounts(clock) \in Nat
      /\ tcnt \in 0 .. TicCounts - 1 /\ op.n \in 0 .. TicCounts - 1
      /\ op.reg \in 0 .. TicCounts - 1
  BY <1>1, InCountsType DEF OtherTypes, TimerTypes, CountType, ToldInv, TellInv, Timespec
<1>3. /\ ~ocf => op.n <= tcnt /\ op.n <= op.reg /\ op.reg <= tcnt
      /\ \/ told.from = InCounts(clock) + op.n
         \/ told.from = InCounts(clock) + op.n + TicCounts /\ ocf /\ op.n <= op.reg
  BY <1>1 DEF ToldInv, TellInv
<1>4. Valid(clock)
  <2>1. clock = set.time \/ clock = Later(set.time)
    BY <1>1 DEF SetInv, SetTimeHolds, TellingTime
  <2> QED
    BY <1>2, <2>1, LaterValid DEF ToldInv, TimesValid
<1>5. Overflow \in {0, TicCounts} /\ (Overflow = TicCounts <=> ocf)
  BY <1>2, <1>3, Sizes DEF Overflow
<1>6. /\ read_ \in Timespec /\ InCounts(read_) = InCounts(clock) + Overflow + op.reg
      /\ read_.nsec < SecondCounts + 2 * TicCounts
  <2>1. clock.nsec + Overflow + op.reg \in Nat
    BY <1>2, <1>5, Sizes
  <2>2. read_ \in Timespec /\ read_.sec = clock.sec /\ read_.nsec = clock.nsec + Overflow + op.reg
    BY <1>2, <2>1 DEF Timespec
  <2>3. clock.sec * SecondCounts \in Nat /\ SecondCounts \in Nat
    BY <1>2, Sizes DEF Timespec, SecondCounts
  <2>4. InCounts(read_) = InCounts(clock) + Overflow + op.reg
    BY <1>2, <1>5, <2>2, <2>3, Sizes DEF InCounts
  <2> QED
    BY <1>2, <1>4, <1>5, <2>2, <2>3, <2>4, Sizes DEF Valid
<1>7. /\ Normal(read_) \in Timespec /\ Valid(Normal(read_))
      /\ InCounts(Normal(read_)) = InCounts(clock) + Overflow + op.reg
  BY <1>6, NormalSame, NormalValid
<1>8. Now \in Nat /\ Now = InCounts(clock) + tcnt + (IF ocf THEN TicCounts ELSE 0)
  BY <1>2, Sizes DEF Now
<1>9. (op.reg < op.n /\ ~ocf) = FALSE
  BY <1>2, <1>3
<1>10. /\ ToldTypes' /\ told'.from = told.from /\ told'.got = Normal(read_) /\ told'.to = Now
       /\ ~told'.errorf
  <2>1. told' = [told EXCEPT !.got = Normal(read_), !.errorf = FALSE, !.to = Now]
    BY <1>1, <1>9
  <2> QED
    BY <1>7, <1>8, <2>1 DEF ToldInv, ToldTypes
<1>11. told.from <= InCounts(Normal(read_))
  BY <1>2, <1>3, <1>5, <1>7, Sizes
<1>12. InCounts(Normal(read_)) <= Now + TicCounts
  BY <1>2, <1>3, <1>5, <1>7, <1>8, Sizes
<1>13. TimeToldIsNear'
  BY <1>7, <1>10, <1>11, <1>12 DEF TimeToldIsNear, Valid
<1>14. TellInv'
  BY <1>1 DEF TellInv, TellingTime, Idle
<1> QED
  BY <1>10, <1>13, <1>14

LEMMA ToldStep == OtherTypes /\ SetInv /\ ToldInv /\ [Next]_vars => ToldInv'
<1> SUFFICES ASSUME OtherTypes, SetInv, ToldInv, [Next]_vars PROVE ToldInv'
  OBVIOUS
<1>0. TimesValid'
  BY ValidStep DEF ToldInv
<1>1. CASE ClockGetTime
  BY <1>0, <1>1, TellBegins DEF ToldInv
<1>2. CASE TellingTime /\ (Count \/ ReadClock \/ ReadCount)
  BY <1>0, <1>2, TellGoesOn DEF ToldInv
<1>3. CASE ReadFlag
  BY <1>0, <1>3, TellEnds DEF ToldInv
<1>4. CASE UNCHANGED vars
  <2>1. /\ told' = told /\ op' = op /\ clock' = clock /\ irq' = irq /\ tcnt' = tcnt
        /\ ocf' = ocf
    BY <1>4 DEF vars, timing, hardware
  <2> QED
    BY <1>0, <2>1 DEF ToldInv, ToldTypes, TellInv, TellingTime, TimeToldIsNear, InCounts
<1>5. CASE ~TellingTime /\ (Count \/ TimerInterrupt \/ ReceiveInterrupt \/ InstallMmc \/ InstallGpib)
  <2>1. told' = told /\ op' = op
    BY <1>5 DEF Count, TimerInterrupt, ReceiveInterrupt, InstallMmc, InstallGpib
  <2> QED
    BY <1>0, <1>5, <2>1, ToldApart DEF TellingTime
<1>6. TellingTime => ~TimerInterrupt /\ ~ReceiveInterrupt /\ ~InstallMmc /\ ~InstallGpib
  BY DEF ToldInv, TellInv, TellingTime, TimerInterrupt, ReceiveInterrupt, InstallMmc, InstallGpib
<1>7. ReadClock \/ ReadCount => TellingTime
  BY DEF ReadClock, ReadCount, At, TellingTime
<1>8. ASSUME \/ \E t \in Times : ClockSetTime(t)
             \/ \E w \in Waits : GpibTimeoutSet(w) \/ MmcSetTimeout(w)
             \/ MmcTestTimeout \/ GetTail \/ UartRxFlush
      PROVE  ToldInv'
  <2>1. told' = Nothing
    BY <1>8 DEF ClockSetTime, GpibTimeoutSet, MmcSetTimeout, MmcTestTimeout, GetTail,
                UartRxFlush, Starts, Calls
  <2>2. ~TellingTime'
    <3>1. CASE GetTail \/ MmcTestTimeout \/ \E t \in Times : ClockSetTime(t)
      BY <3>1 DEF GetTail, MmcTestTimeout, ClockSetTime, Starts, TellingTime, Idle
    <3>2. ASSUME NEW w \in Waits, MmcSetTimeout(w) PROVE ~TellingTime'
      BY <3>2 DEF MmcSetTimeout, Starts, TellingTime, Idle
    <3>3. ASSUME UartRxFlush \/ \E w \in Waits : GpibTimeoutSet(w) PROVE ~TellingTime'
      BY <3>3 DEF UartRxFlush, GpibTimeoutSet, Calls, TellingTime
    <3> QED
      BY <1>8, <3>1, <3>2, <3>3
  <2> QED
    BY <1>0, <2>1, <2>2, NothingTold DEF ToldInv
<1>9. ASSUME \/ \E f \in Fields, h \in Halves : WriteHalf(f, h) \/ CompareHalf(f, h)
             \/ \E h \in Halves : WriteTimeout(h) \/ ReadTimeout(h)
             \/ TakeTail \/ CountTail
      PROVE  ToldInv'
  <2>1. told' = told /\ op.do # "clock_gettime"
    BY <1>9 DEF WriteHalf, CompareHalf, WriteTimeout, ReadTimeout, TakeTail, CountTail, At
  <2>2. op'.do \in {op.do, "none"}
    <3>1. ASSUME NEW f \in Fields, NEW h \in Halves, WriteHalf(f, h)
          PROVE  op'.do \in {op.do, "none"}
      <4>1. CASE op.halves # {h}
        BY <3>1, <4>1 DEF WriteHalf, OtherTypes, CallTypes
      <4>2. CASE op.halves = {h}
        BY <3>1, <4>2 DEF WriteHalf, Goes, OtherTypes, CallTypes
      <4> QED
        BY <4>1, <4>2
    <3>2. ASSUME NEW f \in Fields, NEW h \in Halves, CompareHalf(f, h)
          PROVE  op'.do \in {op.do, "none"}
      <4>1. CASE op.halves # {h}
        BY <3>2, <4>1 DEF CompareHalf, OtherTypes, CallTypes
      <4>2. CASE op.halves = {h}
        <5>1. Goes("compare sec") \/ Goes("write nsec") \/ Return
          BY <3>2, <4>2 DEF CompareHalf, Compared, Holds, Again
        <5>2. CASE Return
          BY <5>2 DEF Return, Idle
        <5>3. ASSUME NEW at \in Places, Goes(at) PROVE op'.do = op.do
          BY <5>3 DEF Goes, OtherTypes, CallTypes
        <5> QED
          BY <5>1, <5>2, <5>3 DEF Places
      <4> QED
        BY <4>1, <4>2
    <3>3. ASSUME NEW h \in Halves, WriteTimeout(h) PROVE op'.do \in {op.do, "none"}
      <4>1. CASE op.halves = {h}
        BY <3>3, <4>1 DEF WriteTimeout, Return, Idle
      <4>2. CASE op.halves # {h}
        BY <3>3, <4>2 DEF WriteTimeout, OtherTypes, CallTypes
      <4> QED
        BY <4>1, <4>2
    <3>4. ASSUME NEW h \in Halves, ReadTimeout(h) PROVE op'.do \in {op.do, "none"}
      <4>1. CASE op.halves = {h}
        BY <3>4, <4>1 DEF ReadTimeout, Return, Idle
      <4>2. CASE op.halves # {h}
        BY <3>4, <4>2 DEF ReadTimeout, OtherTypes, CallTypes
      <4> QED
        BY <4>1, <4>2
    <3>5. CASE TakeTail
      BY <3>5 DEF TakeTail, OtherTypes, CallTypes
    <3>6. CASE CountTail
      BY <3>6 DEF CountTail, Return, Idle
    <3> QED
      BY <1>9, <3>1, <3>2, <3>3, <3>4, <3>5, <3>6
  <2>3. ~TellingTime /\ ~TellingTime'
    BY <2>1, <2>2 DEF TellingTime
  <2> QED
    BY <1>0, <2>1, <2>3, ToldApart
<1> QED
  BY <1>1, <1>2, <1>3, <1>4, <1>5, <1>6, <1>7, <1>8, <1>9 DEF Next, Step, Call

(* Whenever the tick comes, and however many there are: clock_settime does *)
(* not return before the clock is right, and clock_gettime returns a time  *)
(* no earlier than its call and at most a tick later than its return.      *)
THEOREM ClockHolds == Spec => []ClockKept
<1>1. Init => OtherTypes /\ RingInv /\ SetInv /\ ToldInv
  BY TypesInit, RingInit, SetInit, ToldInit
<1>2. OtherTypes /\ RingInv /\ SetInv /\ ToldInv /\ [Next]_vars
        => (OtherTypes /\ RingInv /\ SetInv /\ ToldInv)'
  <2>1. RingInv => RingTypes
    BY DEF RingInv
  <2> QED
    BY <2>1, TypesStep, RingStep, SetStep, ToldStep
<1>3. SetInv /\ ToldInv => ClockKept
  BY DEF SetInv, ToldInv, ClockKept
<1> QED
  BY <1>1, <1>2, <1>3, PTL DEF Spec
=============================================================================
