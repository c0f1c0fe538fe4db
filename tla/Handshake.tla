------------------------------ MODULE Handshake ------------------------------
(***************************************************************************)
(* The three-wire GPIB handshake of gpib/gpib.c: the transmit state        *)
(* machine of gpib_write_byte and the receive state machine of             *)
(* gpib_read_byte (BOARD 2), run by every party of one bus.                *)
(*                                                                         *)
(* A party is a board running this firmware (gpib/controller.c makes one   *)
(* of them the controller).  The lines are wired-AND: a line is low as     *)
(* soon as one party pulls it.  One step is one turn of the polling loop   *)
(* of the function a party is in: the keyboard test, the IFC test, then    *)
(* the switch on the state.                                                *)
(*                                                                         *)
(* Bytes are numbered in the order in which they are meant to cross the    *)
(* bus, and Talker[n] is the party whose turn it is to send byte n; 0 is   *)
(* what a receiver reads from a bus nobody drives.                         *)
(***************************************************************************)
EXTENDS Integers, Sequences, FiniteSets

CONSTANTS Party,      \* the boards on the bus
          N,          \* how many bytes cross the bus in the instance
          Talker,     \* Talker[n]: the party that sends byte n
          Timeouts,   \* may a wait outlast HTIMEOUT?
          Slow,       \* parties that may stall anywhere, even for HTIMEOUT
          IfcPulses,  \* may the controller pull IFC?
          Keyed       \* parties at whose console a key may be hit

Bytes == 1..N

ASSUME HandshakeAssumption ==
  /\ N \in Nat \ {0}
  /\ Talker \in [Bytes -> Party]
  /\ Slow \cup Keyed \subseteq Party
  /\ {Timeouts, IfcPulses} \subseteq BOOLEAN

VARIABLES pc,    \* pc[p]: the loop state p is in, "idle" between two calls
          num,   \* num[p]: the last byte p has sent, given up or received
          ch,    \* ch[p]: the byte of the call p is in
          dav, nrfd, ndac,  \* the handshake lines p pulls low
          data,  \* data[p]: the byte p drives on the data lines, 0 is none
          done,  \* done[p]: gpib_timer.down_counter_done
          ifc,   \* the IFC line is low
          key,   \* key[p]: a character waits in p's console
          got,   \* got[p]: what p's read calls returned without error flag
          sent   \* the bytes whose write call returned without error flag

pins == <<dav, nrfd, ndac, data>>
vars == <<pc, num, ch, pins, done, ifc, key, got, sent>>

RxStates == {"RX_START", "RX_WAIT_FOR_DAV_LOW", "RX_DAV_IS_LOW",
             "RX_WAIT_FOR_DAV_HI", "RX_DAV_IS_HI", "RX_FINISH", "RX_ERROR"}
TxStates == {"TX_START", "TX_WAIT_READY", "TX_PUT_DATA", "TX_SET_DAV_LOW",
             "TX_WAIT_FOR_NRFD_LOW", "TX_WAIT_FOR_NDAC_HI", "TX_SET_DAV_HI",
             "TX_WAIT_FOR_DAV_HI", "TX_FINISH", "TX_ERROR"}

(* The wired-AND lines, and what gpib_bus_read sees on the data lines.     *)
Low(line) == \E p \in Party : line[p]
BusRead == IF \E p \in Party : data[p] # 0
             THEN data[CHOOSE p \in Party : data[p] # 0]
             ELSE 0

(* Power-up is over: every receiver is in its first gpib_read_byte, busy.  *)
Init ==
  /\ pc = [p \in Party |-> IF p = Talker[1] THEN "idle" ELSE "RX_START"]
  /\ num = [p \in Party |-> 0]
  /\ ch = [p \in Party |-> 0]
  /\ dav = [p \in Party |-> FALSE]
  /\ nrfd = [p \in Party |-> p # Talker[1]]
  /\ ndac = [p \in Party |-> p # Talker[1]]
  /\ data = [p \in Party |-> 0]
  /\ done = [p \in Party |-> TRUE]
  /\ ifc = FALSE
  /\ key = [p \in Party |-> FALSE]
  /\ got = [p \in Party |-> <<>>]
  /\ sent = {}

(***************************************************************************)
(* The pin functions.                                                      *)
(***************************************************************************)
BusKeepsData(p, busy) ==  \* mutant: the data lines are not released
  /\ dav' = [dav EXCEPT ![p] = FALSE]
  /\ nrfd' = [nrfd EXCEPT ![p] = busy]
  /\ ndac' = [ndac EXCEPT ![p] = busy]
  /\ UNCHANGED data

BusReadInit(p, busy) ==  \* gpib_bus_read_init
  /\ dav' = [dav EXCEPT ![p] = FALSE]
  /\ data' = [data EXCEPT ![p] = 0]
  /\ nrfd' = [nrfd EXCEPT ![p] = busy]
  /\ ndac' = [ndac EXCEPT ![p] = busy]

BusInit(p) == BusReadInit(p, FALSE)  \* gpib_bus_init

TimeoutSet(p) == done' = [done EXCEPT ![p] = FALSE]

(* The code tests gpib_timeout_test after the condition it waits for.      *)
TimedOut(p) == done[p]

(***************************************************************************)
(* What every turn of either loop does first: `Free` is neither a key nor  *)
(* IFC.  A call that ends hands its byte to the caller: a read without     *)
(* error flag to `got`, a write without error flag to `sent`.              *)
(***************************************************************************)
Free(p) == ~key[p] /\ ~ifc

Goto(p, s) == pc' = [pc EXCEPT ![p] = s]

ReadReturns(p) ==
  /\ Goto(p, "idle")
  /\ got' = [got EXCEPT ![p] = Append(@, ch[p])]
  /\ num' = [num EXCEPT ![p] = IF ch[p] = 0 THEN @ ELSE ch[p]]
  /\ UNCHANGED <<ch, sent>>

WriteReturns(p) ==
  /\ Goto(p, "idle")
  /\ sent' = sent \cup {ch[p]}
  /\ num' = [num EXCEPT ![p] = ch[p]]
  /\ UNCHANGED <<ch, got>>

(* A call that ends with TIMEOUT_FLAG or IFC_FLAG: the reader forgets the  *)
(* byte, the writer gives it up (gpib_write_str breaks).                   *)
ErrorReturns(p) ==
  /\ Goto(p, "idle")
  /\ num' = [num EXCEPT ![p] = IF pc[p] \in TxStates THEN ch[p] ELSE @]
  /\ UNCHANGED <<ch, got, sent>>

KeyBreak(p) ==  \* the loop ends as if done, the pins stay as they are
  /\ key[p]
  /\ \/ pc[p] \in RxStates /\ ReadReturns(p)
     \/ pc[p] \in TxStates /\ WriteReturns(p)
  /\ UNCHANGED <<pins, done, ifc, key>>

IfcBreak(p) ==
  /\ pc[p] # "idle"
  /\ ~key[p]
  /\ ifc
  /\ BusInit(p)
  /\ ErrorReturns(p)
  /\ UNCHANGED <<done, ifc, key>>

InCall(p, s) == pc[p] = s /\ Free(p)

Stay == UNCHANGED <<num, ch, ifc, key, got, sent>>

(***************************************************************************)
(* gpib_read_byte.  MaxReads bounds the reads that keys cut short.         *)
(***************************************************************************)
MaxReads == 2 * N

StartRead(p) ==
  /\ pc[p] = "idle"
  /\ key[p] => Len(got[p]) < MaxReads
  /\ ~(num[p] < N /\ Talker[num[p] + 1] = p)
  /\ Goto(p, "RX_START")
  /\ ch' = [ch EXCEPT ![p] = 0]
  /\ BusReadInit(p, TRUE)
  /\ UNCHANGED <<num, done, ifc, key, got, sent>>

RxStartBusy(p) ==  \* mutant: NRFD is not released
  /\ InCall(p, "RX_START")
  /\ Goto(p, "RX_WAIT_FOR_DAV_LOW")
  /\ UNCHANGED <<pins, done>>
  /\ Stay

RxStart(p) ==  \* ready for data
  /\ InCall(p, "RX_START")
  /\ nrfd' = [nrfd EXCEPT ![p] = FALSE]
  /\ Goto(p, "RX_WAIT_FOR_DAV_LOW")
  /\ UNCHANGED <<dav, ndac, data, done>>
  /\ Stay

RxWaitForDavLow(p) ==  \* the one wait without timeout
  /\ InCall(p, "RX_WAIT_FOR_DAV_LOW")
  /\ Low(dav)
  /\ Goto(p, "RX_DAV_IS_LOW")
  /\ UNCHANGED <<pins, done>>
  /\ Stay

RxDoesNotWait(p) ==  \* mutant: no wait for the end of DAV
  /\ InCall(p, "RX_DAV_IS_LOW")
  /\ nrfd' = [nrfd EXCEPT ![p] = TRUE]
  /\ ch' = [ch EXCEPT ![p] = BusRead]
  /\ ndac' = [ndac EXCEPT ![p] = FALSE]
  /\ TimeoutSet(p)
  /\ Goto(p, "RX_DAV_IS_HI")
  /\ UNCHANGED <<dav, data, num, ifc, key, got, sent>>

RxStaysReady(p) ==  \* mutant: NRFD stays released while the byte is taken
  /\ InCall(p, "RX_DAV_IS_LOW")
  /\ ch' = [ch EXCEPT ![p] = BusRead]
  /\ ndac' = [ndac EXCEPT ![p] = FALSE]
  /\ TimeoutSet(p)
  /\ Goto(p, "RX_WAIT_FOR_DAV_HI")
  /\ UNCHANGED <<dav, nrfd, data, num, ifc, key, got, sent>>

RxDavIsLow(p) ==  \* busy, latch the byte, accept it
  /\ InCall(p, "RX_DAV_IS_LOW")
  /\ nrfd' = [nrfd EXCEPT ![p] = TRUE]
  /\ ch' = [ch EXCEPT ![p] = BusRead]
  /\ ndac' = [ndac EXCEPT ![p] = FALSE]
  /\ TimeoutSet(p)
  /\ Goto(p, "RX_WAIT_FOR_DAV_HI")
  /\ UNCHANGED <<dav, data, num, ifc, key, got, sent>>

RxWaitForDavHi(p) ==
  /\ InCall(p, "RX_WAIT_FOR_DAV_HI")
  /\ \/ ~Low(dav) /\ ~TimedOut(p) /\ Goto(p, "RX_DAV_IS_HI")
     \/ TimedOut(p) /\ Goto(p, "RX_ERROR")
  /\ UNCHANGED <<pins, done>>
  /\ Stay

RxDavIsHi(p) ==
  /\ InCall(p, "RX_DAV_IS_HI")
  /\ Goto(p, "RX_FINISH")
  /\ UNCHANGED <<pins, done>>
  /\ Stay

(* The loop ends at RX_DONE: the case RX_DONE with its gpib_bus_read_init  *)
(* is never run, NRFD stays low and NDAC stays released.                   *)
RxFinish(p) ==
  /\ InCall(p, "RX_FINISH")
  /\ ReadReturns(p)
  /\ UNCHANGED <<pins, done, ifc, key>>

RxError(p) ==
  /\ InCall(p, "RX_ERROR")
  /\ ErrorReturns(p)
  /\ UNCHANGED <<pins, done, ifc, key>>

Read(p) ==
  \/ StartRead(p) \/ RxStart(p) \/ RxWaitForDavLow(p) \/ RxDavIsLow(p)
  \/ RxWaitForDavHi(p) \/ RxDavIsHi(p) \/ RxFinish(p) \/ RxError(p)

(***************************************************************************)
(* gpib_write_byte.                                                        *)
(***************************************************************************)
(* The settle delays before the first turn outlast a turn of a receiver:   *)
(* one that saw DAV low has latched before the next byte is put out.       *)
StartWrite(p) ==
  /\ pc[p] = "idle"
  /\ \A q \in Party \ Slow : pc[q] # "RX_DAV_IS_LOW"
  /\ num[p] < N
  /\ Talker[num[p] + 1] = p
  /\ ch' = [ch EXCEPT ![p] = num[p] + 1]
  /\ Goto(p, "TX_START")
  /\ BusReadInit(p, FALSE)
  /\ TimeoutSet(p)
  /\ UNCHANGED <<num, ifc, key, got, sent>>

(* A wait of gpib_write_byte: met, the timer restarts and the test of the  *)
(* timer after it fails; not met, the timer may have run out.              *)
TxWait(p, here, cond, next) ==
  /\ InCall(p, here)
  /\ \/ cond /\ TimeoutSet(p) /\ Goto(p, next)
     \/ ~cond /\ TimedOut(p) /\ Goto(p, "TX_ERROR") /\ UNCHANGED done
  /\ UNCHANGED pins
  /\ Stay

TxStart(p) == TxWait(p, "TX_START", ~Low(dav), "TX_WAIT_READY")

TxOneReady(p) ==  \* mutant: NRFD is not tested
  TxWait(p, "TX_WAIT_READY", Low(ndac), "TX_PUT_DATA")

TxWaitReady(p) ==
  TxWait(p, "TX_WAIT_READY", ~Low(nrfd) /\ Low(ndac), "TX_PUT_DATA")

TxPutData(p) ==
  /\ InCall(p, "TX_PUT_DATA")
  /\ data' = [data EXCEPT ![p] = ch[p]]
  /\ TimeoutSet(p)
  /\ Goto(p, "TX_SET_DAV_LOW")
  /\ UNCHANGED <<dav, nrfd, ndac>>
  /\ Stay

TxSetDavLow(p) ==
  /\ InCall(p, "TX_SET_DAV_LOW")
  /\ dav' = [dav EXCEPT ![p] = TRUE]
  /\ TimeoutSet(p)
  /\ Goto(p, "TX_WAIT_FOR_NRFD_LOW")
  /\ UNCHANGED <<data, nrfd, ndac>>
  /\ Stay

TxNobodyTakes(p) ==  \* mutant: the byte is withdrawn unacknowledged
  TxWait(p, "TX_WAIT_FOR_NRFD_LOW", TRUE, "TX_SET_DAV_HI")

TxWaitForNrfdLow(p) ==
  TxWait(p, "TX_WAIT_FOR_NRFD_LOW", Low(nrfd), "TX_WAIT_FOR_NDAC_HI")

TxNoAccept(p) ==  \* mutant: NDAC is not tested
  /\ InCall(p, "TX_WAIT_FOR_NDAC_HI")
  /\ Goto(p, "TX_SET_DAV_HI")
  /\ UNCHANGED <<pins, done>>
  /\ Stay

TxWaitsForEver(p) ==  \* mutant: no timeout
  /\ InCall(p, "TX_WAIT_FOR_NDAC_HI")
  /\ ~Low(ndac)
  /\ Goto(p, "TX_SET_DAV_HI")
  /\ UNCHANGED <<pins, done>>
  /\ Stay

TxWaitForNdacHi(p) ==  \* this wait restarts no timer
  /\ InCall(p, "TX_WAIT_FOR_NDAC_HI")
  /\ \/ ~Low(ndac) /\ Goto(p, "TX_SET_DAV_HI")
     \/ Low(ndac) /\ TimedOut(p) /\ Goto(p, "TX_ERROR")
  /\ UNCHANGED <<pins, done>>
  /\ Stay

TxSetDavHi(p) ==
  /\ InCall(p, "TX_SET_DAV_HI")
  /\ BusReadInit(p, FALSE)
  /\ TimeoutSet(p)
  /\ Goto(p, "TX_WAIT_FOR_DAV_HI")
  /\ Stay

TxWaitForDavHi(p) ==
  /\ InCall(p, "TX_WAIT_FOR_DAV_HI")
  /\ \/ ~Low(dav) /\ Goto(p, "TX_FINISH")
     \/ Low(dav) /\ TimedOut(p) /\ Goto(p, "TX_ERROR")
  /\ UNCHANGED <<pins, done>>
  /\ Stay

TxFinish(p) ==
  /\ InCall(p, "TX_FINISH")
  /\ WriteReturns(p)
  /\ UNCHANGED <<pins, done, ifc, key>>

TxError(p) ==
  /\ InCall(p, "TX_ERROR")
  /\ BusReadInit(p, TRUE)
  /\ ErrorReturns(p)
  /\ UNCHANGED <<done, ifc, key>>

Write(p) ==
  \/ StartWrite(p) \/ TxStart(p) \/ TxWaitReady(p) \/ TxPutData(p)
  \/ TxSetDavLow(p) \/ TxWaitForNrfdLow(p) \/ TxWaitForNdacHi(p)
  \/ TxSetDavHi(p) \/ TxWaitForDavHi(p) \/ TxFinish(p) \/ TxError(p)

(***************************************************************************)
(* A turn of a loop takes microseconds, HTIMEOUT is half a second: a       *)
(* countdown ends only when every party that does not stall is blocked in  *)
(* a wait, or away from the bus between two calls (reading the disk, say). *)
(***************************************************************************)
Blocked(q) ==
  \/ pc[q] = "idle"
  \/ /\ Free(q)
     /\ \/ pc[q] = "RX_WAIT_FOR_DAV_LOW" /\ ~Low(dav)
        \/ /\ ~done[q]
           /\ \/ pc[q] \in {"RX_WAIT_FOR_DAV_HI", "TX_START",
                            "TX_WAIT_FOR_DAV_HI"} /\ Low(dav)
              \/ pc[q] = "TX_WAIT_READY" /\ (Low(nrfd) \/ ~Low(ndac))
              \/ pc[q] = "TX_WAIT_FOR_NRFD_LOW" /\ ~Low(nrfd)
              \/ pc[q] = "TX_WAIT_FOR_NDAC_HI" /\ Low(ndac)

(***************************************************************************)
(* The environment: the 1 ms tick that ends a countdown, the controller's  *)
(* IFC line, the console.  gpib_error_test answers a key after a call with *)
(* gpib_init_devices and leaves gpib_task, whose caller reads the key.     *)
(***************************************************************************)
TimerTask(p) ==
  /\ Timeouts
  /\ pc[p] # "idle"
  /\ ~done[p]
  /\ \A q \in {p} \cup (Party \ Slow) : Blocked(q)
  /\ done' = [done EXCEPT ![p] = TRUE]
  /\ UNCHANGED <<pc, num, ch, pins, ifc, key, got, sent>>

(* A pulse (gpib_assert_ifc: 250 us) outlasts a turn of every loop, but    *)
(* not a disk access: a party between two calls may miss it.               *)
Ifc ==
  /\ IfcPulses
  /\ ifc => \A q \in Party \ Slow : pc[q] = "idle"
  /\ ifc' = ~ifc
  /\ UNCHANGED <<pc, num, ch, pins, done, key, got, sent>>

KeyHit(p) ==
  /\ p \in Keyed
  /\ ~key[p]
  /\ Len(got[p]) < MaxReads
  /\ key' = [key EXCEPT ![p] = TRUE]
  /\ UNCHANGED <<pc, num, ch, pins, done, ifc, got, sent>>

KeyTaken(p) ==
  /\ key[p]
  /\ pc[p] = "idle"
  /\ BusInit(p)
  /\ key' = [key EXCEPT ![p] = FALSE]
  /\ UNCHANGED <<pc, num, ch, done, ifc, got, sent>>

Step(p) == Read(p) \/ Write(p) \/ KeyBreak(p) \/ IfcBreak(p)

(* Everything has been sent and every receiver waits for the next byte.    *)
Quiet ==
  /\ \A p \in Party : pc[p] = "RX_WAIT_FOR_DAV_LOW" /\ ~Low(dav)
  /\ UNCHANGED vars

Next ==
  \/ \E p \in Party : Step(p) \/ TimerTask(p) \/ KeyHit(p) \/ KeyTaken(p)
  \/ Ifc
  \/ Quiet

Spec == Init /\ [][Next]_vars

(* The processor keeps polling in every call and does not miss every pulse *)
(* of the lines, and a countdown that is not restarted ends: the tick      *)
(* never stops.                                                            *)
Fair(p) == SF_vars(Step(p)) /\ SF_vars(TimerTask(p))

FairSpec == Spec /\ \A p \in Party : Fair(p)

(* The first talker is sure to run, those that may stall may stop anywhere. *)
TalkerRuns == Spec /\ \A p \in {Talker[1]} \cup (Party \ Slow) : Fair(p)

(***************************************************************************)
(* Correctness.                                                            *)
(***************************************************************************)
TypeOK ==
  /\ pc \in [Party -> {"idle"} \cup RxStates \cup TxStates]
  /\ num \in [Party -> 0..N]
  /\ ch \in [Party -> 0..N]
  /\ dav \in [Party -> BOOLEAN]
  /\ nrfd \in [Party -> BOOLEAN]
  /\ ndac \in [Party -> BOOLEAN]
  /\ data \in [Party -> 0..N]
  /\ done \in [Party -> BOOLEAN]
  /\ ifc \in BOOLEAN
  /\ key \in [Party -> BOOLEAN]
  /\ got \in [Party -> Seq(0..N)]
  /\ sent \in SUBSET Bytes
  /\ \A p \in Party : pc[p] \in TxStates => ch[p] \in Bytes

(* p has latched a byte and its gpib_read_byte has not returned it yet.    *)
Holding(p) == pc[p] \in {"RX_WAIT_FOR_DAV_HI", "RX_DAV_IS_HI", "RX_FINISH"}

Returned(p) == {got[p][i] : i \in 1..Len(got[p])}

(* A byte whose gpib_write_byte returned without error flag has been       *)
(* accepted by every other party: it is with the caller of that party's    *)
(* gpib_read_byte, or about to be returned to it.                          *)
ConfirmedDelivered ==
  \A n \in sent, p \in Party :
    Talker[n] # p => n \in Returned(p) \/ (Holding(p) /\ ch[p] = n)

(* No party reads a byte it has already read, and none reads two bytes in  *)
(* another order than they were sent, whatever waits time out, whenever    *)
(* IFC is pulled: a byte still on the bus when a receiver gives up and     *)
(* reads again is returned once.                                           *)
NeverTwice ==
  \A p \in Party \ (Slow \cup Keyed) : \A i, j \in 1..Len(got[p]) :
    i < j /\ got[p][j] # 0 => got[p][i] < got[p][j]

(* A party misses none of the bytes sent by others before the last one it  *)
(* knows of, when roles change between bytes.                              *)
NothingMissed ==
  \A p \in Party : \A n \in 1..num[p] : Talker[n] # p => n \in Returned(p)

(* Only one party drives DAV and the data lines.                           *)
OneDriver ==
  \A p, q \in Party : (dav[p] \/ data[p] # 0) /\ (dav[q] \/ data[q] # 0) => p = q

(* gpib_write_byte returns, whatever the other parties do, since each of   *)
(* its waits is bounded by HTIMEOUT.                                       *)
WriterReturns == pc[Talker[1]] \in TxStates ~> pc[Talker[1]] = "idle"

(* Without faults every byte reaches every party.                          *)
AllDelivered == <>(\A p \in Party : num[p] = N)

(* The channel the handshake implements when one party does all the        *)
(* talking: a byte is offered when DAV goes low on it.                     *)
Source == Talker[1]
Offering == pc[Source] \in {"TX_WAIT_FOR_NRFD_LOW", "TX_WAIT_FOR_NDAC_HI",
                            "TX_SET_DAV_HI", "TX_WAIT_FOR_DAV_HI", "TX_FINISH"}
Receivers == Party \ {Source}
Offered == IF Offering THEN ch[Source] ELSE num[Source]
Taken == [r \in Receivers |-> IF Holding(r) THEN ch[r] ELSE num[r]]
Given == [r \in Receivers |-> got[r]]
Channel == INSTANCE ByteChannel WITH Receiver <- Receivers,
  offered <- Offered, taken <- Taken, got <- Given, confirmed <- sent

ImplementsChannel == Channel!Spec

(***************************************************************************)
(* The invariant behind the refinement, for one talker and no fault: where *)
(* each receiver can be, what it pulls low and which byte it knows, for    *)
(* each state of the talker.                                               *)
(***************************************************************************)
NoFault == ~Timeouts /\ ~IfcPulses /\ Keyed = {}
OneTalker == NoFault /\ \A n \in Bytes : Talker[n] = Source

ReceiverLines(r) ==  \* what a receiver pulls low, state by state
  /\ ~dav[r] /\ data[r] = 0
  /\ nrfd[r] <=> (pc[r] \notin {"RX_WAIT_FOR_DAV_LOW", "RX_DAV_IS_LOW"})
  /\ ndac[r] <=> (pc[r] \in {"RX_START", "RX_WAIT_FOR_DAV_LOW", "RX_DAV_IS_LOW"})
  /\ Holding(r) => ~done[r]

SourceLines ==
  /\ dav[Source] <=> (pc[Source] \in {"TX_WAIT_FOR_NRFD_LOW",
                                      "TX_WAIT_FOR_NDAC_HI", "TX_SET_DAV_HI"})
  /\ data[Source] = IF dav[Source] \/ pc[Source] = "TX_SET_DAV_LOW"
                      THEN ch[Source] ELSE 0
  /\ pc[Source] \in TxStates => ~nrfd[Source] /\ ~ndac[Source] /\ ~done[Source]

LineStates ==
  /\ ~ifc
  /\ \A p \in Party : ~key[p]
  /\ SourceLines
  /\ \A r \in Receivers : ReceiverLines(r)

(* r has returned every byte up to n and has not seen DAV low since / has  *)
(* latched n and not returned it.                                          *)
Knows(r, n) ==
  pc[r] \in {"idle", "RX_START", "RX_WAIT_FOR_DAV_LOW"} /\ num[r] = n
Holds(r, n) == Holding(r) /\ ch[r] = n /\ num[r] = n - 1

Follows(r) ==
  \/ /\ pc[Source] \in {"idle", "TX_START", "TX_WAIT_READY",
                        "RX_START", "RX_WAIT_FOR_DAV_LOW"}
     /\ Knows(r, num[Source]) \/ Holds(r, num[Source])
  \/ /\ pc[Source] \in {"TX_PUT_DATA", "TX_SET_DAV_LOW"}
     /\ pc[r] = "RX_WAIT_FOR_DAV_LOW" /\ num[r] = num[Source]
  \/ /\ pc[Source] \in {"TX_WAIT_FOR_NRFD_LOW", "TX_WAIT_FOR_NDAC_HI"}
     /\ num[r] = num[Source]
     /\ \/ pc[r] \in {"RX_WAIT_FOR_DAV_LOW", "RX_DAV_IS_LOW"}
        \/ pc[r] = "RX_WAIT_FOR_DAV_HI" /\ ch[r] = ch[Source]
  \/ /\ pc[Source] = "TX_SET_DAV_HI"
     /\ pc[r] = "RX_WAIT_FOR_DAV_HI" /\ ch[r] = ch[Source] /\ num[r] = num[Source]
  \/ /\ pc[Source] \in {"TX_WAIT_FOR_DAV_HI", "TX_FINISH"}
     /\ Knows(r, ch[Source]) \/ Holds(r, ch[Source])

TalkerAndReceivers ==
  /\ \/ pc[Source] \in {"idle"} \cup (TxStates \ {"TX_ERROR"})
     \/ pc[Source] \in {"RX_START", "RX_WAIT_FOR_DAV_LOW"} /\ num[Source] = N
  /\ \A r \in Receivers : Follows(r)

Logs ==
  /\ pc[Source] \in TxStates => ch[Source] = num[Source] + 1
  /\ sent = 1..num[Source]
  /\ \A r \in Receivers :
       /\ Len(got[r]) = num[r]
       /\ \A i \in 1..Len(got[r]) : got[r][i] = i

(* One talker, no fault: the receivers follow the talker in lockstep, and  *)
(* each has been given the bytes 1, 2, 3... without gap or repetition.     *)
OneTalkerInv == LineStates /\ TalkerAndReceivers /\ Logs
==============================================================================
