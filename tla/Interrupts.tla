----------------------------- MODULE Interrupts -----------------------------
(***************************************************************************)
(* The program and its two interrupts: the system timer of lib/timer.c and *)
(* lib/timer_hal.c with the tasks it runs (the clock, the time-out of      *)
(* gpib/gpib.c and that of fatfs.hal/mmc_hal.c), and the receiver of the   *)
(* console, hardware/rs232.c.                                              *)
(*                                                                         *)
(* The program takes one call at a time; an interrupt comes between any    *)
(* two of its steps while the flag I is set.  A word is longer than what   *)
(* the processor moves at once: it is read and written in two halves, in   *)
(* the order the compiler likes.  gpib_timer_task sets I inside the timer  *)
(* interrupt; it is the last task installed, so an interrupt that comes    *)
(* then is no different from one that comes after the return.              *)
(***************************************************************************)
EXTENDS Integers, Sequences, FiniteSets

CONSTANTS
  TicCounts,    \* TIMER1_COUNTS_PER_TIC: counts of the hardware timer in a tick
  SecondTics,   \* SYSTEM_TASK_HZ: ticks in a second
  HalfWord,     \* how many values half a word has
  RX_BUF_SIZE,  \* the ring of received characters
  Times,        \* what the clock is set to
  Waits,        \* what the time-outs are set to
  Torn,         \* may a tick fall between the halves mmc_test_timeout reads?
  MaxInterrupts, MaxCalls  \* bounds of the instance

ASSUME SizesAssumption ==
  /\ {TicCounts, SecondTics, HalfWord, RX_BUF_SIZE} \subseteq Nat \ {0}
  /\ Times \subseteq [sec : Nat, nsec : Nat] /\ Waits \subseteq Nat
  /\ Torn \in BOOLEAN

(* SYSTEM_TASK_HZ is 1000; nobody sets nanoseconds of a second or more.    *)
ASSUME ClockAssumption ==
  /\ SecondTics > 1
  /\ \A t \in Times : t.nsec < SecondTics * TicCounts

SecondCounts == SecondTics * TicCounts

VARIABLES
  irq,    \* the flag I: interrupts are let in
  tcnt,   \* TCNT1
  ocf,    \* OCF1A: the timer interrupt is pending
  tasks,  \* the tasks in timer_irq
  clock,  \* __clock, its nanoseconds in counts of the hardware timer
  gpib,   \* gpib_timer: its down_counter and down_counter_done
  mmc,    \* _mmc_timeout
  rx_head, rx_tail, rx_count, rx_error, rx_buf,  \* uarts[0]
  op,     \* the call the program is in: what, where in it, with what
  sent,   \* bookkeeping: how many characters have come
  stored, read, lost,  \* bookkeeping, since the last flush: those put in the ring,
                       \* those read from it, and how many found no room
  set,    \* bookkeeping: the time last set, later by the ticks since its call ended,
          \* and whether a tick fell into the last round of such a call
  told,   \* bookkeeping: what a call just made read, and the time before and after it
  gpibWait, mmcWait,  \* bookkeeping: the time-outs asked for, and the ticks since
  used    \* bookkeeping: ticks and calls so far

hardware == <<irq, tcnt, ocf>>
ring == <<rx_head, rx_tail, rx_count, rx_error, rx_buf>>
serial == <<ring, sent, stored, read, lost>>
waits == <<gpibWait, mmcWait>>
timing == <<tasks, clock, gpib, mmc, set, waits>>
vars == <<hardware, serial, timing, op, told, used>>

Halves == {"lo", "hi"}
Fields == {"nsec", "sec"}
RX_OVERFLOW == 1
Zero == [sec |-> 0, nsec |-> 0]
Idle == [do |-> "none", at |-> "none", halves |-> {}, ts |-> Zero, n |-> 0, reg |-> 0]

Nothing == [from |-> 0, got |-> Zero, to |-> 0, errorf |-> FALSE]

Init ==  \* after init_timers and uart_init
  /\ irq = TRUE /\ tcnt = 0 /\ ocf = FALSE
  /\ tasks = {"clock_task"}
  /\ clock = Zero
  /\ gpib = [down |-> 0, done |-> FALSE]
  /\ mmc = 0
  /\ rx_head = 0 /\ rx_tail = 0 /\ rx_count = 0 /\ rx_error = 0
  /\ rx_buf = [i \in 0 .. RX_BUF_SIZE - 1 |-> 0]
  /\ op = Idle
  /\ sent = 0 /\ stored = <<>> /\ read = <<>> /\ lost = 0
  /\ set = [time |-> Zero, tick |-> FALSE]
  /\ told = Nothing
  /\ gpibWait = [for |-> 0, ticks |-> 0, over |-> TRUE] /\ mmcWait = gpibWait
  /\ used = [tics |-> 0, calls |-> 0]

-----------------------------------------------------------------------------
(* Words and halves.                                                       *)
Half(x, h) == IF h = "lo" THEN x % HalfWord ELSE x \div HalfWord
Put(x, y, h) ==  \* x with half h of y
  IF h = "lo" THEN HalfWord * Half(x, "hi") + Half(y, "lo")
              ELSE HalfWord * Half(y, "hi") + Half(x, "lo")

-----------------------------------------------------------------------------
(* The interrupts.  The program lets no tick wait for the next one.        *)
Later(c) ==  \* clock_task
  IF c.nsec + TicCounts >= SecondCounts THEN [sec |-> c.sec + 1, nsec |-> 0]
                                        ELSE [c EXCEPT !.nsec = @ + TicCounts]

EarlyDone(g) ==  \* mutant: the last tick of the countdown ends it
  IF g.down > 1 THEN [g EXCEPT !.down = @ - 1] ELSE [down |-> 0, done |-> TRUE]
Counted(g) ==  \* gpib_timer_task
  IF g.down > 0 THEN [g EXCEPT !.down = @ - 1] ELSE [g EXCEPT !.done = TRUE]

Passed(w) == IF w.over THEN w ELSE [w EXCEPT !.ticks = @ + 1]

More == used.tics + sent < MaxInterrupts

Count ==
  LET wraps == tcnt = TicCounts - 1 IN
  /\ wraps => ~ocf /\ More
  /\ tcnt' = IF wraps THEN 0 ELSE tcnt + 1
  /\ ocf' = (ocf \/ wraps)
  /\ used' = [used EXCEPT !.tics = IF wraps THEN @ + 1 ELSE @]
  /\ UNCHANGED <<irq, serial, timing, op, told>>

(* A round of clock_settime is over before a second tick.                  *)
RoundIsShort == op.do = "clock_settime" => ~set.tick
BetweenHalves == op.do = "mmc_test_timeout" /\ Cardinality(op.halves) = 1

TimerInterrupt ==  \* execute_timers: each task installed, once
  /\ irq /\ ocf
  /\ RoundIsShort
  /\ BetweenHalves => Torn
  /\ ocf' = FALSE
  /\ clock' = Later(clock)
  /\ gpib' = IF "gpib_timer_task" \in tasks THEN Counted(gpib) ELSE gpib
  /\ mmc' = IF "mmc_task" \in tasks /\ mmc > 0 THEN mmc - 1 ELSE mmc
  /\ set' = [time |-> Later(set.time), tick |-> set.tick \/ op.do = "clock_settime"]
  /\ gpibWait' = IF "gpib_timer_task" \in tasks THEN Passed(gpibWait) ELSE gpibWait
  /\ mmcWait' = IF "mmc_task" \in tasks THEN Passed(mmcWait) ELSE mmcWait
  /\ UNCHANGED <<irq, tcnt, serial, tasks, op, told, used>>

Wrapped(i) == IF i + 1 >= RX_BUF_SIZE THEN 0 ELSE i + 1

ReceiveInterrupt ==  \* uart_rx_interrupt
  /\ irq
  /\ More
  /\ sent' = sent + 1
  /\ IF rx_count < RX_BUF_SIZE
       THEN /\ rx_buf' = [rx_buf EXCEPT ![rx_head] = sent + 1]
            /\ rx_head' = Wrapped(rx_head)
            /\ rx_count' = rx_count + 1
            /\ stored' = Append(stored, sent + 1)
            /\ UNCHANGED <<rx_error, lost>>
       ELSE /\ rx_error' = RX_OVERFLOW /\ lost' = lost + 1
            /\ UNCHANGED <<rx_buf, rx_head, rx_count, stored>>
  /\ UNCHANGED <<hardware, rx_tail, read, timing, op, told, used>>

-----------------------------------------------------------------------------
(* The calls of the program: where it is, the halves of a word it has still *)
(* to move, the struct timespec, the number and the register it works with. *)
Calls(reading) ==
  /\ op.do = "none"
  /\ used.calls < MaxCalls
  /\ used' = [used EXCEPT !.calls = @ + 1]
  /\ told' = reading
Starts(call) == Calls(Nothing) /\ op' = call

At(do, at) == op.do = do /\ op.at = at
Return == op' = Idle
Cli == irq' = FALSE /\ UNCHANGED <<tcnt, ocf>>
Sei == irq' = TRUE /\ UNCHANGED <<tcnt, ocf>>

(* main: mmc_init installs mmc_task, then gpib_timer_init its own, whose    *)
(* gpib_timer_reset leaves what a tick in between leaves, too.             *)
InstallMmc ==
  /\ op.do = "none" /\ "mmc_task" \notin tasks
  /\ tasks' = tasks \cup {"mmc_task"}
  /\ mmc' = 0
  /\ UNCHANGED <<hardware, serial, clock, gpib, set, waits, op, told, used>>

InstallGpib ==
  /\ op.do = "none" /\ "mmc_task" \in tasks /\ "gpib_timer_task" \notin tasks
  /\ tasks' = tasks \cup {"gpib_timer_task"}
  /\ gpib' = [down |-> 0, done |-> TRUE]
  /\ UNCHANGED <<hardware, serial, clock, mmc, set, waits, op, told, used>>

(* clock_settime: write nsec and sec, compare them with what was meant, and *)
(* start again when they are not that.                                     *)
ClockSetTime(t) ==
  /\ Starts([Idle EXCEPT !.do = "clock_settime", !.at = "write nsec",
                         !.halves = Halves, !.ts = t])
  /\ set' = [set EXCEPT !.tick = FALSE]
  /\ UNCHANGED <<hardware, serial, tasks, clock, gpib, mmc, waits>>

Goes(at) == op' = [op EXCEPT !.at = at, !.halves = Halves, !.reg = 0]

WriteHalf(f, h) ==
  /\ At("clock_settime", IF f = "nsec" THEN "write nsec" ELSE "write sec")
  /\ h \in op.halves
  /\ clock' = [clock EXCEPT ![f] = Put(@, op.ts[f], h)]
  /\ IF op.halves # {h} THEN op' = [op EXCEPT !.halves = @ \ {h}]
                        ELSE Goes(IF f = "nsec" THEN "write sec" ELSE "compare nsec")
  /\ UNCHANGED <<hardware, serial, tasks, gpib, mmc, set, waits, told, used>>

Again == Goes("write nsec") /\ set' = [set EXCEPT !.tick = FALSE]
Holds(f) ==
  IF f = "nsec" THEN Goes("compare sec") /\ UNCHANGED set
                ELSE Return /\ set' = [set EXCEPT !.time = op.ts]

NeverAgain(f, word) == Holds(f)  \* mutant: it is not written again
Compared(f, word) == IF word = op.ts[f] THEN Holds(f) ELSE Again

CompareHalf(f, h) ==
  /\ At("clock_settime", IF f = "nsec" THEN "compare nsec" ELSE "compare sec")
  /\ h \in op.halves
  /\ LET word == Put(op.reg, clock[f], h) IN
       IF op.halves # {h} THEN op' = [op EXCEPT !.halves = @ \ {h}, !.reg = word] /\ UNCHANGED set
                          ELSE Compared(f, word)
  /\ UNCHANGED <<hardware, serial, tasks, clock, gpib, mmc, waits, told, used>>

(* clock_gettime: interrupts off, the counter read before and after the    *)
(* clock, and then the flag that tells whether it has wrapped.             *)
InCounts(t) == t.sec * SecondCounts + t.nsec
Now == InCounts(clock) + tcnt + (IF ocf THEN TicCounts ELSE 0)

ClockGetTime ==
  /\ Calls([Nothing EXCEPT !.from = Now])
  /\ op' = [Idle EXCEPT !.do = "clock_gettime", !.at = "clock", !.n = tcnt]
  /\ Cli
  /\ UNCHANGED <<serial, timing>>

ReadClock ==
  /\ At("clock_gettime", "clock")
  /\ op' = [op EXCEPT !.at = "count", !.ts = clock]
  /\ UNCHANGED <<hardware, serial, timing, told, used>>

ReadCount ==
  /\ At("clock_gettime", "count")
  /\ op' = [op EXCEPT !.at = "flag", !.reg = tcnt]
  /\ UNCHANGED <<hardware, serial, timing, told, used>>

OnlyLooksBack ==  \* mutant: the flag alone does not count
  IF op.reg < op.n THEN TicCounts ELSE 0
Overflow == IF op.reg < op.n \/ ocf THEN TicCounts ELSE 0

Normal(t) == IF t.nsec >= SecondCounts
               THEN [sec |-> t.sec + 1, nsec |-> t.nsec - SecondCounts] ELSE t

ReadFlag ==
  /\ At("clock_gettime", "flag")
  /\ told' = [told EXCEPT !.got = Normal([op.ts EXCEPT !.nsec = @ + Overflow + op.reg]),
                          !.errorf = op.reg < op.n /\ ~ocf,
                          !.to = Now]
  /\ Sei
  /\ Return
  /\ UNCHANGED <<serial, timing, used>>

(* gpib_timeout_set, with interrupts off; gpib_timeout_test reads a byte.  *)
GpibTimeoutSet(time) ==
  /\ "gpib_timer_task" \in tasks
  /\ Calls(Nothing)
  /\ gpib' = [down |-> time, done |-> FALSE]
  /\ gpibWait' = [for |-> time, ticks |-> 0, over |-> FALSE]
  /\ UNCHANGED <<hardware, serial, tasks, clock, mmc, set, mmcWait, op>>

(* mmc_set_ms_timeout writes the word with interrupts off,                 *)
(* mmc_test_timeout reads it with interrupts on.                           *)
MmcSetTimeout(ms) ==
  /\ "mmc_task" \in tasks
  /\ Starts([Idle EXCEPT !.do = "mmc_set_ms_timeout", !.at = "write",
                         !.halves = Halves, !.n = ms])
  /\ Cli
  /\ mmcWait' = [for |-> ms, ticks |-> 0, over |-> FALSE]
  /\ UNCHANGED <<serial, tasks, clock, gpib, mmc, set, gpibWait>>

WriteTimeout(h) ==
  /\ At("mmc_set_ms_timeout", "write")
  /\ h \in op.halves
  /\ mmc' = Put(mmc, op.n, h)
  /\ IF op.halves = {h} THEN Return /\ Sei
     ELSE op' = [op EXCEPT !.halves = @ \ {h}] /\ UNCHANGED hardware
  /\ UNCHANGED <<serial, tasks, clock, gpib, set, waits, told, used>>

MmcTestTimeout ==
  /\ "mmc_task" \in tasks /\ ~mmcWait.over
  /\ Starts([Idle EXCEPT !.do = "mmc_test_timeout", !.at = "read", !.halves = Halves])
  /\ UNCHANGED <<hardware, serial, timing>>

ReadTimeout(h) ==
  /\ At("mmc_test_timeout", "read")
  /\ h \in op.halves
  /\ LET word == Put(op.reg, mmc, h) IN
       IF op.halves = {h} THEN Return /\ mmcWait' = [mmcWait EXCEPT !.over = word = 0]
       ELSE op' = [op EXCEPT !.halves = @ \ {h}, !.reg = word] /\ UNCHANGED mmcWait
  /\ UNCHANGED <<hardware, serial, tasks, clock, gpib, mmc, set, gpibWait, told, used>>

(* uart_get_tail: wait for a character with interrupts on, take it with    *)
(* interrupts off.  uart_rx_count is the wait's one look at the count.     *)
GetTailOpen ==  \* mutant: interrupts stay on
  /\ rx_count >= 1
  /\ Starts([Idle EXCEPT !.do = "uart_get_tail", !.at = "tail"])
  /\ UNCHANGED <<hardware, serial, timing>>

GetTail ==
  /\ rx_count >= 1
  /\ Starts([Idle EXCEPT !.do = "uart_get_tail", !.at = "tail"])
  /\ Cli
  /\ UNCHANGED <<serial, timing>>

TakeTail ==
  /\ At("uart_get_tail", "tail")
  /\ op' = [op EXCEPT !.at = "count", !.n = rx_buf[rx_tail], !.reg = rx_count]
  /\ rx_tail' = Wrapped(rx_tail)
  /\ UNCHANGED <<hardware, rx_head, rx_count, rx_error, rx_buf, sent, stored, read, lost,
                 timing, told, used>>

CountTail ==
  /\ At("uart_get_tail", "count")
  /\ rx_count' = op.reg - 1
  /\ read' = Append(read, op.n)
  /\ Sei
  /\ Return
  /\ UNCHANGED <<rx_head, rx_tail, rx_error, rx_buf, sent, stored, lost, timing, told, used>>

UartRxFlush ==  \* all of it with interrupts off
  /\ Calls(Nothing)
  /\ rx_head' = 0 /\ rx_tail' = 0 /\ rx_count' = 0 /\ rx_error' = 0
  /\ stored' = <<>> /\ read' = <<>> /\ lost' = 0
  /\ UNCHANGED <<hardware, rx_buf, sent, timing, op>>

-----------------------------------------------------------------------------
Step ==
  \/ \E f \in Fields, h \in Halves : WriteHalf(f, h) \/ CompareHalf(f, h)
  \/ ReadClock \/ ReadCount \/ ReadFlag
  \/ \E h \in Halves : WriteTimeout(h) \/ ReadTimeout(h)
  \/ TakeTail \/ CountTail

Call ==
  \/ InstallMmc \/ InstallGpib
  \/ \E t \in Times : ClockSetTime(t)
  \/ ClockGetTime
  \/ \E w \in Waits : GpibTimeoutSet(w) \/ MmcSetTimeout(w)
  \/ MmcTestTimeout \/ GetTail \/ UartRxFlush

Next == Count \/ TimerInterrupt \/ ReceiveInterrupt \/ Step \/ Call

Spec == Init /\ [][Next]_vars

-----------------------------------------------------------------------------
(* Correctness.                                                            *)

Timespec == [sec : Nat, nsec : Nat]
Wait == [for : Nat, ticks : Nat, over : BOOLEAN]

HardwareTypes ==
  irq \in BOOLEAN /\ ocf \in BOOLEAN /\ tcnt \in 0 .. TicCounts - 1
Called == {"none", "clock_settime", "clock_gettime", "mmc_set_ms_timeout",
           "mmc_test_timeout", "uart_get_tail"}
Places == {"none", "write nsec", "write sec", "compare nsec", "compare sec",
           "clock", "count", "flag", "write", "read", "tail"}
CallTypes ==
  op \in [do : Called, at : Places, halves : SUBSET Halves, ts : Timespec, n : Nat, reg : Nat]
TimerTypes ==
  /\ tasks \subseteq {"clock_task", "mmc_task", "gpib_timer_task"}
  /\ clock \in Timespec
  /\ gpib \in [down : Nat, done : BOOLEAN]
  /\ mmc \in Nat
  /\ set \in [time : Timespec, tick : BOOLEAN]
  /\ gpibWait \in Wait /\ mmcWait \in Wait
RingTypes ==
  /\ rx_head \in 0 .. RX_BUF_SIZE - 1 /\ rx_tail \in 0 .. RX_BUF_SIZE - 1
  /\ rx_count \in 0 .. RX_BUF_SIZE /\ rx_error \in {0, RX_OVERFLOW}
  /\ rx_buf \in [0 .. RX_BUF_SIZE - 1 -> Nat]
  /\ sent \in Nat /\ stored \in Seq(Nat) /\ read \in Seq(Nat) /\ lost \in Nat
LogTypes ==
  /\ told \in [from : Nat, got : Timespec, to : Nat, errorf : BOOLEAN]
  /\ used \in [tics : Nat, calls : Nat]

TypeOK == HardwareTypes /\ CallTypes /\ TimerTypes /\ RingTypes /\ LogTypes

(* clock_settime does not return before the clock is right: since then it  *)
(* shows the time set, later by the ticks since the call returned and, it  *)
(* may be, by the one that came while the call compared what it wrote.     *)
SetTimeHolds ==
  op.do # "clock_settime" =>
    clock = set.time \/ (set.tick /\ clock = Later(set.time))

(* clock_gettime finds no error, and what it returns is not before the     *)
(* time at which it was called nor more than a tick after its return.      *)
TimeToldIsNear ==
  op.do # "clock_gettime" =>
    /\ told.from <= InCounts(told.got) /\ InCounts(told.got) <= told.to + TicCounts
    /\ told.got.nsec < SecondCounts
    /\ ~told.errorf

ClockKept == SetTimeHolds /\ TimeToldIsNear

(* A time-out lasts as long as was asked, in ticks: gpib_timeout_test says *)
(* so after that many whole ticks and the one begun, mmc_test_timeout not  *)
(* before that many.                                                       *)
WaitsLast ==
  /\ ~gpibWait.over => (gpib.done <=> gpibWait.ticks > gpibWait.for)
  /\ mmcWait.over => mmcWait.ticks >= mmcWait.for

(* The console's characters are read in the order they were sent, none     *)
(* twice, and none is missing unless the ring has told of an overflow.     *)
Slot(i) == IF i < RX_BUF_SIZE THEN i ELSE i - RX_BUF_SIZE
InRing == [i \in 1 .. rx_count |-> rx_buf[Slot(rx_tail + i - 1)]]
RingInOrder ==
  op.do # "uart_get_tail" =>
    /\ read \o InRing = stored
    /\ \A i, j \in DOMAIN stored : i < j => stored[i] < stored[j]
    /\ lost > 0 <=> rx_error = RX_OVERFLOW
=============================================================================
