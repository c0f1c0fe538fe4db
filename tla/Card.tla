-------------------------------- MODULE Card --------------------------------
(***************************************************************************)
(* The SD card driver, fatfs.hal/mmc.c and mmc_hal.c, with the card and    *)
(* the millisecond timer that bounds its waits.  Each wait of the driver   *)
(* is a state, op.at; a command, its arguments and its response are one    *)
(* step, taken when the wait before it ends.                               *)
(*                                                                         *)
(* The card may be slow, refuse a command or a block, stop answering, be   *)
(* pulled and be put in again.  The chip select, the clock rate and the    *)
(* contents of the information registers are left out.                     *)
(***************************************************************************)
EXTENDS Integers, Sequences, FiniteSets

CONSTANTS
  Kinds,       \* kinds of card there are, of {"SD1", "SD2", "SDHC", "MMC"}
  LastSector,  \* the last sector of a card
  Values,      \* what a sector may be written with
  BlockBytes,  \* bytes in a sector (512)
  ReadyMs,     \* the time-out of a wait (1000 ms)
  Pulls,       \* the card may be pulled
  OcrFaults,   \* the card may fail to answer CMD58, the last of its start
  Unsure       \* what nobody has been told of

ASSUME SizesAssumption ==
  LastSector \in Nat /\ BlockBytes \in Nat \ {0} /\ ReadyMs \in Nat \ {0}

Sectors == 0 .. LastSector

VARIABLES
  stat,   \* Stat: a subset of {"NOINIT", "NODISK"}
  type,   \* CardType: the kind of card, or "none"
  timer,  \* _mmc_timeout
  op,     \* the call at work, or a read that went well, or Nothing
  card,   \* the card in the socket
  kept    \* bookkeeping: [Sectors -> what the user was told is there]

vars == <<stat, type, timer, op, card, kept>>

SDC == {"SD1", "SD2", "SDHC"}

-----------------------------------------------------------------------------
(* The card, as the driver uses it.  state: "idle" until it is             *)
(* initialised, "ready", "sending" or "taking" blocks, "confused" by a     *)
(* command in the middle of those.  A busy card holds the line low.        *)
NoCard == [in |-> FALSE, kind |-> "SD1", state |-> "idle", busy |-> FALSE, at |-> 0,
           many |-> FALSE, mem |-> [s \in Sectors |-> Unsure]]

(* The line is high when there is no card, and when the card is not busy.  *)
LineHigh == ~(card.in /\ card.busy)

(* The sector an address means.                                            *)
Addressed(arg) == IF card.kind = "SDHC" THEN arg ELSE arg \div BlockBytes

Moved(c, state, many, at) == [c EXCEPT !.state = state, !.many = many, !.at = at]

(* The response r to a command.  0 is accepted, 1 is accepted and idle, 5  *)
(* is unknown and idle, 32 is a wrong address or any other error, 255 is   *)
(* no answer.                                                              *)
Responses == {0, 1, 5, 32, 255}

Starts(cmd, hcs) ==
  \/ cmd = "ACMD41" /\ card.kind \in SDC /\ (card.kind = "SDHC" => hcs)
  \/ cmd = "CMD1" /\ card.kind = "MMC"

AnswerIdle(cmd, hcs, r) ==
  \/ cmd \notin {"CMD8", "ACMD41", "CMD1"} /\ r = 1 /\ UNCHANGED card
  \/ cmd \in {"ACMD41", "CMD1"} /\ UNCHANGED card
     /\ r = IF cmd = "ACMD41" /\ card.kind = "MMC" THEN 5 ELSE 1
  \/ Starts(cmd, hcs) /\ r = 0 /\ card' = [card EXCEPT !.state = "ready"]

AnswerReady(cmd, arg, r) ==
  \/ cmd \in {"ACMD41", "CMD1", "CMD16", "CMD55", "ACMD23"} /\ r = 0 /\ UNCHANGED card
  \/ cmd = "CMD58" /\ r \in {0} \cup (IF OcrFaults THEN {255} ELSE {}) /\ UNCHANGED card
  \/ cmd \in {"CMD9", "CMD17", "CMD18", "CMD24", "CMD25"} /\ r = 32 /\ UNCHANGED card
  \/ cmd = "CMD9" /\ r = 0 /\ card' = Moved(card, "sending", FALSE, 0)
  \/ /\ cmd \in {"CMD17", "CMD18", "CMD24", "CMD25"} /\ r = 0 /\ Addressed(arg) \in Sectors
     /\ card' = Moved(card, IF cmd \in {"CMD17", "CMD18"} THEN "sending" ELSE "taking",
                      cmd \in {"CMD18", "CMD25"}, Addressed(arg))

Answer(cmd, arg, hcs, r) ==
  \/ card.in /\ cmd = "CMD0" /\ r = 1 /\ card' = Moved(card, "idle", FALSE, 0)
  \/ /\ card.in => cmd # "CMD0" /\ card.state \in {"sending", "taking", "confused"}
     /\ r = 255 /\ card' = IF card.in THEN [card EXCEPT !.state = "confused"] ELSE card
  \/ /\ card.in /\ cmd # "CMD0" /\ card.state \in {"idle", "ready"}
     /\ \/ cmd = "CMD8" /\ r = (IF card.kind \in {"SD2", "SDHC"} THEN 1 ELSE 5) /\ UNCHANGED card
        \/ card.state = "idle" /\ cmd # "CMD8" /\ AnswerIdle(cmd, hcs, r)
        \/ card.state = "ready" /\ AnswerReady(cmd, arg, r)

-----------------------------------------------------------------------------
(* A call: what it does, where it is, the command being sent, the command  *)
(* behind a CMD55, the card type found, the sector, the data to write or   *)
(* read so far, the blocks left, and whether it went well.                 *)
Begin(o, cmd) ==
  [o EXCEPT !.at = "select", !.then = cmd,
            !.cmd = IF cmd \in {"ACMD41", "ACMD23"} THEN "CMD55" ELSE cmd]
At(o, place) == [o EXCEPT !.at = place]
Call(do, s, data, n) ==
  [do |-> do, at |-> "end", cmd |-> "CMD0", then |-> "CMD0", type |-> "none",
   sector |-> s, data |-> data, left |-> n, ok |-> FALSE]

Idle == op.at = "done"
Nothing == At(Call("none", 0, <<>>, 0), "done")

(* The step to o: every wait but those of the start loops begins with      *)
(* mmc_set_ms_timeout.                                                     *)
Goto(o) ==
  /\ op' = o
  /\ timer' = IF o.at \in {"select", "token", "xmit", "stop"} THEN ReadyMs ELSE timer

(* mmc_test_timeout: the time is up, or was up in an earlier wait.         *)
DiskIsGone == "NODISK" \in stat        \* mutant: the counter is not looked at
TimeIsUp == timer = 0 \/ "NODISK" \in stat
GiveUp   == stat' = stat \cup {"NODISK", "NOINIT"}

(* mmc_disk_initialize, from the response r to op.cmd.                     *)
InitNext(o, r) ==
  IF o.cmd = "CMD0" THEN IF r = 1 THEN Begin(o, "CMD8") ELSE At(o, "end")
  ELSE IF o.cmd = "CMD8" THEN
         IF r = 1 THEN [o EXCEPT !.at = "loop", !.type = "SD2", !.then = "ACMD41"]
                  ELSE Begin(o, "ACMD41")
  ELSE IF o.type = "none" THEN     \* the first ACMD41 tells SDv1 from MMCv3
         [o EXCEPT !.at = "loop", !.type = IF r <= 1 THEN "SD1" ELSE "MMC",
                   !.then = IF r <= 1 THEN "ACMD41" ELSE "CMD1"]
  ELSE IF o.cmd = "CMD58" THEN
         IF r = 0 THEN [o EXCEPT !.at = "end", !.ok = TRUE,
                                 !.type = IF card.kind = "SDHC" THEN "SDHC" ELSE "SD2"]
                  ELSE At(o, "end")
  ELSE IF o.cmd = "CMD16" THEN [o EXCEPT !.at = "end", !.ok = (r = 0)]
  ELSE At(o, IF r = 0 THEN "leave" ELSE "loop")

(* What a call does with the response to its command.                      *)
Respond(o, r) ==
  IF o.cmd = "CMD55" /\ r <= 1 THEN [o EXCEPT !.cmd = o.then]
  ELSE IF o.do = "init" THEN InitNext(o, r)
  ELSE IF o.then = "ACMD23" THEN Begin(o, "CMD25")
  ELSE At(o, IF r # 0 THEN "end" ELSE IF o.do = "write" THEN "xmit" ELSE "token")

(* send_cmd: select, wait for the card, the command and its response.      *)
Address == IF type = "SDHC" THEN op.sector ELSE op.sector * BlockBytes
Send ==
  /\ op.at = "select" /\ op.do # "sync" /\ LineHigh
  /\ \E r \in Responses : Answer(op.cmd, Address, op.type = "SD2", r) /\ Goto(Respond(op, r))
  /\ UNCHANGED <<stat, type, kept>>

SendFails ==
  /\ op.at = "select" /\ op.do # "sync" /\ ~LineHigh /\ TimeIsUp
  /\ GiveUp
  /\ Goto(Respond(op, 255))
  /\ UNCHANGED <<type, card, kept>>

(* The loops on ACMD41 and CMD1.                                           *)
Loop ==
  /\ op.at \in {"loop", "leave"} /\ ~TimeIsUp
  /\ Goto(Begin(op, IF op.at = "loop" THEN op.then
                    ELSE IF op.type = "SD2" THEN "CMD58" ELSE "CMD16"))
  /\ UNCHANGED <<stat, type, card, kept>>

LoopTimesOut ==
  /\ op.at \in {"loop", "leave"} /\ TimeIsUp
  /\ GiveUp
  /\ Goto(At(op, "end"))
  /\ UNCHANGED <<type, card, kept>>

(* mmc_init forgets what has been wrong with the card, the mount of FatFs  *)
(* does not.                                                               *)
Initialize(forget) ==
  /\ Idle
  /\ stat' = IF forget THEN {} ELSE stat
  /\ Goto(IF "NODISK" \in stat' THEN Nothing
          ELSE Begin(Call("init", 0, <<>>, 0), "CMD0"))
  /\ UNCHANGED <<type, card, kept>>

(* mmc_disk_read; n = 0 is mmc_disk_ioctl for the registers of the card.   *)
Read(s, n) ==
  /\ Idle /\ "NOINIT" \notin stat
  /\ Goto(Begin(Call(IF n = 0 THEN "info" ELSE "read", s, <<>>, IF n = 0 THEN 1 ELSE n),
                IF n = 0 THEN "CMD9" ELSE IF n = 1 THEN "CMD17" ELSE "CMD18"))
  /\ UNCHANGED <<stat, type, card, kept>>

(* The end of a read.  A single block is all the card sends; CMD12 stops   *)
(* it otherwise, and does not wait for it.                                 *)
StopAfterAll(o) ==                     \* mutant: an error does not stop the card
  /\ Goto(At(o, "end"))
  /\ card' = IF card.state = "sending" /\ (o.left = 0 \/ ~card.many)
             THEN [card EXCEPT !.state = "ready"] ELSE card
StopReading(o) ==
  /\ Goto(At(o, "end"))
  /\ card' = IF card.state = "sending" THEN [card EXCEPT !.state = "ready"] ELSE card

(* rcvr_datablock: a block, an error token, or nothing in time.            *)
Token ==
  LET o == [op EXCEPT !.data = Append(@, IF op.do = "info" THEN Unsure ELSE card.mem[card.at]),
                      !.left = @ - 1, !.ok = op.left = 1]
  IN /\ op.at = "token" /\ card.in /\ card.state = "sending" /\ card.at \in Sectors
     /\ IF o.left = 0 THEN StopReading(o)
        ELSE Goto(o) /\ card' = [card EXCEPT !.at = @ + 1]
     /\ UNCHANGED <<stat, type, kept>>

BadToken ==
  /\ op.at = "token" /\ card.in /\ card.state = "sending"
  /\ StopReading(op)
  /\ UNCHANGED <<stat, type, kept>>

TokenTimesOut ==
  /\ op.at = "token" /\ TimeIsUp
  /\ GiveUp
  /\ IF op.cmd = "CMD18" THEN StopReading(op) ELSE Goto(At(op, "end")) /\ UNCHANGED card
  /\ UNCHANGED <<type, kept>>

(* mmc_disk_write.                                                         *)
Write(s, data) ==
  /\ Idle /\ "NOINIT" \notin stat
  /\ Goto(Begin(Call("write", s, data, Len(data)),
                IF Len(data) = 1 THEN "CMD24" ELSE IF type \in SDC THEN "ACMD23" ELSE "CMD25"))
  /\ kept' = [x \in Sectors |-> IF x \in s .. s + Len(data) - 1 THEN Unsure ELSE kept[x]]
  /\ UNCHANGED <<stat, type, card>>

(* What follows a block: a single one is all, a multiple write is ended.   *)
AfterAnyBlock(o, taken) ==             \* mutant: a refused block counts
  [o EXCEPT !.left = @ - 1, !.ok = o.left = 1,
            !.at = IF o.cmd = "CMD24" THEN "end"
                   ELSE IF taken /\ o.left > 1 THEN "xmit" ELSE "stop"]
AfterBlock(o, taken) ==
  LET n == IF taken THEN o.left - 1 ELSE o.left
  IN [o EXCEPT !.left = n, !.ok = n = 0,
               !.at = IF o.cmd = "CMD24" THEN "end"
                      ELSE IF taken /\ n > 0 THEN "xmit" ELSE "stop"]

(* What the user may count on once a write went well with this card.       *)
Told(o) ==
  kept' = [s \in Sectors |-> IF o.at = "end" /\ o.ok /\ card.state = "taking"
                                 /\ s \in o.sector .. o.sector + Len(o.data) - 1
                              THEN o.data[s - o.sector + 1] ELSE kept[s]]

(* xmit_datablock: the card takes the block and is busy with it, refuses   *)
(* it, or is not ready in time.                                            *)
Taken(block) ==
  [card EXCEPT !.busy = TRUE, !.mem[card.at] = block, !.at = @ + 1,
               !.state = IF card.many THEN @ ELSE "ready"]
Xmit ==
  LET o == AfterBlock(op, TRUE)
  IN /\ op.at = "xmit" /\ LineHigh
     /\ card.state = "taking" /\ card.at \in Sectors
     /\ Goto(o) /\ Told(o)
     /\ card' = Taken(op.data[Len(op.data) - op.left + 1])
     /\ UNCHANGED <<stat, type>>

XmitRefused ==
  /\ op.at = "xmit" /\ LineHigh
  /\ Goto(AfterBlock(op, FALSE))
  /\ card' = IF card.state = "taking" /\ ~card.many THEN [card EXCEPT !.state = "ready"] ELSE card
  /\ UNCHANGED <<stat, type, kept>>

XmitTimesOut ==
  /\ op.at = "xmit" /\ ~LineHigh /\ TimeIsUp
  /\ GiveUp
  /\ Goto(AfterBlock(op, FALSE))
  /\ UNCHANGED <<type, card, kept>>

(* The stop token of a multiple write.                                     *)
StopWriting ==
  /\ op.at = "stop" /\ LineHigh
  /\ Goto(At(op, "end")) /\ Told(At(op, "end"))
  /\ card' = IF card.state = "taking" THEN [card EXCEPT !.state = "ready", !.busy = TRUE] ELSE card
  /\ UNCHANGED <<stat, type>>

StopTimesOut ==
  /\ op.at = "stop" /\ ~LineHigh /\ TimeIsUp
  /\ GiveUp
  /\ Goto(At([op EXCEPT !.ok = FALSE], "end"))
  /\ UNCHANGED <<type, card, kept>>

(* mmc_disk_ioctl, CTRL_SYNC.                                              *)
Sync ==
  /\ Idle /\ "NOINIT" \notin stat
  /\ Goto(At(Call("sync", 0, <<>>, 0), "select"))
  /\ UNCHANGED <<stat, type, card, kept>>

Synced ==
  /\ op.at = "select" /\ op.do = "sync" /\ (LineHigh \/ TimeIsUp)
  /\ IF LineHigh THEN stat' = stat ELSE GiveUp
  /\ Goto([op EXCEPT !.at = "end", !.ok = LineHigh])
  /\ UNCHANGED <<type, card, kept>>

(* The call returns; mmc_disk_initialize sets the type and the status.     *)
Return ==
  /\ op.at = "end"
  /\ Goto(IF op.do = "read" /\ op.ok THEN At(op, "done") ELSE Nothing)
  /\ type' = IF op.do # "init" THEN type ELSE IF op.ok THEN op.type ELSE "none"
  /\ stat' = IF op.do = "init" /\ op.ok THEN stat \ {"NOINIT"} ELSE stat
  /\ UNCHANGED <<card, kept>>

-----------------------------------------------------------------------------
(* The timer interrupt, and the card.                                      *)
Tick ==
  /\ timer > 0
  /\ timer' = timer - 1
  /\ UNCHANGED <<stat, type, op, card, kept>>

Programmed ==
  /\ card.in /\ card.busy
  /\ card' = [card EXCEPT !.busy = FALSE]
  /\ UNCHANGED <<stat, type, timer, op, kept>>

Pull ==
  /\ Pulls /\ card.in
  /\ card' = NoCard
  /\ kept' = [s \in Sectors |-> Unsure]
  /\ UNCHANGED <<stat, type, timer, op>>

Insert(kind) ==
  /\ ~card.in
  /\ card' = [NoCard EXCEPT !.in = TRUE, !.kind = kind]
  /\ UNCHANGED <<stat, type, timer, op, kept>>

-----------------------------------------------------------------------------
Init ==
  /\ stat = {"NOINIT"} /\ type = "none" /\ timer = 0
  /\ op = Nothing
  /\ card \in {NoCard} \cup {[NoCard EXCEPT !.in = TRUE, !.kind = k] : k \in Kinds}
  /\ kept = [s \in Sectors |-> Unsure]

Driver ==
  \/ Send \/ SendFails \/ Loop \/ LoopTimesOut
  \/ Token \/ BadToken \/ TokenTimesOut
  \/ Xmit \/ XmitRefused \/ XmitTimesOut \/ StopWriting \/ StopTimesOut
  \/ Synced \/ Return

User ==
  \/ \E forget \in BOOLEAN : Initialize(forget)
  \/ \E s \in Sectors, n \in 0 .. 2 : Read(s, n)
  \/ \E s \in Sectors, v, w \in Values : Write(s, <<v>>) \/ Write(s, <<v, w>>)
  \/ Sync

Next == Driver \/ User \/ Tick \/ Programmed \/ Pull \/ \E k \in Kinds : Insert(k)
Spec == Init /\ [][Next]_vars

(* The main program and the timer interrupt run; the card need not.        *)
FairSpec == Spec /\ WF_vars(Driver) /\ WF_vars(Tick)

-----------------------------------------------------------------------------
(* A write that was reported to have gone well is on the card, in the      *)
(* sectors it was for, and a read that went well has read it (the address  *)
(* sent goes by CardType, which was found before the card was last pulled). *)
Stored == \A s \in Sectors : kept[s] # Unsure => card.mem[s] = kept[s]
ReadBack ==
  Idle /\ op.do = "read" /\ op.ok =>
    \A i \in DOMAIN op.data :
      op.sector + i - 1 \in Sectors => kept[op.sector + i - 1] \in {Unsure, op.data[i]}
ToldTrue == Stored /\ ReadBack

(* No command but the stop reaches a card that is in the middle of sending *)
(* or taking blocks, whatever went wrong with the call before it; CMD0 is  *)
(* exempt, with which an initialisation resets the card in any state.      *)
OneTransfer == card.state # "confused"

(* Every call ends, whatever the card does, except an initialisation.      *)
Returns == ~Idle /\ op.do # "init" ~> Idle

(* mmc_disk_initialize has a time-out of two seconds (mmc.c:357, 377).     *)
InitReturns == ~Idle ~> Idle
=============================================================================
