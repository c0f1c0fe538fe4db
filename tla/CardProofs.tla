----------------------------- MODULE CardProofs -----------------------------
(***************************************************************************)
(* Theorems about Card, for every set of kinds of card, every number of    *)
(* sectors and values, every time-out, with and without pulls.             *)
(***************************************************************************)
EXTENDS Card, TLAPS

Types    == {"none", "SD1", "SD2", "SDHC", "MMC"}
Places   == {"done", "end", "select", "loop", "leave", "token", "xmit", "stop"}
Calls    == {"none", "init", "read", "info", "write", "sync"}
Commands == {"CMD0", "CMD1", "CMD8", "CMD9", "CMD16", "CMD17", "CMD18", "CMD24", "CMD25",
             "CMD55", "CMD58", "ACMD23", "ACMD41"}
Data     == Values \cup {Unsure}

Ops == [do : Calls, at : Places, cmd : Commands, then : Commands, type : Types,
        sector : Sectors, data : Seq(Data), left : Int, ok : BOOLEAN]
Cards == [in : BOOLEAN, kind : Kinds \cup {"SD1"},
          state : {"idle", "ready", "sending", "taking", "confused"}, busy : BOOLEAN,
          at : Int, many : BOOLEAN, mem : [Sectors -> Data]]

TypeOK ==
  /\ stat \subseteq {"NOINIT", "NODISK"}
  /\ type \in Types
  /\ timer \in Nat
  /\ op \in Ops
  /\ card \in Cards
  /\ kept \in [Sectors -> Data]

(***************************************************************************)
(* Where a call is tells what it is, which command it sends and what is    *)
(* left to do.                                                             *)
(***************************************************************************)
Sending(o) ==
  \/ /\ o.do = "init" /\ ~o.ok
     /\ \/ o.cmd \in {"CMD0", "CMD8", "CMD1", "CMD58", "CMD16"} /\ o.then = o.cmd
        \/ o.cmd \in {"CMD55", "ACMD41"} /\ o.then = "ACMD41"
  \/ o.do = "read" /\ o.cmd \in {"CMD17", "CMD18"} /\ o.then = o.cmd
  \/ o.do = "info" /\ o.cmd = "CMD9" /\ o.then = o.cmd
  \/ o.do = "write" /\ o.cmd \in {"CMD24", "CMD25"} /\ o.then = o.cmd
  \/ o.do = "write" /\ o.cmd \in {"CMD55", "ACMD23"} /\ o.then = "ACMD23"

Shape(o) ==
  /\ o.at = "done" => o.do \in {"none", "read"}
  /\ o.at = "select" /\ o.do # "sync" => Sending(o)
  /\ o.at \in {"loop", "leave"} => o.do = "init" /\ ~o.ok
  /\ o.at = "loop" => o.then \in {"ACMD41", "CMD1"}
  /\ o.at = "token" => o.do \in {"read", "info"} /\ o.cmd \in {"CMD17", "CMD18", "CMD9"}
  /\ o.at = "xmit" => o.do = "write" /\ o.cmd \in {"CMD24", "CMD25"} /\ o.left \in 1 .. Len(o.data)
  /\ o.at = "stop" => o.do = "write" /\ o.cmd = "CMD25"
  /\ o.do = "write" /\ o.at = "select" => o.left = Len(o.data) /\ o.left >= 1
  /\ o.do = "write" /\ o.cmd = "CMD24" => Len(o.data) = 1

(* A card in a transfer is in that of the call at work, or the driver will *)
(* not talk to it before it has reset it.                                  *)
Apart ==
  /\ card.state # "confused"
  /\ ~card.in => card.state = "idle" /\ ~card.busy
  /\ card.state \in {"sending", "taking"} =>
       \/ card.state = "sending" /\ op.at = "token"
       \/ card.state = "taking" /\ op.at \in {"xmit", "stop"}
       \/ "NOINIT" \in stat /\ op.at \in {"end", "done"} /\ ~(op.do = "init" /\ op.ok)
       \/ op.at = "select" /\ op.do = "init" /\ op.cmd = "CMD0"
  /\ card.state = "taking" /\ op.at = "xmit" => (card.many <=> op.cmd = "CMD25")

TransferInv == Shape(op) /\ Apart

(***************************************************************************)
(* CardType is right for a card that answers.                              *)
(***************************************************************************)
Hot   == card.state \in {"ready", "sending", "taking"}
Right(t) == (t = "SDHC") = (card.kind = "SDHC")

TypeFound ==
  /\ op.do # "init" /\ Hot /\ (op.do = "none" => "NOINIT" \notin stat) => Right(type)
  /\ op.do = "init" =>
       /\ op.at = "end" /\ op.ok /\ Hot => Right(op.type)
       /\ op.at = "end" /\ ~op.ok => "NOINIT" \in stat \/ ~Hot
       /\ op.at # "end" => op.type # "SDHC"
       /\ op.at = "leave" => op.type # "none"
       /\ op.at = "select" /\ op.cmd = "CMD58" => op.type = "SD2"
       /\ op.at = "select" /\ op.cmd = "CMD16" => op.type \in {"SD1", "MMC"}
       /\ \/ op.at \in {"loop", "leave"}
          \/ op.at = "select" /\ op.cmd # "CMD0"
          => (Hot /\ card.kind = "SDHC" => op.type = "SD2")

(***************************************************************************)
(* What has been written so far is on the card, and what has been read so  *)
(* far is what the user was told.                                          *)
(***************************************************************************)
Span(o) == o.sector .. o.sector + Len(o.data) - 1

WrittenSoFar ==
  op.do = "write" =>
    /\ op.at \in {"select", "xmit", "stop"} => \A s \in Sectors \cap Span(op) : kept[s] = Unsure
    /\ card.state = "taking" /\ op.at \in {"xmit", "stop"} =>
         /\ card.at = op.sector + Len(op.data) - op.left
         /\ \A s \in Sectors : s \in op.sector .. card.at - 1 =>
               card.mem[s] = op.data[s - op.sector + 1]
    /\ op.at = "stop" => op.ok = (op.left = 0)

ReadSoFar ==
  op.do = "read" =>
    /\ \A s \in Sectors \cap Span(op) : kept[s] \in {Unsure, op.data[s - op.sector + 1]}
    /\ op.at = "select" => op.data = <<>>
    /\ card.state = "sending" /\ op.at = "token" => card.at = op.sector + Len(op.data)

(* Nobody was told of an empty socket.                                     *)
Empty == ~card.in => \A s \in Sectors : kept[s] = Unsure

ToldInv == TypeFound /\ Stored /\ Empty /\ WrittenSoFar /\ ReadSoFar

(***************************************************************************)
(* Names, and the records a call and a card are.                           *)
(***************************************************************************)
LEMMA Sizes ==
  /\ LastSector \in Nat /\ BlockBytes \in Nat \ {0} /\ ReadyMs \in Nat
  /\ Sectors \subseteq Nat /\ 0 \in Sectors
  BY SizesAssumption DEF Sectors

LEMMA AtTyped ==
  ASSUME NEW o \in Ops, NEW place \in Places
  PROVE  /\ At(o, place) \in Ops
         /\ At(o, place).at = place /\ At(o, place).do = o.do
         /\ At(o, place).cmd = o.cmd /\ At(o, place).then = o.then
         /\ At(o, place).type = o.type /\ At(o, place).sector = o.sector
         /\ At(o, place).data = o.data /\ At(o, place).left = o.left
         /\ At(o, place).ok = o.ok
  BY DEF Ops, At

LEMMA BeginTyped ==
  ASSUME NEW o \in Ops, NEW cmd \in Commands
  PROVE  /\ Begin(o, cmd) \in Ops
         /\ Begin(o, cmd).at = "select" /\ Begin(o, cmd).do = o.do
         /\ Begin(o, cmd).cmd = IF cmd \in {"ACMD41", "ACMD23"} THEN "CMD55" ELSE cmd
         /\ Begin(o, cmd).then = cmd
         /\ Begin(o, cmd).type = o.type /\ Begin(o, cmd).sector = o.sector
         /\ Begin(o, cmd).data = o.data /\ Begin(o, cmd).left = o.left
         /\ Begin(o, cmd).ok = o.ok
  BY DEF Ops, Begin, Places, Commands

LEMMA CallTyped ==
  ASSUME NEW do \in Calls, NEW s \in Sectors, NEW data \in Seq(Data), NEW n \in Int
  PROVE  /\ Call(do, s, data, n) \in Ops
         /\ Call(do, s, data, n).at = "end" /\ Call(do, s, data, n).do = do
         /\ Call(do, s, data, n).cmd = "CMD0" /\ Call(do, s, data, n).then = "CMD0"
         /\ Call(do, s, data, n).type = "none" /\ Call(do, s, data, n).sector = s
         /\ Call(do, s, data, n).data = data /\ Call(do, s, data, n).left = n
         /\ ~Call(do, s, data, n).ok
  BY DEF Ops, Call, Places, Commands, Types

LEMMA NothingTyped ==
  /\ Nothing \in Ops /\ Nothing.at = "done" /\ Nothing.do = "none" /\ Nothing.ok = FALSE
  <1> DEFINE c == [do |-> "none", at |-> "end", cmd |-> "CMD0", then |-> "CMD0",
                   type |-> "none", sector |-> 0, data |-> <<>>, left |-> 0, ok |-> FALSE]
  <1>1. Nothing = At(c, "done")
    BY DEF Nothing, Call
  <1>2. <<>> \in Seq(Data)
    OBVIOUS
  <1>3. c \in Ops /\ c.do = "none" /\ c.ok = FALSE
    BY <1>2, Sizes DEF Ops, Calls, Places, Commands, Types
  <1> HIDE DEF c
  <1>4. "done" \in Places
    BY DEF Places
  <1> QED  BY <1>1, <1>3, <1>4, AtTyped

LEMMA NoCardTyped ==
  /\ NoCard \in Cards
  /\ \A k \in Kinds : [NoCard EXCEPT !.in = TRUE, !.kind = k] \in Cards
  <1>1. [s \in Sectors |-> Unsure] \in [Sectors -> Data]
    BY DEF Data
  <1>2. NoCard \in Cards
    BY <1>1 DEF NoCard, Cards
  <1>3. ASSUME NEW k \in Kinds
        PROVE  [NoCard EXCEPT !.in = TRUE, !.kind = k] \in Cards
    BY <1>2 DEF Cards
  <1> QED  BY <1>2, <1>3

(***************************************************************************)
(* The card's answers.                                                     *)
(***************************************************************************)
(* The card is the one it was in another state.                            *)
Same(d, c) ==
  /\ d \in Cards
  /\ d.in = c.in /\ d.kind = c.kind /\ d.busy = c.busy /\ d.mem = c.mem
Became(d, c, state, many, at) ==
  Same(d, c) /\ d.state = state /\ d.many = many /\ d.at = at

States == {"idle", "ready", "sending", "taking", "confused"}

LEMMA MovedTyped ==
  ASSUME NEW c \in Cards, NEW many \in BOOLEAN, NEW at \in Int, NEW state \in States
  PROVE  Became(Moved(c, state, many, at), c, state, many, at)
  BY DEF Moved, Cards, Became, Same, States

LEMMA StateTyped ==
  ASSUME NEW c \in Cards,
         NEW state \in {"idle", "ready", "sending", "taking", "confused"}
  PROVE  LET d == [c EXCEPT !.state = state]
         IN /\ d \in Cards /\ d.state = state /\ d.many = c.many /\ d.at = c.at
            /\ d.in = c.in /\ d.kind = c.kind /\ d.busy = c.busy /\ d.mem = c.mem
  BY DEF Cards

Reads  == {"CMD9", "CMD17", "CMD18"}
Writes == {"CMD24", "CMD25"}

(* An answer and the card after it, when the card is in no transfer or is  *)
(* being reset.                                                            *)
Answered(cmd, arg, r) ==
  /\ card'.in = card.in /\ card'.kind = card.kind /\ card'.busy = card.busy
  /\ card'.mem = card.mem
  /\ card'.state # "confused"
  /\ ~card.in => card' = card /\ r = 255
  /\ card'.state = "sending" <=> (card.state = "ready" /\ cmd \in Reads /\ r = 0)
  /\ card'.state = "taking" <=> (card.state = "ready" /\ cmd \in Writes /\ r = 0)
  /\ cmd \in {"CMD17", "CMD18"} \cup Writes /\ r = 0 =>
        card'.at = Addressed(arg) /\ card'.at \in Sectors
        /\ (card'.many <=> cmd \in {"CMD18", "CMD25"})
  /\ cmd = "CMD0" /\ card.in => card'.state = "idle"

LEMMA AnswersSafe ==
  ASSUME card \in Cards, Apart, NEW cmd \in Commands, NEW arg \in Int, NEW hcs \in BOOLEAN,
         cmd # "CMD0" => card.state \in {"idle", "ready"},
         NEW r \in Responses, Answer(cmd, arg, hcs, r)
  PROVE  card' \in Cards /\ Answered(cmd, arg, r)
  <1>0. /\ 0 \in Int /\ FALSE \in BOOLEAN /\ "idle" \in States /\ "sending" \in States
        /\ "taking" \in States /\ \A s \in Sectors : s \in Int
    BY Sizes DEF States
  <1>1. CASE card.in /\ cmd = "CMD0" /\ r = 1 /\ card' = Moved(card, "idle", FALSE, 0)
    <2>1. Became(card', card, "idle", FALSE, 0)
      BY <1>0, <1>1, MovedTyped, Zenon
    <2> QED  BY <1>1, <2>1 DEF Became, Same, Answered, Reads, Writes
  <1>2. CASE ~card.in /\ r = 255 /\ card' = card
    BY <1>2 DEF Answered, Reads, Writes, Apart
  <1>3. CASE card.in /\ cmd # "CMD0" /\ card' = card /\ ~(r = 0 /\ cmd \in Reads \cup Writes)
    BY <1>3 DEF Answered, Reads, Writes
  <1>4. CASE /\ card.in /\ cmd \in {"ACMD41", "CMD1"} /\ r = 0
             /\ card' = [card EXCEPT !.state = "ready"]
    BY <1>4, StateTyped DEF Answered, Reads, Writes
  <1>5. CASE /\ card.in /\ card.state = "ready" /\ cmd = "CMD9" /\ r = 0
             /\ card' = Moved(card, "sending", FALSE, 0)
    <2>1. Became(card', card, "sending", FALSE, 0)
      BY <1>0, <1>5, MovedTyped, Zenon
    <2> QED  BY <1>5, <2>1 DEF Became, Same, Answered, Reads, Writes
  <1>6. ASSUME card.in, card.state = "ready", cmd \in {"CMD17", "CMD18", "CMD24", "CMD25"},
               r = 0, Addressed(arg) \in Sectors,
               card' = Moved(card, IF cmd \in {"CMD17", "CMD18"} THEN "sending" ELSE "taking",
                             cmd \in {"CMD18", "CMD25"}, Addressed(arg))
        PROVE  card' \in Cards /\ Answered(cmd, arg, r)
    <2> DEFINE state == IF cmd \in {"CMD17", "CMD18"} THEN "sending" ELSE "taking"
               many == cmd \in {"CMD18", "CMD25"}
    <2>1. state \in States
      BY <1>0
    <2>2. many \in BOOLEAN
      OBVIOUS
    <2>8. Addressed(arg) \in Int
      BY <1>6, <1>0, Zenon
    <2>3. card' = Moved(card, state, many, Addressed(arg))
      BY <1>6
    <2>4. (state = "sending" <=> cmd \in Reads) /\ (state = "taking" <=> cmd \in Writes)
      BY <1>6 DEF Reads, Writes
    <2> HIDE DEF state, many
    <2>5. Became(card', card, state, many, Addressed(arg))
      BY <2>1, <2>2, <2>8, <2>3, MovedTyped, Zenon
    <2>6. card'.many <=> cmd \in {"CMD18", "CMD25"}
      BY <2>5 DEF many, Became
    <2>7. state \in {"sending", "taking"}
      BY DEF state
    <2> QED  BY <1>6, <2>4, <2>5, <2>6, <2>7 DEF Became, Same, Answered, Writes
  <1>7. CASE card.in /\ cmd # "CMD0" /\ card.state = "idle" /\ cmd # "CMD8" /\ AnswerIdle(cmd, hcs, r)
    BY <1>7, <1>3, <1>4 DEF AnswerIdle, Starts, Reads, Writes
  <1>8. CASE card.in /\ cmd # "CMD0" /\ card.state = "ready" /\ AnswerReady(cmd, arg, r)
    <2>1. CASE cmd \in {"ACMD41", "CMD1", "CMD16", "CMD55", "ACMD23"} /\ r = 0 /\ UNCHANGED card
      BY <1>8, <2>1, <1>3 DEF Reads, Writes
    <2>2. CASE /\ cmd = "CMD58" /\ r \in {0} \cup (IF OcrFaults THEN {255} ELSE {})
               /\ UNCHANGED card
      BY <1>8, <2>2, <1>3 DEF Reads, Writes
    <2>3. CASE cmd \in {"CMD9", "CMD17", "CMD18", "CMD24", "CMD25"} /\ r = 32 /\ UNCHANGED card
      BY <1>8, <2>3, <1>3
    <2>4. CASE cmd = "CMD9" /\ r = 0 /\ card' = Moved(card, "sending", FALSE, 0)
      BY <1>8, <2>4, <1>5
    <2>5. CASE /\ cmd \in {"CMD17", "CMD18", "CMD24", "CMD25"} /\ r = 0 /\ Addressed(arg) \in Sectors
               /\ card' = Moved(card, IF cmd \in {"CMD17", "CMD18"} THEN "sending" ELSE "taking",
                                cmd \in {"CMD18", "CMD25"}, Addressed(arg))
      BY <1>8, <2>5, <1>6, Zenon
    <2> QED  BY <1>8, <2>1, <2>2, <2>3, <2>4, <2>5, Zenon DEF AnswerReady
  <1> QED
    BY <1>1, <1>2, <1>3, <1>7, <1>8 DEF Answer, Reads, Writes

(***************************************************************************)
(* What a call does with a response.                                       *)
(***************************************************************************)
Carries(n, o) ==
  /\ n \in Ops
  /\ n.do = o.do /\ n.sector = o.sector /\ n.data = o.data /\ n.left = o.left

(* It goes on to the blocks, with the command that was accepted, or stays  *)
(* away from the card's transfer.                                          *)
Responded(n, o, r) ==
  /\ Carries(n, o) /\ Shape(n)
  /\ n.at \in {"select", "loop", "leave", "end", "token", "xmit"}
  /\ n.at = "token" <=> (o.cmd \in Reads /\ r = 0)
  /\ n.at = "xmit" <=> (o.cmd \in Writes /\ r = 0)
  /\ n.at \in {"token", "xmit"} => n.cmd = o.cmd
  /\ o.do = "init" /\ o.cmd = "CMD0" /\ r # 1 => n.at = "end" /\ ~n.ok

LEMMA BeginCarries ==
  ASSUME NEW o \in Ops, NEW cmd \in Commands
  PROVE  Carries(Begin(o, cmd), o)
  BY BeginTyped DEF Carries

LEMMA AtCarries ==
  ASSUME NEW o \in Ops, NEW place \in Places
  PROVE  Carries(At(o, place), o)
  BY AtTyped DEF Carries

LEMMA InitResponded ==
  ASSUME NEW o \in Ops, o.at = "select", o.do = "init", Shape(o), NEW r \in Responses,
         card \in Cards, ~(o.cmd = "CMD55" /\ r <= 1)
  PROVE  Responded(InitNext(o, r), o, r)
  <1> DEFINE n == InitNext(o, r)
  <1>0. Sending(o) /\ ~o.ok /\ {"end", "loop", "leave"} \subseteq Places
    BY DEF Shape, Sending, Places
  <1>1. CASE o.cmd = "CMD0"
    <2>1. CASE r = 1
      <3>1. n = Begin(o, "CMD8")
        BY <1>1, <2>1 DEF InitNext
      <3> QED  BY <1>0, <1>1, <2>1, <3>1, BeginTyped DEF Responded, Carries, Shape, Sending, Commands,
                                                      Reads, Writes
    <2>2. CASE r # 1
      <3>1. n = At(o, "end")
        BY <1>1, <2>2 DEF InitNext
      <3> QED  BY <1>0, <1>1, <2>2, <3>1, AtTyped DEF Responded, Carries, Shape, Sending, Reads, Writes
    <2> QED  BY <2>1, <2>2
  <1>2. CASE o.cmd = "CMD8"
    <2>1. CASE r = 1
      <3>1. n = [o EXCEPT !.at = "loop", !.type = "SD2", !.then = "ACMD41"]
        BY <1>2, <2>1 DEF InitNext
      <3>2. /\ Carries(n, o) /\ n.at = "loop" /\ n.then = "ACMD41" /\ n.ok = o.ok
        BY <3>1 DEF Carries, Ops, Places, Types, Commands
      <3> QED  BY <1>0, <1>2, <2>1, <3>2 DEF Responded, Carries, Shape, Sending, Reads, Writes
    <2>2. CASE r # 1
      <3>1. n = Begin(o, "ACMD41")
        BY <1>2, <2>2 DEF InitNext
      <3> QED  BY <1>0, <1>2, <2>2, <3>1, BeginTyped DEF Responded, Carries, Shape, Sending, Commands,
                                                      Reads, Writes
    <2> QED  BY <2>1, <2>2
  <1>3. CASE o.cmd \notin {"CMD0", "CMD8"} /\ o.type = "none"
    <2>1. n = [o EXCEPT !.at = "loop", !.type = IF r <= 1 THEN "SD1" ELSE "MMC",
                        !.then = IF r <= 1 THEN "ACMD41" ELSE "CMD1"]
      BY <1>3 DEF InitNext
    <2>2. Carries(n, o) /\ n.at = "loop" /\ n.then \in {"ACMD41", "CMD1"} /\ n.ok = o.ok
      BY <2>1 DEF Carries, Ops, Places, Types, Commands
    <2> QED  BY <1>0, <1>3, <2>2 DEF Responded, Carries, Shape, Sending, Reads, Writes
  <1>4. CASE o.cmd = "CMD58" /\ o.type # "none"
    <2>1. CASE r # 0
      <3>1. n = At(o, "end")
        BY <1>4, <2>1 DEF InitNext
      <3> QED  BY <1>0, <1>4, <3>1, AtTyped DEF Responded, Carries, Shape, Sending, Reads, Writes
    <2>2. CASE r = 0
      <3>1. PICK found \in Types : n = [o EXCEPT !.at = "end", !.ok = TRUE, !.type = found]
        BY <1>4, <2>2 DEF InitNext, Types
      <3>2. Carries(n, o) /\ n.at = "end"
        BY <3>1 DEF Carries, Ops, Places
      <3> QED  BY <1>0, <1>4, <3>2 DEF Responded, Carries, Shape, Sending, Reads, Writes
    <2> QED  BY <2>1, <2>2
  <1>5. CASE o.cmd = "CMD16" /\ o.type # "none"
    <2>1. n = [o EXCEPT !.at = "end", !.ok = (r = 0)]
      BY <1>5 DEF InitNext
    <2>2. Carries(n, o) /\ n.at = "end"
      BY <2>1 DEF Carries, Ops, Places, Types
    <2> QED  BY <1>0, <1>5, <2>2 DEF Responded, Carries, Shape, Sending, Reads, Writes
  <1>6. CASE o.cmd \notin {"CMD0", "CMD8", "CMD58", "CMD16"} /\ o.type # "none"
    <2>1. n = At(o, "loop") \/ n = At(o, "leave")
      BY <1>6 DEF InitNext
    <2> QED  BY <1>0, <1>6, <2>1, AtTyped DEF Responded, Carries, Shape, Sending, Reads, Writes
  <1> QED  BY <1>1, <1>2, <1>3, <1>4, <1>5, <1>6

LEMMA RespondResponded ==
  ASSUME NEW o \in Ops, o.at = "select", o.do # "sync", Shape(o), NEW r \in Responses,
         card \in Cards
  PROVE  Responded(Respond(o, r), o, r)
  <1> DEFINE n == Respond(o, r)
  <1>0. Sending(o) /\ {"end", "token", "xmit"} \subseteq Places /\ o.then \in Commands
    BY DEF Shape, Places, Ops
  <1>1. CASE o.cmd = "CMD55" /\ r <= 1
    <2>1. n = [o EXCEPT !.cmd = o.then]
      BY <1>1 DEF Respond
    <2>2. /\ Carries(n, o) /\ n.at = "select" /\ n.cmd = o.then /\ n.then = o.then
          /\ n.ok = o.ok
      BY <1>0, <2>1 DEF Carries, Ops
    <2> QED  BY <1>0, <1>1, <2>2 DEF Responded, Carries, Shape, Sending, Reads, Writes
  <1>2. CASE o.do = "init" /\ ~(o.cmd = "CMD55" /\ r <= 1)
    <2>1. n = InitNext(o, r)
      BY <1>2 DEF Respond
    <2> QED  BY <1>2, <2>1, InitResponded
  <1>3. CASE o.do # "init" /\ o.then = "ACMD23" /\ ~(o.cmd = "CMD55" /\ r <= 1)
    <2>1. n = Begin(o, "CMD25")
      BY <1>3 DEF Respond
    <2> QED  BY <1>0, <1>3, <2>1, BeginTyped DEF Responded, Carries, Shape, Sending, Commands,
                                                  Reads, Writes
  <1>4. CASE o.do # "init" /\ o.then # "ACMD23"
    <2>0. o.cmd # "CMD55"
      BY <1>0, <1>4 DEF Sending
    <2>1. CASE r # 0
      <3>1. n = At(o, "end")
        BY <1>4, <2>0, <2>1 DEF Respond
      <3> QED  BY <1>0, <1>4, <2>1, <3>1, AtTyped DEF Responded, Carries, Shape, Reads, Writes
    <2>2. CASE r = 0 /\ o.do = "write"
      <3>1. n = At(o, "xmit")
        BY <1>4, <2>0, <2>2 DEF Respond
      <3>2. o.cmd \in Writes
        BY <1>0, <1>4, <2>2 DEF Sending, Writes
      <3>3. o.left \in 1 .. Len(o.data) /\ (o.cmd = "CMD24" => Len(o.data) = 1)
        BY <2>2 DEF Shape, Ops
      <3> QED  BY <1>0, <1>4, <2>2, <3>1, <3>2, <3>3, AtTyped
               DEF Responded, Carries, Shape, Reads, Writes
    <2>3. CASE r = 0 /\ o.do # "write"
      <3>1. n = At(o, "token")
        BY <1>4, <2>0, <2>3 DEF Respond
      <3> QED  BY <1>0, <1>4, <2>3, <3>1, AtTyped DEF Responded, Carries, Shape, Sending, Reads, Writes
    <2> QED  BY <2>1, <2>2, <2>3
  <1> QED  BY <1>1, <1>2, <1>3, <1>4

(***************************************************************************)
(* The steps of the driver.                                                *)
(***************************************************************************)
LEMMA GotoTyped ==
  ASSUME NEW o \in Ops, timer \in Nat, Goto(o)
  PROVE  op' = o /\ op' \in Ops /\ timer' \in Nat
  BY Sizes DEF Goto

LEMMA GiveUpTyped ==
  ASSUME stat \subseteq {"NOINIT", "NODISK"}, GiveUp
  PROVE  stat' = {"NOINIT", "NODISK"}
  BY DEF GiveUp

LEMMA AddressTyped ==
  ASSUME TypeOK
  PROVE  Address \in Int
  <1>1. op.sector \in Nat
    BY Sizes DEF TypeOK, Ops
  <1>2. op.sector * BlockBytes \in Int
    BY <1>1, Sizes
  <1> QED  BY <1>1, <1>2 DEF Address

LEMMA SendDoes ==
  ASSUME TypeOK, TransferInv, Send
  PROVE  \E r \in Responses :
           /\ Answer(op.cmd, Address, op.type = "SD2", r) /\ Answered(op.cmd, Address, r)
           /\ card' \in Cards /\ timer' \in Nat
           /\ op' = Respond(op, r) /\ Responded(op', op, r)
  <1>1. PICK r \in Responses :
          Answer(op.cmd, Address, op.type = "SD2", r) /\ Goto(Respond(op, r))
    BY DEF Send
  <1>2. /\ op \in Ops /\ card \in Cards /\ timer \in Nat /\ op.cmd \in Commands
        /\ op.at = "select" /\ op.do # "sync" /\ Shape(op) /\ Apart
    BY DEF Send, TypeOK, TransferInv, Ops
  <1>3. op.cmd # "CMD0" => card.state \in {"idle", "ready"}
    BY <1>2 DEF Apart, Cards
  <1> DEFINE hcs == op.type = "SD2"
  <1>4. hcs \in BOOLEAN
    OBVIOUS
  <1>5. card' \in Cards /\ Answered(op.cmd, Address, r)
    <2>1. Answer(op.cmd, Address, hcs, r)
      BY <1>1
    <2> HIDE DEF hcs
    <2> QED  BY <1>2, <1>3, <1>4, <2>1, AddressTyped, AnswersSafe
  <1>6. Responded(Respond(op, r), op, r)
    BY <1>2, RespondResponded
  <1>7. op' = Respond(op, r) /\ timer' \in Nat
    <2>1. Respond(op, r) \in Ops /\ Goto(Respond(op, r))
      BY <1>1, <1>6, Zenon DEF Responded, Carries
    <2> QED  BY <1>2, <2>1, GotoTyped
  <1>8. Responded(op', op, r)
    BY <1>6, <1>7
  <1> QED  BY <1>1, <1>5, <1>7, <1>8, Zenon

LEMMA SendKeeps ==
  ASSUME TypeOK, TransferInv, Send
  PROVE  TypeOK' /\ TransferInv'
  <1>1. PICK r \in Responses :
          /\ Answered(op.cmd, Address, r) /\ card' \in Cards /\ timer' \in Nat
          /\ Responded(op', op, r)
    BY SendDoes, Zenon
  <1>2. op.at = "select" /\ op.do # "sync" /\ Shape(op) /\ Apart
    BY DEF Send, TransferInv
  <1>3. TypeOK'
    BY <1>1 DEF Send, TypeOK, Responded, Carries
  <1>4. Apart'
    BY <1>1, <1>2 DEF Responded, Answered, Apart, Reads, Writes
  <1> QED  BY <1>1, <1>3, <1>4 DEF TransferInv, Responded, Shape, Sending

LEMMA SendFailsKeeps ==
  ASSUME TypeOK, TransferInv, SendFails
  PROVE  TypeOK' /\ TransferInv'
  <1>1. /\ op \in Ops /\ card \in Cards /\ op.at = "select" /\ op.do # "sync"
        /\ Shape(op) /\ Apart /\ 255 \in Responses
    BY DEF SendFails, TypeOK, TransferInv, Responses
  <1>2. Responded(Respond(op, 255), op, 255)
    BY <1>1, RespondResponded
  <1>3. op' = Respond(op, 255) /\ op' \in Ops /\ timer' \in Nat
    BY <1>2, GotoTyped DEF SendFails, TypeOK, Responded, Carries
  <1>4. stat' = {"NOINIT", "NODISK"} /\ card' = card
    BY GiveUpTyped DEF SendFails, TypeOK
  <1>5. TypeOK'
    BY <1>3, <1>4 DEF SendFails, TypeOK
  <1>6. Responded(op', op, 255)
    BY <1>2, <1>3
  <1>7. Apart'
    BY <1>1, <1>4, <1>6 DEF Responded, Carries, Apart, Reads, Writes
  <1> QED  BY <1>5, <1>6, <1>7 DEF TransferInv, Responded, Shape, Sending

LEMMA LoopKeeps ==
  ASSUME TypeOK, TransferInv, Loop
  PROVE  TypeOK' /\ TransferInv'
  <1> DEFINE cmd == IF op.at = "loop" THEN op.then
                    ELSE IF op.type = "SD2" THEN "CMD58" ELSE "CMD16"
  <1>1. op \in Ops /\ op.do = "init" /\ ~op.ok /\ op.at \in {"loop", "leave"}
    BY DEF TypeOK, TransferInv, Shape, Loop
  <1>2. cmd \in {"ACMD41", "CMD1", "CMD58", "CMD16"} /\ cmd \in Commands
    BY <1>1 DEF TransferInv, Shape, Commands
  <1>3. Goto(Begin(op, cmd))
    BY DEF Loop
  <1> HIDE DEF cmd
  <1>4. op' = Begin(op, cmd) /\ op' \in Ops /\ timer' \in Nat
    BY <1>1, <1>2, <1>3, BeginTyped, GotoTyped DEF TypeOK
  <1>5. TypeOK'
    BY <1>4 DEF Loop, TypeOK
  <1>6. Shape(op')
    BY <1>1, <1>2, <1>4, BeginTyped DEF Shape, Sending
  <1>7. Apart'
    BY <1>1 DEF Loop, TransferInv, Apart
  <1> QED  BY <1>5, <1>6, <1>7 DEF TransferInv, Shape, Sending

(* A call that ends after its card was found missing leaves it alone.      *)
LEMMA EndsShape ==
  ASSUME NEW o \in Ops, Shape(o), NEW n \in Ops, n.at = "end",
         n.do = o.do, n.cmd = o.cmd, n.data = o.data
  PROVE  Shape(n)
  BY DEF Shape

LEMMA LoopTimesOutKeeps ==
  ASSUME TypeOK, TransferInv, LoopTimesOut
  PROVE  TypeOK' /\ TransferInv'
  <1>1. op \in Ops /\ op.at \in {"loop", "leave"} /\ Shape(op) /\ "end" \in Places
    BY DEF TypeOK, TransferInv, LoopTimesOut, Places
  <1>2. op' = At(op, "end") /\ op' \in Ops /\ timer' \in Nat
    BY <1>1, AtTyped, GotoTyped DEF LoopTimesOut, TypeOK
  <1>3. TypeOK'
    BY <1>2, GiveUpTyped DEF LoopTimesOut, TypeOK
  <1>4. Shape(op')
    BY <1>1, <1>2, AtTyped, EndsShape
  <1>5. Apart'
    BY <1>1 DEF LoopTimesOut, TransferInv, Apart
  <1> QED  BY <1>3, <1>4, <1>5 DEF TransferInv, Shape, Sending

(* Calls that start.                                                       *)
LEMMA EmptyData == <<>> \in Seq(Data) /\ Len(<<>>) = 0
  OBVIOUS

Started(o, do, s, data, n, cmd) ==
  /\ o \in Ops /\ o.at = "select" /\ o.do = do /\ o.then = cmd
  /\ o.cmd = (IF cmd \in {"ACMD41", "ACMD23"} THEN "CMD55" ELSE cmd)
  /\ o.sector = s /\ o.data = data /\ o.left = n /\ ~o.ok /\ o.type = "none"

LEMMA StartTyped ==
  ASSUME NEW do \in Calls, NEW s \in Sectors, NEW data \in Seq(Data), NEW n \in Int,
         NEW cmd \in Commands
  PROVE  Started(Begin(Call(do, s, data, n), cmd), do, s, data, n, cmd)
  <1> DEFINE c == Call(do, s, data, n)
  <1>1. /\ c \in Ops /\ c.do = do /\ c.sector = s /\ c.data = data /\ c.left = n
        /\ ~c.ok /\ c.type = "none"
    BY CallTyped
  <1> HIDE DEF c
  <1>2. Started(Begin(c, cmd), do, s, data, n, cmd)
    BY <1>1, BeginTyped DEF Started
  <1> QED  BY <1>2 DEF c

(* No card is in a transfer while nothing is wrong and no call is at work. *)
LEMMA QuietWhenIdle ==
  ASSUME Apart, Idle, "NOINIT" \notin stat
  PROVE  card.state \notin {"sending", "taking", "confused"}
  BY DEF Apart, Idle

LEMMA InitializeKeeps ==
  ASSUME TypeOK, TransferInv, NEW forget \in BOOLEAN, Initialize(forget)
  PROVE  TypeOK' /\ TransferInv'
  <1> DEFINE o == Begin(Call("init", 0, <<>>, 0), "CMD0")
  <1>1. /\ o \in Ops /\ o.at = "select" /\ o.do = "init" /\ o.then = "CMD0" /\ o.cmd = "CMD0"
        /\ ~o.ok
    <2>1. "init" \in Calls /\ "CMD0" \in Commands /\ "CMD0" \notin {"ACMD41", "ACMD23"}
      BY DEF Calls, Commands
    <2>2. 0 \in Int
      OBVIOUS
    <2>3. Started(o, "init", 0, <<>>, 0, "CMD0")
      BY <2>1, <2>2, Sizes, EmptyData, StartTyped, Zenon
    <2> HIDE DEF o
    <2> QED  BY <2>1, <2>3 DEF Started
  <1>2. Goto(IF "NODISK" \in stat' THEN Nothing ELSE o)
    BY DEF Initialize
  <1>3. stat' = {} \/ stat' = stat
    BY DEF Initialize
  <1> HIDE DEF o
  <1>4. CASE "NODISK" \in stat'
    <2>1. op' = Nothing /\ op' \in Ops /\ timer' \in Nat
      BY <1>2, <1>4, NothingTyped, GotoTyped DEF TypeOK
    <2>2. TypeOK'
      BY <1>3, <2>1 DEF Initialize, TypeOK
    <2>3. Shape(op')
      BY <2>1, NothingTyped DEF Shape
    <2>4. Apart'
      BY <1>3, <1>4, <2>1, NothingTyped DEF Initialize, Idle, TransferInv, Apart
    <2> QED  BY <2>2, <2>3, <2>4 DEF TransferInv, Shape, Sending
  <1>5. CASE "NODISK" \notin stat'
    <2>1. op' = o /\ op' \in Ops /\ timer' \in Nat
      BY <1>1, <1>2, <1>5, GotoTyped DEF TypeOK
    <2>2. TypeOK'
      BY <1>3, <2>1 DEF Initialize, TypeOK
    <2>3. Shape(op')
      BY <1>1, <2>1 DEF Shape, Sending
    <2>4. Apart'
      BY <1>1, <2>1 DEF Initialize, Idle, TransferInv, Apart
    <2> QED  BY <2>2, <2>3, <2>4 DEF TransferInv, Shape, Sending
  <1> QED  BY <1>4, <1>5

LEMMA ReadKeeps ==
  ASSUME TypeOK, TransferInv, NEW s \in Sectors, NEW n \in 0 .. 2, Read(s, n)
  PROVE  TypeOK' /\ TransferInv'
  <1> DEFINE do  == IF n = 0 THEN "info" ELSE "read"
             m   == IF n = 0 THEN 1 ELSE n
             cmd == IF n = 0 THEN "CMD9" ELSE IF n = 1 THEN "CMD17" ELSE "CMD18"
             o   == Begin(Call(do, s, <<>>, m), cmd)
  <1>1. Goto(o)
    BY DEF Read
  <1>2. /\ do \in Calls /\ cmd \in Commands /\ m \in Int /\ cmd \notin {"ACMD41", "ACMD23"}
        /\ \/ do = "info" /\ cmd = "CMD9"
           \/ do = "read" /\ cmd \in {"CMD17", "CMD18"}
    BY DEF Calls, Commands
  <1> HIDE DEF do, m, cmd
  <1>3. o \in Ops /\ o.at = "select" /\ o.do = do /\ o.then = cmd /\ o.cmd = cmd
    <2>1. Started(o, do, s, <<>>, m, cmd)
      BY <1>2, EmptyData, StartTyped, Zenon
    <2> HIDE DEF o
    <2> QED  BY <1>2, <2>1 DEF Started
  <1> HIDE DEF o
  <1>4. op' = o /\ op' \in Ops /\ timer' \in Nat
    BY <1>1, <1>3, GotoTyped DEF TypeOK
  <1>5. TypeOK'
    BY <1>4 DEF Read, TypeOK
  <1>6. Shape(op')
    BY <1>2, <1>3, <1>4 DEF Shape, Sending
  <1>7. Apart'
    BY QuietWhenIdle DEF Read, TransferInv, Apart
  <1> QED  BY <1>5, <1>6, <1>7 DEF TransferInv, Shape, Sending

LEMMA WriteKeeps ==
  ASSUME TypeOK, TransferInv, NEW s \in Sectors, NEW data \in Seq(Values),
         Len(data) \in 1 .. 2, Write(s, data)
  PROVE  TypeOK' /\ TransferInv'
  <1> DEFINE cmd == IF Len(data) = 1 THEN "CMD24" ELSE IF type \in SDC THEN "ACMD23" ELSE "CMD25"
             o   == Begin(Call("write", s, data, Len(data)), cmd)
  <1>1. Goto(o)
    BY DEF Write
  <1>2. /\ cmd \in {"CMD24", "ACMD23", "CMD25"} /\ cmd \in Commands /\ "write" \in Calls
        /\ cmd = "CMD24" => Len(data) = 1
    BY DEF Commands, Calls
  <1>3. data \in Seq(Data) /\ Len(data) \in Int
    BY DEF Data
  <1> HIDE DEF cmd
  <1>4. /\ o \in Ops /\ o.at = "select" /\ o.do = "write" /\ o.then = cmd
        /\ \/ cmd = "ACMD23" /\ o.cmd = "CMD55"
           \/ cmd \in {"CMD24", "CMD25"} /\ o.cmd = cmd
        /\ o.data = data /\ o.left = Len(data)
    <2>1. Started(o, "write", s, data, Len(data), cmd)
      BY <1>2, <1>3, StartTyped, Zenon
    <2> HIDE DEF o
    <2> QED  BY <1>2, <2>1 DEF Started
  <1> HIDE DEF o
  <1>5. op' = o /\ op' \in Ops /\ timer' \in Nat
    BY <1>1, <1>4, GotoTyped DEF TypeOK
  <1>6. kept' \in [Sectors -> Data]
    BY DEF Write, TypeOK, Data
  <1>7. TypeOK'
    BY <1>5, <1>6 DEF Write, TypeOK
  <1>8. Shape(op')
    <2>1. op'.data = data /\ op'.left = Len(data) /\ op'.at = "select" /\ op'.do = "write"
      BY <1>4, <1>5
    <2>2. Len(op'.data) = Len(data)
      BY <2>1
    <2>3. op'.cmd = "CMD24" => Len(data) = 1
      BY <1>2, <1>4, <1>5
    <2>4. Sending(op')
      BY <1>2, <1>4, <1>5 DEF Sending
    <2>5. op'.left = Len(op'.data)
      BY <2>1, <2>2, Zenon
    <2>6. op'.left \in 1 .. 2
      BY <2>1, Zenon
    <2>7. op'.left >= 1
      BY <2>6
    <2> QED  BY <2>1, <2>2, <2>3, <2>4, <2>5, <2>7 DEF Shape
  <1>9. Apart'
    BY QuietWhenIdle DEF Write, TransferInv, Apart
  <1> QED  BY <1>7, <1>8, <1>9 DEF TransferInv, Shape, Sending

LEMMA SyncKeeps ==
  ASSUME TypeOK, TransferInv, Sync
  PROVE  TypeOK' /\ TransferInv'
  <1> DEFINE nil == <<>>
             c   == Call("sync", 0, nil, 0)
  <1>1. c \in Ops /\ c.do = "sync" /\ "select" \in Places
    <2>1. "sync" \in Calls /\ "select" \in Places /\ nil \in Seq(Data)
      BY EmptyData DEF Calls, Places
    <2> HIDE DEF nil
    <2> QED  BY <2>1, CallTyped, Sizes
  <1>2. Goto(At(c, "select"))
    BY DEF Sync
  <1> HIDE DEF c
  <1>3. op' = At(c, "select") /\ op' \in Ops /\ timer' \in Nat
    BY <1>1, <1>2, AtTyped, GotoTyped DEF TypeOK
  <1>4. TypeOK'
    BY <1>3 DEF Sync, TypeOK
  <1>5. Shape(op')
    BY <1>1, <1>3, AtTyped DEF Shape
  <1>6. Apart'
    BY QuietWhenIdle DEF Sync, TransferInv, Apart
  <1> QED  BY <1>4, <1>5, <1>6 DEF TransferInv, Shape, Sending

(* The blocks of a read.                                                   *)
LEMMA StopReadingKeeps ==
  ASSUME op \in Ops, card \in Cards, timer \in Nat, NEW o \in Ops, StopReading(o)
  PROVE  /\ op' = At(o, "end") /\ op' \in Ops /\ timer' \in Nat
         /\ card' \in Cards /\ card'.in = card.in /\ card'.kind = card.kind
         /\ card'.busy = card.busy /\ card'.mem = card.mem
         /\ card.state = "sending" => card'.state = "ready"
         /\ card.state # "sending" => card' = card
  <1>1. "end" \in Places
    BY DEF Places
  <1>2. op' = At(o, "end") /\ op' \in Ops /\ timer' \in Nat
    BY <1>1, AtTyped, GotoTyped DEF StopReading
  <1> QED  BY <1>2 DEF StopReading, Cards

LEMMA TokenOp ==
  ASSUME NEW o \in Ops, NEW block \in Data
  PROVE  LET n == [o EXCEPT !.data = Append(@, block), !.left = @ - 1, !.ok = (o.left = 1)]
         IN /\ n \in Ops /\ n.at = o.at /\ n.do = o.do /\ n.cmd = o.cmd /\ n.then = o.then
            /\ n.sector = o.sector /\ n.data = Append(o.data, block) /\ n.left = o.left - 1
  <1> DEFINE data == Append(o.data, block)
             left == o.left - 1
             ok   == o.left = 1
  <1>1. data \in Seq(Data) /\ left \in Int /\ ok \in BOOLEAN
    BY DEF Ops
  <1> HIDE DEF data, left, ok
  <1>2. LET n == [o EXCEPT !.data = data, !.left = left, !.ok = ok]
        IN /\ n \in Ops /\ n.at = o.at /\ n.do = o.do /\ n.cmd = o.cmd /\ n.then = o.then
           /\ n.sector = o.sector /\ n.data = data /\ n.left = left
    BY <1>1 DEF Ops
  <1> QED  BY <1>2 DEF data, left, ok

LEMMA TokenKeeps ==
  ASSUME TypeOK, TransferInv, Token
  PROVE  TypeOK' /\ TransferInv'
  <1> DEFINE block == IF op.do = "info" THEN Unsure ELSE card.mem[card.at]
             o == [op EXCEPT !.data = Append(@, block), !.left = @ - 1, !.ok = (op.left = 1)]
  <1>1. /\ op \in Ops /\ card \in Cards /\ timer \in Nat /\ card.in /\ card.state = "sending"
        /\ op.at = "token" /\ card.at \in Sectors /\ Shape(op)
    BY DEF TypeOK, TransferInv, Token
  <1>2. block \in Data
    BY <1>1 DEF Cards, Data
  <1>3. IF o.left = 0 THEN StopReading(o)
        ELSE Goto(o) /\ card' = [card EXCEPT !.at = @ + 1]
    BY DEF Token
  <1> HIDE DEF block
  <1>4. /\ o \in Ops /\ o.at = "token" /\ o.do = op.do /\ o.cmd = op.cmd
        /\ o.then = op.then
    BY <1>1, <1>2, TokenOp
  <1>5. op.do \in {"read", "info"} /\ op.cmd \in {"CMD17", "CMD18", "CMD9"}
    BY <1>1 DEF Shape
  <1> HIDE DEF o
  <1>6. CASE o.left = 0
    <2>1. StopReading(o)
      BY <1>3, <1>6
    <2>2. /\ op' = At(o, "end") /\ op' \in Ops /\ timer' \in Nat
          /\ card' \in Cards /\ card'.in = card.in /\ card'.state = "ready"
      BY <1>1, <1>4, <2>1, StopReadingKeeps
    <2>3. op'.at = "end" /\ op'.do = op.do
      BY <1>4, <2>2, AtTyped DEF Places
    <2>4. TypeOK' /\ Shape(op')
      BY <1>5, <2>2, <2>3 DEF Token, TypeOK, Shape
    <2>5. Apart'
      BY <1>1, <2>2 DEF Apart
    <2> QED  BY <2>4, <2>5 DEF TransferInv, Shape, Sending
  <1>7. CASE o.left # 0
    <2>1. op' = o /\ op' \in Ops /\ timer' \in Nat
      BY <1>1, <1>3, <1>4, <1>7, GotoTyped
    <2>2. /\ card' \in Cards /\ card'.state = "sending" /\ card'.in = card.in
      <3>1. card' = [card EXCEPT !.at = card.at + 1] /\ card.at + 1 \in Int
        BY <1>1, <1>3, <1>7, Sizes
      <3> QED  BY <1>1, <3>1 DEF Cards
    <2>3. TypeOK' /\ Shape(op')
      BY <1>4, <1>5, <2>1, <2>2 DEF Token, TypeOK, Shape
    <2>4. Apart'
      BY <1>1, <1>4, <2>1, <2>2 DEF Apart
    <2> QED  BY <2>3, <2>4 DEF TransferInv, Shape, Sending
  <1> QED  BY <1>6, <1>7

LEMMA BadTokenKeeps ==
  ASSUME TypeOK, TransferInv, BadToken
  PROVE  TypeOK' /\ TransferInv'
  <1>1. /\ op \in Ops /\ card \in Cards /\ timer \in Nat /\ card.in /\ card.state = "sending"
        /\ Shape(op) /\ StopReading(op) /\ "end" \in Places
    BY DEF TypeOK, TransferInv, BadToken, Places
  <1>2. /\ op' = At(op, "end") /\ op' \in Ops /\ timer' \in Nat
        /\ card' \in Cards /\ card'.in = card.in /\ card'.state = "ready"
    BY <1>1, StopReadingKeeps
  <1>3. TypeOK'
    BY <1>2 DEF BadToken, TypeOK
  <1>4. Shape(op')
    BY <1>1, <1>2, AtTyped, EndsShape
  <1>5. Apart'
    BY <1>1, <1>2 DEF Apart
  <1> QED  BY <1>3, <1>4, <1>5 DEF TransferInv, Shape, Sending

LEMMA TokenTimesOutKeeps ==
  ASSUME TypeOK, TransferInv, TokenTimesOut
  PROVE  TypeOK' /\ TransferInv'
  <1>1. /\ op \in Ops /\ card \in Cards /\ timer \in Nat /\ op.at = "token"
        /\ Shape(op) /\ op.do # "init" /\ "end" \in Places
    BY DEF TypeOK, TransferInv, TokenTimesOut, Places, Shape
  <1>2. /\ op' = At(op, "end") /\ op' \in Ops /\ timer' \in Nat /\ card' \in Cards
        /\ card' = card \/ (card.state = "sending" /\ card'.state = "ready" /\ card'.in = card.in)
    <2>1. CASE op.cmd = "CMD18"
      BY <1>1, <2>1, StopReadingKeeps DEF TokenTimesOut
    <2>2. CASE op.cmd # "CMD18"
      BY <1>1, <2>2, AtTyped, GotoTyped DEF TokenTimesOut
    <2> QED  BY <2>1, <2>2
  <1>3. stat' = {"NOINIT", "NODISK"}
    BY GiveUpTyped DEF TokenTimesOut, TypeOK
  <1>4. TypeOK'
    BY <1>2, <1>3 DEF TokenTimesOut, TypeOK
  <1>5. Shape(op')
    BY <1>1, <1>2, AtTyped, EndsShape
  <1>6. op'.at = "end" /\ op'.do # "init"
    BY <1>1, <1>2, AtTyped
  <1>7. Apart'
    BY <1>1, <1>2, <1>3, <1>6 DEF TransferInv, Apart
  <1> QED  BY <1>4, <1>5, <1>7 DEF TransferInv, Shape, Sending

(* The blocks of a write.                                                  *)
LEMMA AfterBlockShape ==
  ASSUME NEW o \in Ops, Shape(o), o.at = "xmit", NEW taken \in BOOLEAN
  PROVE  LET n == AfterBlock(o, taken)
         IN /\ n \in Ops /\ Shape(n) /\ n.do = "write" /\ n.cmd = o.cmd
            /\ n.sector = o.sector /\ n.data = o.data
            /\ n.left = (IF taken THEN o.left - 1 ELSE o.left)
            /\ n.ok <=> n.left = 0
            /\ o.cmd = "CMD24" => n.at = "end"
            /\ o.cmd = "CMD25" => n.at = (IF taken /\ n.left > 0 THEN "xmit" ELSE "stop")
  <1> DEFINE left  == IF taken THEN o.left - 1 ELSE o.left
             place == IF o.cmd = "CMD24" THEN "end"
                      ELSE IF taken /\ left > 0 THEN "xmit" ELSE "stop"
             ok    == left = 0
             n     == [o EXCEPT !.left = left, !.ok = ok, !.at = place]
  <1>1. /\ o.do = "write" /\ o.cmd \in {"CMD24", "CMD25"} /\ o.left \in 1 .. Len(o.data)
        /\ o.cmd = "CMD24" => Len(o.data) = 1
    BY DEF Shape
  <1>2. left \in Int /\ place \in Places /\ ok \in BOOLEAN
    BY DEF Ops, Places
  <1>3. place = "xmit" => left \in 1 .. Len(o.data) /\ o.cmd = "CMD25"
    BY <1>1, <1>2 DEF Ops
  <1>4. place \in {"end", "xmit", "stop"} /\ (place # "end" => o.cmd = "CMD25")
    BY <1>1
  <1>5. AfterBlock(o, taken) = n
    BY DEF AfterBlock
  <1>6. /\ o.cmd = "CMD24" => place = "end"
        /\ o.cmd = "CMD25" => place = (IF taken /\ left > 0 THEN "xmit" ELSE "stop")
    OBVIOUS
  <1>7. (ok <=> left = 0) /\ left = (IF taken THEN o.left - 1 ELSE o.left)
    OBVIOUS
  <1> HIDE DEF left, place, ok
  <1>8. /\ n \in Ops /\ n.do = o.do /\ n.cmd = o.cmd /\ n.sector = o.sector /\ n.data = o.data
        /\ n.left = left /\ n.at = place /\ (n.ok <=> ok)
    BY <1>2 DEF Ops
  <1> HIDE DEF n
  <1>9. Shape(n)
    BY <1>1, <1>3, <1>4, <1>8 DEF Shape
  <1>10. n.ok <=> n.left = 0
    BY <1>7, <1>8
  <1> QED  BY <1>1, <1>5, <1>6, <1>7, <1>8, <1>9, <1>10

LEMMA ToldTyped ==
  ASSUME kept \in [Sectors -> Data], NEW o \in Ops, Told(o)
  PROVE  kept' \in [Sectors -> Data]
  <1> SUFFICES ASSUME NEW s \in Sectors, s \in o.sector .. o.sector + Len(o.data) - 1
               PROVE  o.data[s - o.sector + 1] \in Data
    BY DEF Told
  <1>1. o.data \in Seq(Data) /\ o.sector \in Nat /\ s \in Nat
    BY Sizes DEF Ops
  <1>2. s - o.sector + 1 \in 1 .. Len(o.data)
    BY <1>1
  <1> QED  BY <1>1, <1>2

LEMMA TakenTyped ==
  ASSUME card \in Cards, card.at \in Sectors, NEW block \in Data
  PROVE  LET c == Taken(block)
         IN /\ c \in Cards /\ c.in = card.in /\ c.kind = card.kind /\ c.many = card.many
            /\ c.state = (IF card.many THEN card.state ELSE "ready")
            /\ c.at = card.at + 1 /\ c.mem = [card.mem EXCEPT ![card.at] = block]
  <1> DEFINE mem   == [card.mem EXCEPT ![card.at] = block]
             next  == card.at + 1
             state == IF card.many THEN card.state ELSE "ready"
             busy  == TRUE
             n     == [card EXCEPT !.busy = busy, !.mem = mem, !.at = next, !.state = state]
  <1>1. Taken(block) = n
    BY DEF Taken
  <1>2. mem \in [Sectors -> Data] /\ next \in Int /\ state \in States /\ busy \in BOOLEAN
    BY Sizes DEF Cards, States
  <1> HIDE DEF mem, next, state, busy
  <1>3. /\ n \in Cards /\ n.in = card.in /\ n.kind = card.kind /\ n.many = card.many
        /\ n.state = state /\ n.at = next /\ n.mem = mem
    BY <1>2 DEF Cards, States
  <1> HIDE DEF n
  <1> QED  BY <1>1, <1>3 DEF mem, next, state

LEMMA XmitKeeps ==
  ASSUME TypeOK, TransferInv, Xmit
  PROVE  TypeOK' /\ TransferInv'
  <1> DEFINE o == AfterBlock(op, TRUE)
             block == op.data[Len(op.data) - op.left + 1]
  <1>1. /\ op \in Ops /\ card \in Cards /\ timer \in Nat /\ op.at = "xmit"
        /\ card.state = "taking" /\ card.at \in Sectors /\ Shape(op)
        /\ card.in /\ (card.many <=> op.cmd = "CMD25") /\ op.cmd \in {"CMD24", "CMD25"}
    BY DEF TypeOK, TransferInv, Xmit, Apart, Shape
  <1>2. Goto(o) /\ Told(o) /\ card' = Taken(block)
    BY DEF Xmit
  <1>3. block \in Data
    <2>1. op.data \in Seq(Data) /\ op.left \in 1 .. Len(op.data)
      BY <1>1 DEF Ops, Shape
    <2> QED  BY <2>1
  <1>4. /\ o \in Ops /\ Shape(o) /\ o.cmd = op.cmd /\ o.do = "write"
        /\ op.cmd = "CMD24" => o.at = "end"
        /\ op.cmd = "CMD25" => o.at \in {"xmit", "stop"}
    <2>1. TRUE \in BOOLEAN
      OBVIOUS
    <2> QED  BY <1>1, <2>1, AfterBlockShape
  <1> HIDE DEF o, block
  <1>5. op' = o /\ op' \in Ops /\ timer' \in Nat
    BY <1>1, <1>2, <1>4, GotoTyped
  <1>6. /\ card' \in Cards /\ card'.in = card.in /\ (card'.many <=> card.many)
        /\ card'.state = (IF card.many THEN "taking" ELSE "ready")
    <2>1. card' \in Cards /\ card'.in = card.in /\ card'.many = card.many
          /\ card'.state = (IF card.many THEN card.state ELSE "ready")
      BY <1>1, <1>2, <1>3, TakenTyped
    <2> QED  BY <1>1, <2>1
  <1>7. kept' \in [Sectors -> Data]
    BY <1>2, <1>4, ToldTyped DEF TypeOK
  <1>8. TypeOK'
    BY <1>5, <1>6, <1>7 DEF Xmit, TypeOK
  <1>9. Apart'
    BY <1>1, <1>4, <1>5, <1>6 DEF Apart
  <1> QED  BY <1>4, <1>5, <1>8, <1>9 DEF TransferInv, Shape, Sending

LEMMA XmitRefusedKeeps ==
  ASSUME TypeOK, TransferInv, XmitRefused
  PROVE  TypeOK' /\ TransferInv'
  <1> DEFINE o == AfterBlock(op, FALSE)
  <1>1. /\ op \in Ops /\ card \in Cards /\ timer \in Nat /\ op.at = "xmit" /\ Shape(op) /\ Apart
        /\ op.cmd \in {"CMD24", "CMD25"}
    BY DEF TypeOK, TransferInv, XmitRefused, Shape
  <1>2. Goto(o)
    BY DEF XmitRefused
  <1>3. /\ o \in Ops /\ Shape(o) /\ o.cmd = op.cmd /\ o.do = "write"
        /\ op.cmd = "CMD24" => o.at = "end"
        /\ op.cmd = "CMD25" => o.at = "stop"
    <2>1. FALSE \in BOOLEAN
      OBVIOUS
    <2> QED  BY <1>1, <2>1, AfterBlockShape
  <1> HIDE DEF o
  <1>4. op' = o /\ op' \in Ops /\ timer' \in Nat
    BY <1>1, <1>2, <1>3, GotoTyped
  <1>5. /\ card' \in Cards /\ card'.in = card.in /\ card'.busy = card.busy
        /\ card'.state = (IF card.state = "taking" /\ ~card.many THEN "ready" ELSE card.state)
    BY <1>1 DEF XmitRefused, Cards
  <1>6. TypeOK'
    BY <1>4, <1>5 DEF XmitRefused, TypeOK
  <1>7. Apart'
    BY <1>1, <1>3, <1>4, <1>5 DEF XmitRefused, Apart
  <1> QED  BY <1>3, <1>4, <1>6, <1>7 DEF TransferInv, Shape, Sending

LEMMA XmitTimesOutKeeps ==
  ASSUME TypeOK, TransferInv, XmitTimesOut
  PROVE  TypeOK' /\ TransferInv'
  <1> DEFINE o == AfterBlock(op, FALSE)
  <1>1. /\ op \in Ops /\ timer \in Nat /\ op.at = "xmit" /\ Shape(op) /\ Apart
        /\ op.cmd \in {"CMD24", "CMD25"}
    BY DEF TypeOK, TransferInv, XmitTimesOut, Shape
  <1>2. Goto(o)
    BY DEF XmitTimesOut
  <1>3. /\ o \in Ops /\ Shape(o) /\ o.cmd = op.cmd /\ o.do = "write"
        /\ op.cmd = "CMD24" => o.at = "end"
        /\ op.cmd = "CMD25" => o.at = "stop"
    <2>1. FALSE \in BOOLEAN
      OBVIOUS
    <2> QED  BY <1>1, <2>1, AfterBlockShape
  <1> HIDE DEF o
  <1>4. op' = o /\ op' \in Ops /\ timer' \in Nat
    BY <1>1, <1>2, <1>3, GotoTyped
  <1>5. stat' = {"NOINIT", "NODISK"}
    BY GiveUpTyped DEF XmitTimesOut, TypeOK
  <1>6. TypeOK'
    BY <1>4, <1>5 DEF XmitTimesOut, TypeOK
  <1>7. Apart'
    BY <1>1, <1>3, <1>4, <1>5 DEF XmitTimesOut, Apart
  <1> QED  BY <1>3, <1>4, <1>6, <1>7 DEF TransferInv, Shape, Sending

LEMMA StopWritingKeeps ==
  ASSUME TypeOK, TransferInv, StopWriting
  PROVE  TypeOK' /\ TransferInv'
  <1>1. /\ op \in Ops /\ card \in Cards /\ timer \in Nat /\ op.at = "stop" /\ Shape(op) /\ Apart
        /\ "end" \in Places /\ op.do = "write"
    BY DEF TypeOK, TransferInv, StopWriting, Places, Shape
  <1>2. At(op, "end") \in Ops /\ op' = At(op, "end") /\ op' \in Ops /\ timer' \in Nat
    BY <1>1, AtTyped, GotoTyped DEF StopWriting
  <1>3. kept' \in [Sectors -> Data]
    BY <1>2, ToldTyped DEF StopWriting, TypeOK
  <1>4. /\ card' \in Cards /\ card'.in = card.in /\ card'.mem = card.mem
        /\ card.state = "taking" => card'.state = "ready"
        /\ card.state # "taking" => card' = card
    BY <1>1 DEF StopWriting, Cards
  <1>5. TypeOK'
    BY <1>2, <1>3, <1>4 DEF StopWriting, TypeOK
  <1>6. Shape(op')
    BY <1>1, <1>2, AtTyped, EndsShape
  <1>7. Apart'
    BY <1>1, <1>2, <1>4, AtTyped DEF Apart
  <1> QED  BY <1>5, <1>6, <1>7 DEF TransferInv, Shape, Sending

LEMMA StopTimesOutKeeps ==
  ASSUME TypeOK, TransferInv, StopTimesOut
  PROVE  TypeOK' /\ TransferInv'
  <1> DEFINE c == [op EXCEPT !.ok = FALSE]
  <1>1. /\ op \in Ops /\ timer \in Nat /\ op.at = "stop" /\ Shape(op) /\ Apart
        /\ "end" \in Places /\ op.do = "write"
    BY DEF TypeOK, TransferInv, StopTimesOut, Places, Shape
  <1>2. c \in Ops /\ c.do = op.do /\ c.cmd = op.cmd /\ c.data = op.data
    BY <1>1 DEF Ops
  <1>3. Goto(At(c, "end"))
    BY DEF StopTimesOut
  <1> HIDE DEF c
  <1>4. op' = At(c, "end") /\ op' \in Ops /\ timer' \in Nat
    BY <1>1, <1>2, <1>3, AtTyped, GotoTyped
  <1>5. stat' = {"NOINIT", "NODISK"}
    BY GiveUpTyped DEF StopTimesOut, TypeOK
  <1>6. TypeOK'
    BY <1>4, <1>5 DEF StopTimesOut, TypeOK
  <1>7. op'.at = "end" /\ op'.do = op.do /\ op'.cmd = op.cmd /\ op'.data = op.data
    BY <1>1, <1>2, <1>4, AtTyped
  <1>8. Shape(op')
    BY <1>1, <1>4, <1>7, EndsShape
  <1>9. Apart'
    BY <1>1, <1>5, <1>7 DEF StopTimesOut, Apart
  <1> QED  BY <1>6, <1>8, <1>9 DEF TransferInv, Shape, Sending

LEMMA SyncedKeeps ==
  ASSUME TypeOK, TransferInv, Synced
  PROVE  TypeOK' /\ TransferInv'
  <1> DEFINE ok == LineHigh
             o == [op EXCEPT !.at = "end", !.ok = ok]
  <1>1. /\ op \in Ops /\ timer \in Nat /\ op.at = "select" /\ op.do = "sync" /\ Apart
        /\ ok \in BOOLEAN
    BY DEF TypeOK, TransferInv, Synced, LineHigh
  <1>2. Goto(o)
    BY DEF Synced
  <1>3. stat' \subseteq {"NOINIT", "NODISK"}
    BY GiveUpTyped DEF Synced, TypeOK
  <1> HIDE DEF ok
  <1>4. o \in Ops /\ o.at = "end" /\ o.do = "sync"
    BY <1>1 DEF Ops, Places
  <1> HIDE DEF o
  <1>5. op' = o /\ op' \in Ops /\ timer' \in Nat
    BY <1>1, <1>2, <1>4, GotoTyped
  <1>6. TypeOK'
    BY <1>3, <1>5 DEF Synced, TypeOK
  <1>7. Shape(op')
    BY <1>4, <1>5 DEF Shape
  <1>8. Apart'
    BY <1>1 DEF Synced, Apart
  <1> QED  BY <1>6, <1>7, <1>8 DEF TransferInv, Shape, Sending

LEMMA ReturnKeeps ==
  ASSUME TypeOK, TransferInv, Return
  PROVE  TypeOK' /\ TransferInv'
  <1> DEFINE o == IF op.do = "read" /\ op.ok THEN At(op, "done") ELSE Nothing
  <1>1. /\ op \in Ops /\ timer \in Nat /\ op.at = "end" /\ Apart /\ Shape(op)
        /\ "done" \in Places
    BY DEF TypeOK, TransferInv, Return, Places
  <1>2. Goto(o)
    BY DEF Return
  <1>3. o \in Ops /\ o.at = "done" /\ o.do \in {"read", "none"}
    BY <1>1, AtTyped, NothingTyped
  <1> HIDE DEF o
  <1>4. op' = o /\ op' \in Ops /\ timer' \in Nat
    BY <1>1, <1>2, <1>3, GotoTyped
  <1>5. /\ type' \in Types /\ stat' \subseteq {"NOINIT", "NODISK"}
        /\ ~(op.do = "init" /\ op.ok) => stat' = stat
    BY <1>1 DEF Return, TypeOK, Types, Ops
  <1>6. TypeOK'
    BY <1>4, <1>5 DEF Return, TypeOK
  <1>7. Shape(op')
    BY <1>3, <1>4 DEF Shape
  <1>8. Apart'
    BY <1>1, <1>3, <1>4, <1>5 DEF Return, Apart
  <1> QED  BY <1>6, <1>7, <1>8 DEF TransferInv, Shape, Sending

(***************************************************************************)
(* The timer and the card.                                                 *)
(***************************************************************************)
LEMMA TickKeeps ==
  ASSUME TypeOK, TransferInv, Tick
  PROVE  TypeOK' /\ TransferInv'
  <1>1. timer' \in Nat
    BY DEF Tick, TypeOK
  <1> QED  BY <1>1 DEF Tick, TypeOK, TransferInv, Shape, Sending, Apart

LEMMA ProgrammedKeeps ==
  ASSUME TypeOK, TransferInv, Programmed
  PROVE  TypeOK' /\ TransferInv'
  <1>1. /\ card' \in Cards /\ card'.in /\ card'.state = card.state /\ card'.many = card.many
    BY DEF Programmed, TypeOK, Cards
  <1>2. TypeOK'
    BY <1>1 DEF Programmed, TypeOK
  <1>3. Apart'
    BY <1>1 DEF Programmed, TransferInv, Apart
  <1> QED  BY <1>2, <1>3 DEF Programmed, TransferInv, Shape, Sending

LEMMA NoCardIdle == NoCard.state = "idle" /\ ~NoCard.in /\ ~NoCard.busy
  BY DEF NoCard

LEMMA PullKeeps ==
  ASSUME TypeOK, TransferInv, Pull
  PROVE  TypeOK' /\ TransferInv'
  <1>1. card' = NoCard /\ kept' \in [Sectors -> Data]
    BY DEF Pull, Data
  <1>2. TypeOK'
    BY <1>1, NoCardTyped DEF Pull, TypeOK
  <1>3. Apart'
    BY <1>1, NoCardIdle DEF Apart
  <1> QED  BY <1>2, <1>3 DEF Pull, TransferInv, Shape, Sending

LEMMA InsertKeeps ==
  ASSUME TypeOK, TransferInv, NEW k \in Kinds, Insert(k)
  PROVE  TypeOK' /\ TransferInv'
  <1>1. card' = [NoCard EXCEPT !.in = TRUE, !.kind = k]
    BY DEF Insert
  <1>2. card' \in Cards
    BY <1>1, NoCardTyped
  <1>3. card'.state = "idle" /\ card'.in
    BY <1>1 DEF NoCard
  <1>4. TypeOK'
    BY <1>2 DEF Insert, TypeOK
  <1>5. Apart'
    BY <1>3 DEF Apart
  <1> QED  BY <1>4, <1>5 DEF Insert, TransferInv, Shape, Sending

(***************************************************************************)
(* Every step.                                                             *)
(***************************************************************************)
LEMMA InitHolds ==
  ASSUME Init
  PROVE  TypeOK /\ TransferInv
  <1>1. card \in Cards /\ card.state = "idle" /\ ~card.busy
    <2>1. CASE card = NoCard
      BY <2>1, NoCardTyped, NoCardIdle
    <2>2. ASSUME NEW k \in Kinds, card = [NoCard EXCEPT !.in = TRUE, !.kind = k]
          PROVE  card \in Cards /\ card.state = "idle" /\ ~card.busy
      <3>1. card \in Cards
        BY <2>2, NoCardTyped
      <3> QED  BY <2>2, <3>1 DEF NoCard
    <2> QED  BY <2>1, <2>2 DEF Init
  <1>2. kept \in [Sectors -> Data]
    BY DEF Init, Data
  <1>3. TypeOK
    BY <1>1, <1>2, NothingTyped DEF Init, TypeOK, Types
  <1>4. Shape(op)
    BY NothingTyped DEF Init, Shape
  <1>5. Apart
    BY <1>1 DEF Apart
  <1> QED  BY <1>3, <1>4, <1>5 DEF TransferInv

LEMMA NextKeeps ==
  ASSUME TypeOK, TransferInv, [Next]_vars
  PROVE  TypeOK' /\ TransferInv'
  <1>1. CASE Driver
    BY <1>1, SendKeeps, SendFailsKeeps, LoopKeeps, LoopTimesOutKeeps, TokenKeeps, BadTokenKeeps,
       TokenTimesOutKeeps, XmitKeeps, XmitRefusedKeeps, XmitTimesOutKeeps, StopWritingKeeps,
       StopTimesOutKeeps, SyncedKeeps, ReturnKeeps DEF Driver
  <1>2. CASE User
    <2>1. ASSUME NEW forget \in BOOLEAN, Initialize(forget)
          PROVE  TypeOK' /\ TransferInv'
      BY <2>1, InitializeKeeps
    <2>2. ASSUME NEW s \in Sectors, NEW n \in 0 .. 2, Read(s, n)
          PROVE  TypeOK' /\ TransferInv'
      BY <2>2, ReadKeeps
    <2>3. ASSUME NEW s \in Sectors, NEW v \in Values, Write(s, <<v>>)
          PROVE  TypeOK' /\ TransferInv'
      <3>1. <<v>> \in Seq(Values) /\ Len(<<v>>) \in 1 .. 2
        OBVIOUS
      <3> QED  BY <2>3, <3>1, WriteKeeps, Zenon
    <2>4. ASSUME NEW s \in Sectors, NEW v \in Values, NEW w \in Values, Write(s, <<v, w>>)
          PROVE  TypeOK' /\ TransferInv'
      <3>1. <<v, w>> \in Seq(Values) /\ Len(<<v, w>>) \in 1 .. 2
        OBVIOUS
      <3> QED  BY <2>4, <3>1, WriteKeeps, Zenon
    <2> QED  BY <1>2, <2>1, <2>2, <2>3, <2>4, SyncKeeps DEF User
  <1>3. CASE Tick \/ Programmed \/ Pull
    BY <1>3, TickKeeps, ProgrammedKeeps, PullKeeps
  <1>4. ASSUME NEW k \in Kinds, Insert(k)
        PROVE  TypeOK' /\ TransferInv'
    BY <1>4, InsertKeeps
  <1>5. CASE UNCHANGED vars
    BY <1>5 DEF vars, TypeOK, TransferInv, Shape, Sending, Apart
  <1> QED  BY <1>1, <1>2, <1>3, <1>4, <1>5 DEF Next

(* The driver's variables, the card and the bookkeeping have their types.  *)
THEOREM CardTypes == Spec => []TypeOK
  <1>1. Init => TypeOK /\ TransferInv
    BY InitHolds
  <1>2. TypeOK /\ TransferInv /\ [Next]_vars => TypeOK' /\ TransferInv'
    BY NextKeeps
  <1> QED  BY <1>1, <1>2, PTL DEF Spec

(* No command but the stop reaches a card that is in the middle of sending *)
(* or taking blocks: whatever a block ended with, StopReading, the stop    *)
(* token or the NOINIT of a time-out comes before the next command.        *)
THEOREM CardOneTransfer == Spec => []OneTransfer
  <1>1. Init => TypeOK /\ TransferInv
    BY InitHolds
  <1>2. TypeOK /\ TransferInv /\ [Next]_vars => TypeOK' /\ TransferInv'
    BY NextKeeps
  <1>3. TypeOK /\ TransferInv => OneTransfer
    BY DEF TransferInv, Apart, OneTransfer
  <1> QED  BY <1>1, <1>2, <1>3, PTL DEF Spec

(***************************************************************************)
(* The type found, when CMD58 is answered.                                 *)
(***************************************************************************)
LEMMA AnswerFinds ==
  ASSUME card \in Cards, Apart, NEW cmd \in Commands, NEW arg \in Int, NEW hcs \in BOOLEAN,
         cmd # "CMD0" => card.state \in {"idle", "ready"},
         NEW r \in Responses, Answer(cmd, arg, hcs, r)
  PROVE  /\ card.kind = "SDHC" /\ card.state = "idle" /\ card'.state # "idle" => hcs
         /\ cmd \in {"CMD58", "CMD16"} /\ r # 0 /\ ~OcrFaults => card'.state = "idle"
         /\ cmd = "CMD8" /\ r # 1 /\ card.kind = "SDHC" => card'.state = "idle"
         /\ cmd = "CMD0" => card'.state = "idle"
  <1>1. Answered(cmd, arg, r)
    BY AnswersSafe
  <1>2. card.kind = "SDHC" /\ card.state = "idle" /\ card'.state # "idle" => hcs
    <2> SUFFICES ASSUME card.kind = "SDHC", card.state = "idle", card'.state # "idle"  PROVE hcs
      OBVIOUS
    <2>1. card.in /\ cmd \notin {"CMD0", "CMD8"}
      BY <1>1 DEF Answer, Answered
    <2>2. AnswerIdle(cmd, hcs, r)
      BY <2>1, Zenon DEF Answer
    <2> QED  BY <2>1, <2>2 DEF AnswerIdle, Starts, SDC
  <1>3. ASSUME cmd \in {"CMD58", "CMD16"}, r # 0, ~OcrFaults
        PROVE  card'.state = "idle"
    <2>1. CASE ~card.in
      BY <1>1, <2>1 DEF Answered, Apart
    <2>2. CASE card.in /\ card.state = "idle"
      BY <1>3, <2>2 DEF Answer, AnswerIdle, Starts
    <2>3. CASE card.in /\ card.state = "ready"
      <3>1. AnswerReady(cmd, arg, r)
        BY <1>3, <2>3, Zenon DEF Answer
      <3>2. cmd \notin {"CMD9", "CMD17", "CMD18", "CMD24", "CMD25"}
        BY <1>3
      <3>3. r = 0
        BY <1>3, <3>1, <3>2 DEF AnswerReady
      <3> QED  BY <1>3, <3>3
    <2> QED  BY <1>3, <2>1, <2>2, <2>3
  <1>4. ASSUME cmd = "CMD8", r # 1, card.kind = "SDHC"
        PROVE  card'.state = "idle"
    BY <1>1, <1>4 DEF Answer, Answered, Apart, AnswerReady
  <1>5. cmd = "CMD0" => card'.state = "idle"
    BY <1>1 DEF Answered, Apart
  <1> QED  BY <1>2, <1>3, <1>4, <1>5

(* A card that is idle is started by no other command than ACMD41 and CMD1. *)
LEMMA AnswerIdleStays ==
  ASSUME card \in Cards, NEW cmd \in {"CMD55", "ACMD23"} \cup Reads \cup Writes,
         NEW arg \in Int, NEW hcs \in BOOLEAN, NEW r \in Responses,
         Answer(cmd, arg, hcs, r), card.state = "idle"
  PROVE  card'.state = "idle"
  <1>1. CASE card.in
    <2>1. AnswerIdle(cmd, hcs, r)
      BY <1>1, Zenon DEF Answer, Reads, Writes
    <2> QED  BY <2>1 DEF AnswerIdle, Starts, Reads, Writes
  <1>2. CASE ~card.in
    BY <1>2 DEF Answer
  <1> QED  BY <1>1, <1>2

(* A step of any other call, and of the card, finds no new type.           *)
LEMMA TypeFoundKept ==
  ASSUME TypeOK, TypeFound, op.do # "init", op'.do # "init", type' = type,
         Hot' => Hot /\ card'.kind = card.kind,
         op.do = "none" /\ (op'.do = "none" => "NOINIT" \notin stat') => "NOINIT" \notin stat
  PROVE  TypeFound'
  BY DEF TypeFound, Right, Hot

(* What an initialisation knows after a response.                          *)
LEMMA InitFound ==
  ASSUME TypeOK, TransferInv, TypeFound, op.do = "init", op.at = "select",
         NEW r \in Responses, op' = Respond(op, r), Responded(op', op, r),
         card'.kind = card.kind,
         Hot' /\ card.kind = "SDHC" /\ op.cmd # "CMD0" => op.type = "SD2",
         op.cmd = "CMD0" /\ r = 1 => ~Hot',
         op.cmd = "CMD0" /\ r # 1 => "NOINIT" \in stat' \/ ~Hot',
         op.cmd \in {"CMD58", "CMD16"} /\ r # 0 => "NOINIT" \in stat' \/ ~Hot'
  PROVE  TypeFound'
  <1>1. /\ op \in Ops /\ op' \in Ops /\ op'.do = "init" /\ Sending(op) /\ ~op.ok
        /\ op.type # "SDHC" /\ "end" \in Places
    BY DEF TypeOK, TransferInv, Shape, Sending, Responded, Carries, TypeFound, Places
  <1>2. CASE op.cmd = "CMD55" /\ r <= 1
    <2>1. op' = [op EXCEPT !.cmd = op.then]
      BY <1>2 DEF Respond
    <2>2. op'.at = "select" /\ op'.type = op.type /\ op'.cmd = "ACMD41"
      BY <1>1, <1>2, <2>1 DEF Ops, Sending
    <2> QED  BY <1>1, <1>2, <2>2 DEF TypeFound, Hot
  <1>3. CASE ~(op.cmd = "CMD55" /\ r <= 1)
    <2>0. op' = InitNext(op, r)
      BY <1>3 DEF Respond
    <2>1. CASE op.cmd = "CMD0"
      <3>1. CASE r = 1
        <4>1. op' = Begin(op, "CMD8")
          BY <2>0, <2>1, <3>1 DEF InitNext
        <4>2. op'.at = "select" /\ op'.type = op.type /\ op'.cmd = "CMD8"
          BY <1>1, <4>1, BeginTyped DEF Commands
        <4> QED  BY <1>1, <2>1, <3>1, <4>2 DEF TypeFound
      <3>2. CASE r # 1
        <4>1. op' = At(op, "end")
          BY <2>0, <2>1, <3>2 DEF InitNext
        <4>2. op'.at = "end" /\ ~op'.ok
          BY <1>1, <4>1, AtTyped
        <4> QED  BY <1>1, <2>1, <3>2, <4>2 DEF TypeFound
      <3> QED  BY <3>1, <3>2
    <2>2. CASE op.cmd = "CMD8"
      <3>1. CASE r = 1
        <4>1. op' = [op EXCEPT !.at = "loop", !.type = "SD2", !.then = "ACMD41"]
          BY <2>0, <2>2, <3>1 DEF InitNext
        <4>2. op'.at = "loop" /\ op'.type = "SD2"
          BY <1>1, <4>1 DEF Ops
        <4> QED  BY <1>1, <4>2 DEF TypeFound
      <3>2. CASE r # 1
        <4>1. op' = Begin(op, "ACMD41")
          BY <2>0, <2>2, <3>2 DEF InitNext
        <4>2. op'.at = "select" /\ op'.type = op.type /\ op'.cmd = "CMD55"
          BY <1>1, <4>1, BeginTyped DEF Commands
        <4> QED  BY <1>1, <2>2, <3>2, <4>2 DEF TypeFound
      <3> QED  BY <3>1, <3>2
    <2>3. CASE op.cmd \notin {"CMD0", "CMD8"} /\ op.type = "none"
      <3>1. op' = [op EXCEPT !.at = "loop", !.type = IF r <= 1 THEN "SD1" ELSE "MMC",
                             !.then = IF r <= 1 THEN "ACMD41" ELSE "CMD1"]
        BY <2>0, <2>3 DEF InitNext
      <3>2. op'.at = "loop" /\ op'.type \in {"SD1", "MMC"}
        BY <1>1, <3>1 DEF Ops
      <3> QED  BY <1>1, <2>3, <3>2 DEF TypeFound
    <2>4. CASE op.cmd = "CMD58" /\ op.type # "none"
      <3>1. CASE r = 0
        <4>1. PICK found \in Types :
                /\ op' = [op EXCEPT !.at = "end", !.ok = TRUE, !.type = found]
                /\ found = "SDHC" <=> card.kind = "SDHC"
          BY <2>0, <2>4, <3>1 DEF InitNext, Types
        <4>2. op'.at = "end" /\ op'.ok /\ op'.type = found
          BY <1>1, <4>1 DEF Ops
        <4> QED  BY <1>1, <4>1, <4>2 DEF TypeFound, Right
      <3>2. CASE r # 0
        <4>1. op' = At(op, "end")
          BY <2>0, <2>4, <3>2 DEF InitNext
        <4>2. op'.at = "end" /\ ~op'.ok
          BY <1>1, <4>1, AtTyped
        <4> QED  BY <1>1, <2>4, <3>2, <4>2 DEF TypeFound
      <3> QED  BY <3>1, <3>2
    <2>5. CASE op.cmd = "CMD16" /\ op.type # "none"
      <3>1. op' = [op EXCEPT !.at = "end", !.ok = (r = 0)]
        BY <2>0, <2>5 DEF InitNext
      <3>2. op'.at = "end" /\ (op'.ok <=> r = 0) /\ op'.type = op.type
        BY <1>1, <3>1 DEF Ops
      <3>3. op.type \in {"SD1", "MMC"}
        BY <1>1, <2>5 DEF TypeFound
      <3> QED  BY <1>1, <2>5, <3>2, <3>3 DEF TypeFound, Right
    <2>6. CASE op.cmd \notin {"CMD0", "CMD8", "CMD58", "CMD16"} /\ op.type # "none"
      <3>1. op' = At(op, "loop") \/ op' = At(op, "leave")
        BY <2>0, <2>6 DEF InitNext
      <3>2. op'.at \in {"loop", "leave"} /\ op'.type = op.type
        BY <1>1, <3>1, AtTyped DEF Places
      <3> QED  BY <1>1, <2>6, <3>2 DEF TypeFound
    <2> QED  BY <2>1, <2>2, <2>3, <2>4, <2>5, <2>6
  <1> QED  BY <1>2, <1>3

LEMMA TypeFoundSend ==
  ASSUME TypeOK, TransferInv, TypeFound, ~OcrFaults, Send
  PROVE  TypeFound'
  <1> DEFINE hcs == op.type = "SD2"
  <1>1. PICK r \in Responses :
          /\ Answer(op.cmd, Address, hcs, r) /\ Answered(op.cmd, Address, r)
          /\ op' = Respond(op, r) /\ Responded(op', op, r)
    BY SendDoes, Zenon
  <1>2. /\ card \in Cards /\ op.cmd \in Commands /\ hcs \in BOOLEAN /\ Address \in Int
        /\ op.at = "select" /\ Apart /\ type' = type /\ stat' = stat /\ Sending(op) /\ Shape(op)
        /\ op.cmd # "CMD0" => card.state \in {"idle", "ready"}
    BY AddressTyped DEF Send, TypeOK, TransferInv, Ops, Apart, Shape, Cards
  <1>3. hcs <=> op.type = "SD2"
    OBVIOUS
  <1> HIDE DEF hcs
  <1>4. /\ card.kind = "SDHC" /\ card.state = "idle" /\ card'.state # "idle" => hcs
        /\ op.cmd \in {"CMD58", "CMD16"} /\ r # 0 => card'.state = "idle"
        /\ op.cmd = "CMD8" /\ r # 1 /\ card.kind = "SDHC" => card'.state = "idle"
        /\ op.cmd = "CMD0" => card'.state = "idle"
    BY <1>1, <1>2, AnswerFinds
  <1>5. card'.kind = card.kind
    BY <1>1 DEF Answered
  <1>6. CASE op.do = "init"
    <2>1. card.state # "idle" /\ card.kind = "SDHC" /\ op.cmd # "CMD0" => op.type = "SD2"
      BY <1>2, <1>6 DEF TypeFound, Hot, Cards
    <2>2. Hot' /\ card.kind = "SDHC" /\ op.cmd # "CMD0" => op.type = "SD2"
      BY <1>3, <1>4, <2>1 DEF Hot
    <2>3. /\ op.cmd = "CMD0" => ~Hot'
          /\ op.cmd \in {"CMD58", "CMD16"} /\ r # 0 => ~Hot'
      BY <1>4 DEF Hot
    <2>4. /\ Hot' /\ card.kind = "SDHC" /\ op.cmd # "CMD0" => op.type = "SD2"
          /\ op.cmd = "CMD0" /\ r = 1 => ~Hot'
          /\ op.cmd = "CMD0" /\ r # 1 => "NOINIT" \in stat' \/ ~Hot'
          /\ op.cmd \in {"CMD58", "CMD16"} /\ r # 0 => "NOINIT" \in stat' \/ ~Hot'
      BY <2>2, <2>3
    <2> QED  BY <1>1, <1>2, <1>5, <1>6, <2>4, InitFound, Zenon
  <1>7. CASE op.do # "init"
    <2>1. op.do # "none" /\ op'.do = op.do
      BY <1>1, <1>2, <1>7 DEF Sending, Responded, Carries
    <2>2. Hot' => Hot
      <3>1. op.cmd \in {"CMD55", "ACMD23"} \cup Reads \cup Writes
        BY <1>2, <1>7 DEF Sending, Reads, Writes
      <3>2. card.state = "idle" => card'.state = "idle"
        BY <1>1, <1>2, <3>1, AnswerIdleStays
      <3> QED  BY <1>2, <3>1, <3>2 DEF Hot, Apart, Cards, Reads, Writes
    <2> QED  BY <1>2, <1>5, <1>7, <2>1, <2>2, TypeFoundKept
  <1> QED  BY <1>6, <1>7

LEMMA TypeFoundSendFails ==
  ASSUME TypeOK, TransferInv, TypeFound, SendFails
  PROVE  TypeFound'
  <1>1. /\ op \in Ops /\ card \in Cards /\ op.at = "select" /\ op.do # "sync" /\ Sending(op)
        /\ Shape(op) /\ 255 \in Responses /\ card' = card /\ type' = type
    BY DEF SendFails, TypeOK, TransferInv, Responses, Shape
  <1>2. Responded(Respond(op, 255), op, 255)
    BY <1>1, RespondResponded
  <1>3. op' = Respond(op, 255)
    BY <1>2, GotoTyped DEF SendFails, TypeOK, Responded, Carries
  <1>4. Responded(op', op, 255)
    BY <1>2, <1>3
  <1>5. stat' = {"NOINIT", "NODISK"}
    BY GiveUpTyped DEF SendFails, TypeOK
  <1>6. CASE op.do = "init"
    <2>1. Hot' /\ card.kind = "SDHC" /\ op.cmd # "CMD0" => op.type = "SD2"
      BY <1>1, <1>6 DEF TypeFound, Hot
    <2>2. /\ Hot' /\ card.kind = "SDHC" /\ op.cmd # "CMD0" => op.type = "SD2"
          /\ op.cmd = "CMD0" /\ 255 = 1 => ~Hot'
          /\ op.cmd = "CMD0" /\ 255 # 1 => "NOINIT" \in stat' \/ ~Hot'
          /\ op.cmd \in {"CMD58", "CMD16"} /\ 255 # 0 => "NOINIT" \in stat' \/ ~Hot'
      BY <1>5, <2>1
    <2> QED  BY <1>1, <1>3, <1>4, <1>6, <2>2, InitFound, Zenon
  <1>7. CASE op.do # "init"
    <2>1. op.do # "none" /\ op'.do = op.do
      BY <1>1, <1>4, <1>7 DEF Sending, Responded, Carries
    <2>2. Hot' => Hot
      BY <1>1 DEF Hot
    <2> QED  BY <1>1, <1>7, <2>1, <2>2, TypeFoundKept
  <1> QED  BY <1>6, <1>7

LEMMA TypeFoundLoop ==
  ASSUME TypeOK, TransferInv, TypeFound, Loop
  PROVE  TypeFound'
  <1> DEFINE cmd == IF op.at = "loop" THEN op.then
                    ELSE IF op.type = "SD2" THEN "CMD58" ELSE "CMD16"
  <1>1. /\ op \in Ops /\ op.do = "init" /\ ~op.ok /\ op.at \in {"loop", "leave"}
        /\ card' = card /\ stat' = stat /\ type' = type /\ cmd \in Commands
    BY DEF TypeOK, TransferInv, Shape, Loop, Commands
  <1>2. /\ cmd = "CMD58" => op.type = "SD2"
        /\ cmd = "CMD16" => op.type \in {"SD1", "MMC"}
    BY <1>1 DEF TypeFound, TransferInv, Shape, Ops, Types
  <1>3. Goto(Begin(op, cmd))
    BY DEF Loop
  <1> HIDE DEF cmd
  <1>4. /\ op'.at = "select" /\ op'.do = "init" /\ op'.type = op.type
        /\ op'.cmd \in {cmd, "CMD55"}
    BY <1>1, <1>3, BeginTyped, GotoTyped DEF TypeOK
  <1> QED  BY <1>1, <1>2, <1>4 DEF TypeFound, Hot

LEMMA TypeFoundLoopTimesOut ==
  ASSUME TypeOK, TransferInv, TypeFound, LoopTimesOut
  PROVE  TypeFound'
  <1>1. /\ op \in Ops /\ op.do = "init" /\ ~op.ok /\ "end" \in Places
    BY DEF TypeOK, TransferInv, Shape, LoopTimesOut, Places
  <1>2. op' = At(op, "end")
    BY <1>1, AtTyped, GotoTyped DEF LoopTimesOut, TypeOK
  <1>3. op'.at = "end" /\ op'.do = "init" /\ ~op'.ok /\ "NOINIT" \in stat'
    BY <1>1, <1>2, AtTyped, GiveUpTyped DEF LoopTimesOut, TypeOK
  <1> QED  BY <1>3 DEF TypeFound

(* What the steps of a read and of a write do.                             *)
LEMMA TokenDoes ==
  ASSUME TypeOK, TransferInv, Token
  PROVE  /\ op'.do = op.do /\ op'.sector = op.sector /\ op'.at \in {"end", "token"}
         /\ op'.data = Append(op.data, IF op.do = "info" THEN Unsure ELSE card.mem[card.at])
         /\ card'.in = card.in /\ card'.kind = card.kind /\ card'.mem = card.mem
         /\ op'.at = "token" => card'.at = card.at + 1
  <1> DEFINE block == IF op.do = "info" THEN Unsure ELSE card.mem[card.at]
             o == [op EXCEPT !.data = Append(@, block), !.left = @ - 1, !.ok = (op.left = 1)]
  <1>1. /\ op \in Ops /\ card \in Cards /\ timer \in Nat /\ op.at = "token" /\ card.at \in Sectors
    BY DEF TypeOK, Token
  <1>2. block \in Data
    BY <1>1 DEF Cards, Data
  <1>3. IF o.left = 0 THEN StopReading(o)
        ELSE Goto(o) /\ card' = [card EXCEPT !.at = @ + 1]
    BY DEF Token
  <1> HIDE DEF block
  <1>4. /\ o \in Ops /\ o.at = "token" /\ o.do = op.do /\ o.sector = op.sector
        /\ o.data = Append(op.data, block)
    BY <1>1, <1>2, TokenOp
  <1> HIDE DEF o
  <1>5. CASE o.left = 0
    <2>1. StopReading(o)
      BY <1>3, <1>5
    <2>2. op' = At(o, "end") /\ card'.in = card.in /\ card'.kind = card.kind /\ card'.mem = card.mem
      BY <1>1, <1>4, <2>1, StopReadingKeeps
    <2>3. op'.at = "end" /\ op'.do = op.do /\ op'.sector = op.sector /\ op'.data = o.data
      BY <1>4, <2>2, AtTyped DEF Places
    <2> QED  BY <1>4, <2>2, <2>3 DEF block
  <1>6. CASE o.left # 0
    <2>1. op' = o
      BY <1>1, <1>3, <1>4, <1>6, GotoTyped
    <2>2. card' = [card EXCEPT !.at = card.at + 1]
      BY <1>3, <1>6
    <2>3. card'.in = card.in /\ card'.kind = card.kind /\ card'.mem = card.mem /\ card'.at = card.at + 1
      BY <1>1, <2>2 DEF Cards
    <2> QED  BY <1>4, <2>1, <2>3 DEF block
  <1> QED  BY <1>5, <1>6

(* A read that breaks off.                                                 *)
LEMMA ReadBreaks ==
  ASSUME TypeOK, TransferInv, BadToken \/ TokenTimesOut
  PROVE  /\ op'.at = "end" /\ op'.do = op.do /\ op'.sector = op.sector /\ op'.data = op.data
         /\ card'.in = card.in /\ card'.kind = card.kind /\ card'.mem = card.mem /\ kept' = kept /\ type' = type
         /\ card.state = "idle" => card'.state = "idle"
  <1>1. /\ op \in Ops /\ card \in Cards /\ timer \in Nat /\ "end" \in Places
        /\ kept' = kept /\ type' = type
    BY DEF TypeOK, BadToken, TokenTimesOut, Places
  <1>2. CASE StopReading(op)
    BY <1>1, <1>2, StopReadingKeeps, AtTyped
  <1>3. CASE Goto(At(op, "end")) /\ UNCHANGED card
    BY <1>1, <1>3, AtTyped, GotoTyped
  <1> QED  BY <1>2, <1>3 DEF BadToken, TokenTimesOut

LEMMA XmitDoes ==
  ASSUME TypeOK, TransferInv, Xmit
  PROVE  /\ op' = AfterBlock(op, TRUE) /\ Told(op')
         /\ card'.in = card.in /\ card'.kind = card.kind /\ card'.at = card.at + 1
         /\ card'.mem = [card.mem EXCEPT ![card.at] = op.data[Len(op.data) - op.left + 1]]
         /\ card.state = "taking" /\ card.at \in Sectors
  <1> DEFINE o == AfterBlock(op, TRUE)
             block == op.data[Len(op.data) - op.left + 1]
  <1>1. /\ op \in Ops /\ card \in Cards /\ timer \in Nat /\ op.at = "xmit"
        /\ card.state = "taking" /\ card.at \in Sectors /\ Shape(op)
    BY DEF TypeOK, TransferInv, Xmit
  <1>2. Goto(o) /\ Told(o) /\ card' = Taken(block)
    BY DEF Xmit
  <1>3. block \in Data
    <2>1. op.data \in Seq(Data) /\ op.left \in 1 .. Len(op.data)
      BY <1>1 DEF Ops, Shape
    <2> QED  BY <2>1
  <1>4. o \in Ops
    <2>1. TRUE \in BOOLEAN
      OBVIOUS
    <2> QED  BY <1>1, <2>1, AfterBlockShape
  <1>5. op' = o
    <2> HIDE DEF o
    <2> QED  BY <1>1, <1>2, <1>4, GotoTyped
  <1>6. Told(op')
    BY <1>2, <1>5, Zenon
  <1> HIDE DEF block
  <1>7. card'.in = card.in /\ card'.kind = card.kind /\ card'.at = card.at + 1
        /\ card'.mem = [card.mem EXCEPT ![card.at] = block]
    BY <1>1, <1>2, <1>3, TakenTyped
  <1> QED  BY <1>1, <1>5, <1>6, <1>7 DEF block

(* A block that was not taken.                                             *)
LEMMA WriteBreaks ==
  ASSUME TypeOK, TransferInv, XmitRefused \/ XmitTimesOut
  PROVE  /\ op' = AfterBlock(op, FALSE)
         /\ card'.in = card.in /\ card'.kind = card.kind /\ card'.mem = card.mem /\ card'.at = card.at
         /\ card.state = "idle" => card'.state = "idle"
         /\ card'.state = "taking" => card.state = "taking"
         /\ kept' = kept /\ type' = type /\ op.at = "xmit"
  <1> DEFINE o == AfterBlock(op, FALSE)
  <1>1. /\ op \in Ops /\ card \in Cards /\ timer \in Nat /\ op.at = "xmit" /\ Shape(op)
        /\ kept' = kept /\ type' = type /\ Goto(o)
    BY DEF TypeOK, TransferInv, XmitRefused, XmitTimesOut
  <1>2. o \in Ops
    <2>1. FALSE \in BOOLEAN
      OBVIOUS
    <2> QED  BY <1>1, <2>1, AfterBlockShape
  <1> HIDE DEF o
  <1>3. op' = o
    BY <1>1, <1>2, GotoTyped
  <1>4. /\ card'.in = card.in /\ card'.kind = card.kind /\ card'.mem = card.mem /\ card'.at = card.at
        /\ card.state = "idle" => card'.state = "idle"
        /\ card'.state = "taking" => card.state = "taking"
    BY <1>1 DEF XmitRefused, XmitTimesOut, Cards
  <1> QED  BY <1>1, <1>3, <1>4 DEF o

LEMMA StopWritingDoes ==
  ASSUME TypeOK, TransferInv, StopWriting
  PROVE  /\ op' = At(op, "end") /\ op'.at = "end" /\ op'.do = op.do /\ op'.sector = op.sector
         /\ op'.data = op.data /\ op'.left = op.left /\ (op'.ok <=> op.ok) /\ Told(op')
         /\ card'.in = card.in /\ card'.kind = card.kind /\ card'.mem = card.mem
         /\ card.state = "idle" => card'.state = "idle"
  <1>1. /\ op \in Ops /\ card \in Cards /\ timer \in Nat /\ "end" \in Places
    BY DEF TypeOK, StopWriting, Places
  <1>2. op' = At(op, "end")
    BY <1>1, AtTyped, GotoTyped DEF StopWriting
  <1>3. Told(op')
    BY <1>2, Zenon DEF StopWriting
  <1>4. /\ card'.in = card.in /\ card'.kind = card.kind /\ card'.mem = card.mem
        /\ card.state = "idle" => card'.state = "idle"
    BY <1>1 DEF StopWriting, Cards
  <1> QED  BY <1>1, <1>2, <1>3, <1>4, AtTyped

LEMMA StopTimesOutDoes ==
  ASSUME TypeOK, TransferInv, StopTimesOut
  PROVE  op'.at = "end" /\ op'.do = op.do
  <1> DEFINE c == [op EXCEPT !.ok = FALSE]
  <1>1. op \in Ops /\ timer \in Nat /\ "end" \in Places
    BY DEF TypeOK, StopTimesOut, Places
  <1>2. c \in Ops /\ c.do = op.do
    BY <1>1 DEF Ops
  <1>3. Goto(At(c, "end"))
    BY DEF StopTimesOut
  <1> HIDE DEF c
  <1> QED  BY <1>1, <1>2, <1>3, AtTyped, GotoTyped

LEMMA SyncedDoes ==
  ASSUME TypeOK, TransferInv, Synced
  PROVE  op'.at = "end" /\ op'.do = "sync"
  <1> DEFINE ok == LineHigh
             o == [op EXCEPT !.at = "end", !.ok = ok]
  <1>1. op \in Ops /\ timer \in Nat /\ op.do = "sync" /\ ok \in BOOLEAN
    BY DEF TypeOK, Synced, LineHigh
  <1>2. Goto(o)
    BY DEF Synced
  <1> HIDE DEF ok
  <1>3. o \in Ops /\ o.at = "end" /\ o.do = "sync"
    BY <1>1 DEF Ops, Places
  <1> HIDE DEF o
  <1> QED  BY <1>1, <1>2, <1>3, GotoTyped

LEMMA ReturnDoes ==
  ASSUME TypeOK, TransferInv, Return
  PROVE  /\ \/ op.do = "read" /\ op.ok /\ op' = At(op, "done")
            \/ op' = Nothing
         /\ op'.do \in {"read", "none"} /\ (op'.do = "read" => op.do = "read")
         /\ op'.at = "done" /\ (op'.do = "read" => op'.sector = op.sector /\ op'.data = op.data)
  <1> DEFINE o == IF op.do = "read" /\ op.ok THEN At(op, "done") ELSE Nothing
  <1>1. op \in Ops /\ timer \in Nat /\ "done" \in Places
    BY DEF TypeOK, Places
  <1>2. /\ o \in Ops /\ o.at = "done" /\ o.do \in {"read", "none"}
        /\ o.do = "read" => op.do = "read" /\ o.sector = op.sector /\ o.data = op.data
    BY <1>1, AtTyped, NothingTyped
  <1>3. Goto(o)
    BY DEF Return
  <1>4. op' = o
    <2> HIDE DEF o
    <2> QED  BY <1>1, <1>2, <1>3, GotoTyped
  <1> QED  BY <1>2, <1>4

(* Calls that start: an initialisation, or not even that, or another.      *)
LEMMA InitializeDoes ==
  ASSUME TypeOK, NEW forget \in BOOLEAN, Initialize(forget)
  PROVE  \/ /\ op'.do = "init" /\ op'.at = "select" /\ op'.cmd = "CMD0" /\ op'.type = "none"
         \/ op' = Nothing /\ stat' = stat
  <1> DEFINE o == Begin(Call("init", 0, <<>>, 0), "CMD0")
  <1>1. /\ o \in Ops /\ o.at = "select" /\ o.do = "init" /\ o.cmd = "CMD0" /\ o.type = "none"
    <2>1. "init" \in Calls /\ "CMD0" \in Commands /\ "CMD0" \notin {"ACMD41", "ACMD23"}
      BY DEF Calls, Commands
    <2>2. 0 \in Int
      OBVIOUS
    <2>3. Started(o, "init", 0, <<>>, 0, "CMD0")
      BY <2>1, <2>2, Sizes, EmptyData, StartTyped, Zenon
    <2> HIDE DEF o
    <2> QED  BY <2>1, <2>3 DEF Started
  <1>2. Goto(IF "NODISK" \in stat' THEN Nothing ELSE o)
    BY DEF Initialize
  <1>3. "NODISK" \in stat' => stat' = stat
    BY DEF Initialize
  <1> HIDE DEF o
  <1> QED  BY <1>1, <1>2, <1>3, NothingTyped, GotoTyped DEF TypeOK

LEMMA ReadDoes ==
  ASSUME TypeOK, NEW s \in Sectors, NEW n \in 0 .. 2, Read(s, n)
  PROVE  op'.do \in {"info", "read"} /\ op'.at = "select" /\ op'.data = <<>>
  <1> DEFINE do  == IF n = 0 THEN "info" ELSE "read"
             m   == IF n = 0 THEN 1 ELSE n
             cmd == IF n = 0 THEN "CMD9" ELSE IF n = 1 THEN "CMD17" ELSE "CMD18"
             o   == Begin(Call(do, s, <<>>, m), cmd)
  <1>1. Goto(o)
    BY DEF Read
  <1>2. /\ do \in Calls /\ cmd \in Commands /\ m \in Int /\ do \in {"info", "read"}
    BY DEF Calls, Commands
  <1> HIDE DEF do, m, cmd
  <1>3. Started(o, do, s, <<>>, m, cmd)
    BY <1>2, EmptyData, StartTyped, Zenon
  <1> HIDE DEF o
  <1>4. o \in Ops /\ o.at = "select" /\ o.do = do /\ o.data = <<>>
    BY <1>3, Zenon DEF Started
  <1>5. op' = o
    BY <1>1, <1>4, GotoTyped DEF TypeOK
  <1> QED  BY <1>2, <1>4, <1>5, Zenon

LEMMA WriteDoes ==
  ASSUME TypeOK, NEW s \in Sectors, NEW data \in Seq(Values), Write(s, data)
  PROVE  op'.do = "write" /\ op'.at = "select" /\ op'.data = data /\ op'.sector = s
  <1> DEFINE cmd == IF Len(data) = 1 THEN "CMD24" ELSE IF type \in SDC THEN "ACMD23" ELSE "CMD25"
             o   == Begin(Call("write", s, data, Len(data)), cmd)
  <1>1. Goto(o)
    BY DEF Write
  <1>2. cmd \in Commands /\ "write" \in Calls /\ data \in Seq(Data) /\ Len(data) \in Int
    BY DEF Commands, Calls, Data
  <1> HIDE DEF cmd
  <1>3. Started(o, "write", s, data, Len(data), cmd)
    BY <1>2, StartTyped, Zenon
  <1> HIDE DEF o
  <1>4. o \in Ops /\ o.at = "select" /\ o.do = "write" /\ o.data = data /\ o.sector = s
    BY <1>3 DEF Started
  <1> QED  BY <1>1, <1>4, GotoTyped DEF TypeOK

LEMMA SyncDoes ==
  ASSUME TypeOK, Sync
  PROVE  op'.do = "sync" /\ op'.at = "select"
  <1> DEFINE nil == <<>>
             c   == Call("sync", 0, nil, 0)
  <1>1. c \in Ops /\ c.do = "sync" /\ "select" \in Places
    <2>1. "sync" \in Calls /\ "select" \in Places /\ nil \in Seq(Data)
      BY EmptyData DEF Calls, Places
    <2> HIDE DEF nil
    <2> QED  BY <2>1, CallTyped, Sizes
  <1>2. Goto(At(c, "select"))
    BY DEF Sync
  <1> HIDE DEF c
  <1> QED  BY <1>1, <1>2, AtTyped, GotoTyped DEF TypeOK

(***************************************************************************)
(* CardType stays right.                                                   *)
(***************************************************************************)
LEMMA TypeFoundStill ==
  ASSUME TypeFound, op' = op, type' = type, stat' = stat,
         Hot' => Hot /\ card'.kind = card.kind
  PROVE  TypeFound'
  BY DEF TypeFound, Right, Hot

LEMMA TypeFoundRead ==
  ASSUME TypeOK, TransferInv, TypeFound, Token \/ BadToken \/ TokenTimesOut
  PROVE  TypeFound'
  <1>1. op.do \in {"read", "info"} /\ type' = type /\ (card.state = "idle" => ~Hot)
    BY DEF Token, BadToken, TokenTimesOut, TransferInv, Shape, Hot
  <1>2. CASE Token
    <2>1. op'.do = op.do /\ card'.kind = card.kind
      BY <1>2, TokenDoes
    <2>2. Hot
      BY <1>2 DEF Token, Hot
    <2> QED  BY <1>1, <2>1, <2>2, TypeFoundKept
  <1>3. CASE BadToken \/ TokenTimesOut
    <2>1. op'.do = op.do /\ card'.kind = card.kind /\ (card.state = "idle" => card'.state = "idle")
      BY <1>3, ReadBreaks
    <2>2. Hot' => Hot
      BY <2>1 DEF Hot, TransferInv, Apart, TypeOK, Cards
    <2> QED  BY <1>1, <2>1, <2>2, TypeFoundKept
  <1> QED  BY <1>2, <1>3

LEMMA TypeFoundWrite ==
  ASSUME TypeOK, TransferInv, TypeFound,
         Xmit \/ XmitRefused \/ XmitTimesOut \/ StopWriting \/ StopTimesOut
  PROVE  TypeFound'
  <1>1. op.do = "write" /\ type' = type /\ op \in Ops
    BY DEF Xmit, XmitRefused, XmitTimesOut, StopWriting, StopTimesOut, TransferInv, Shape, TypeOK
  <1>2. op'.do = "write"
    <2>1. CASE op.at = "xmit"
      <3>1. TRUE \in BOOLEAN /\ FALSE \in BOOLEAN /\ Shape(op)
        BY DEF TransferInv
      <3>2. AfterBlock(op, TRUE).do = "write" /\ AfterBlock(op, FALSE).do = "write"
        BY <1>1, <2>1, <3>1, AfterBlockShape
      <3> QED  BY <2>1, <3>2, XmitDoes, WriteBreaks DEF StopWriting, StopTimesOut
    <2>2. CASE op.at # "xmit"
      BY <1>1, <2>2, StopWritingDoes, StopTimesOutDoes DEF Xmit, XmitRefused, XmitTimesOut
    <2> QED  BY <2>1, <2>2
  <1>3. Hot' => Hot /\ card'.kind = card.kind
    <2>1. CASE Xmit
      BY <2>1, XmitDoes DEF Hot
    <2>2. CASE XmitRefused \/ XmitTimesOut
      BY <2>2, WriteBreaks DEF Hot, TransferInv, Apart, TypeOK, Cards
    <2>3. CASE StopWriting
      BY <2>3, StopWritingDoes DEF Hot, TransferInv, Apart, TypeOK, Cards
    <2>4. CASE StopTimesOut
      BY <2>4 DEF StopTimesOut, Hot
    <2> QED  BY <2>1, <2>2, <2>3, <2>4
  <1> QED  BY <1>1, <1>2, <1>3, TypeFoundKept

LEMMA TypeFoundReturn ==
  ASSUME TypeOK, TransferInv, TypeFound, Return
  PROVE  TypeFound'
  <1>1. /\ card' = card /\ op.at = "end" /\ op'.do \in {"read", "none"}
        /\ op'.do = "read" => op.do = "read"
        /\ op.do \in Calls
    BY ReturnDoes DEF Return, TypeOK, Ops
  <1>2. CASE op.do = "init" /\ op.ok
    <2>1. type' = op.type
      BY <1>2 DEF Return
    <2>2. Hot => Right(op.type)
      BY <1>1, <1>2 DEF TypeFound
    <2> QED  BY <1>1, <1>2, <2>1, <2>2 DEF TypeFound, Right, Hot
  <1>3. CASE op.do = "init" /\ ~op.ok
    <2>1. stat' = stat /\ op'.do = "none"
      BY <1>1, <1>3 DEF Return
    <2>2. "NOINIT" \in stat \/ ~Hot
      BY <1>1, <1>3 DEF TypeFound
    <2> QED  BY <1>1, <2>1, <2>2 DEF TypeFound, Hot
  <1>4. CASE op.do # "init"
    <2>1. type' = type /\ stat' = stat /\ (Hot' => Hot)
      BY <1>1, <1>4 DEF Return, Hot
    <2> QED  BY <1>1, <1>4, <2>1, TypeFoundKept
  <1> QED  BY <1>2, <1>3, <1>4

LEMMA TypeFoundStart ==
  ASSUME TypeOK, TransferInv, TypeFound, Idle
  PROVE  /\ \A forget \in BOOLEAN : Initialize(forget) => TypeFound'
         /\ \A s \in Sectors, n \in 0 .. 2 : Read(s, n) => TypeFound'
         /\ \A s \in Sectors, data \in Seq(Values) : Write(s, data) => TypeFound'
         /\ Sync => TypeFound'
  <1>1. ASSUME NEW forget \in BOOLEAN, Initialize(forget), op.do # "init"
        PROVE  TypeFound'
    <2>1. card' = card /\ type' = type
      BY <1>1 DEF Initialize
    <2>2. CASE op'.do = "init" /\ op'.at = "select" /\ op'.cmd = "CMD0" /\ op'.type = "none"
      BY <2>2 DEF TypeFound
    <2>3. CASE op' = Nothing /\ stat' = stat
      <3>1. op'.do = "none"
        BY <2>3, NothingTyped
      <3> QED  BY <1>1, <2>1, <2>3, <3>1, TypeFoundKept DEF Hot
    <2> QED  BY <1>1, <2>2, <2>3, InitializeDoes
  <1>2. ASSUME op'.do \in {"info", "read", "write", "sync"}, "NOINIT" \notin stat,
               card' = card, type' = type, op.do # "init"
        PROVE  TypeFound'
    BY <1>2, TypeFoundKept DEF Hot
  <1>3. ASSUME NEW s \in Sectors, NEW n \in 0 .. 2, Read(s, n), op.do # "init"
        PROVE  TypeFound'
    BY <1>2, <1>3, ReadDoes DEF Read
  <1>4. ASSUME NEW s \in Sectors, NEW data \in Seq(Values), Write(s, data), op.do # "init"
        PROVE  TypeFound'
    BY <1>2, <1>4, WriteDoes DEF Write
  <1>5. ASSUME Sync, op.do # "init"
        PROVE  TypeFound'
    BY <1>2, <1>5, SyncDoes DEF Sync
  <1>6. op.do # "init"
    BY DEF TransferInv, Shape, Idle
  <1> QED  BY <1>1, <1>3, <1>4, <1>5, <1>6

LEMMA TypeFoundNext ==
  ASSUME TypeOK, TransferInv, TypeFound, ~OcrFaults, [Next]_vars
  PROVE  TypeFound'
  <1>1. CASE Driver
    <2>1. CASE Synced
      <3>1. op'.do = "sync" /\ op.do = "sync" /\ card' = card /\ type' = type
        BY <2>1, SyncedDoes DEF Synced
      <3> QED  BY <3>1, TypeFoundKept DEF Hot
    <2> QED  BY <1>1, <2>1, TypeFoundSend, TypeFoundSendFails, TypeFoundLoop,
             TypeFoundLoopTimesOut, TypeFoundRead, TypeFoundWrite, TypeFoundReturn DEF Driver
  <1>2. CASE User
    <2>1. Idle
      BY <1>2 DEF User, Initialize, Read, Write, Sync
    <2>2. \A v, w \in Values : <<v>> \in Seq(Values) /\ <<v, w>> \in Seq(Values)
      OBVIOUS
    <2>3. ASSUME NEW s \in Sectors, NEW v \in Values, NEW w \in Values,
                 Write(s, <<v>>) \/ Write(s, <<v, w>>)
          PROVE  TypeFound'
      BY <2>1, <2>2, <2>3, TypeFoundStart, Zenon
    <2> QED  BY <1>2, <2>1, <2>3, TypeFoundStart DEF User
  <1>3. CASE Tick \/ Programmed \/ UNCHANGED vars
    <2>1. op' = op /\ type' = type /\ stat' = stat
      BY <1>3 DEF Tick, Programmed, vars
    <2>2. Hot' => Hot /\ card'.kind = card.kind
      BY <1>3 DEF Tick, Programmed, vars, Hot, TypeOK, Cards
    <2> QED  BY <2>1, <2>2, TypeFoundStill
  <1>4. CASE Pull
    <2>1. op' = op /\ type' = type /\ stat' = stat /\ ~Hot'
      BY <1>4, NoCardIdle DEF Pull, Hot
    <2> QED  BY <2>1, TypeFoundStill
  <1>5. ASSUME NEW k \in Kinds, Insert(k)
        PROVE  TypeFound'
    <2>1. card' = [NoCard EXCEPT !.in = TRUE, !.kind = k]
      BY <1>5 DEF Insert
    <2>2. card'.state = "idle"
      BY <2>1 DEF NoCard
    <2>3. op' = op /\ type' = type /\ stat' = stat /\ ~Hot'
      BY <1>5, <2>2 DEF Insert, Hot
    <2> QED  BY <2>3, TypeFoundStill
  <1> QED  BY <1>1, <1>2, <1>3, <1>4, <1>5 DEF Next

(***************************************************************************)
(* What the card holds, and what the user was told of it.                  *)
(***************************************************************************)
LEMMA StoredStill ==
  ASSUME Stored, Empty, kept' = kept, card'.mem = card.mem, card'.in = card.in
  PROVE  Stored' /\ Empty'
  BY DEF Stored, Empty

LEMMA Divides ==
  ASSUME NEW s \in Nat, NEW b \in Nat \ {0}
  PROVE  (s * b) \div b = s
  OBVIOUS

LEMMA AddressRight ==
  ASSUME TypeOK, Right(type)
  PROVE  Addressed(Address) = op.sector
  <1>1. op.sector \in Nat /\ BlockBytes \in Nat \ {0}
    BY Sizes DEF TypeOK, Ops
  <1>2. (op.sector * BlockBytes) \div BlockBytes = op.sector
    BY <1>1, Divides
  <1> QED  BY <1>2 DEF Right, Addressed, Address

LEMMA OpTyped ==
  ASSUME NEW o \in Ops
  PROVE  /\ o.sector \in Sectors /\ o.sector \in Nat
         /\ o.data \in Seq(Data) /\ Len(o.data) \in Nat
         /\ o.left \in Int
  <1>1. o.sector \in Sectors /\ o.data \in Seq(Data) /\ o.left \in Int
    BY DEF Ops
  <1>2. Len(o.data) \in Nat
    BY <1>1
  <1>3. o.sector \in Nat
    BY <1>1, Sizes, Zenon
  <1> QED  BY <1>1, <1>2, <1>3

LEMMA NothingSpanned ==
  ASSUME NEW o \in Ops, o.data = <<>>
  PROVE  Len(o.data) = 0 /\ Sectors \cap Span(o) = {}
  <1>1. Len(o.data) = 0 /\ o.sector \in Nat
    BY Sizes DEF Ops
  <1> QED  BY <1>1 DEF Span

LEMMA SendTold ==
  ASSUME TypeOK, TransferInv, ToldInv, Send
  PROVE  Stored' /\ Empty' /\ WrittenSoFar' /\ ReadSoFar'
  <1>1. PICK r \in Responses :
           /\ Answered(op.cmd, Address, r)
           /\ card' \in Cards /\ Responded(op', op, r)
    BY SendDoes, Zenon
  <1>2. /\ op \in Ops /\ op' \in Ops /\ card \in Cards /\ op.at = "select" /\ op.do # "sync"
        /\ Sending(op) /\ kept' = kept
        /\ op'.do = op.do /\ op'.sector = op.sector /\ op'.data = op.data /\ op'.left = op.left
        /\ op'.at # "stop" /\ op'.at \in {"select", "loop", "leave", "end", "token", "xmit"}
    BY <1>1 DEF Send, TypeOK, TransferInv, Shape, Responded, Carries
  <1>3. Stored' /\ Empty'
    BY <1>1, <1>2, StoredStill DEF Answered, ToldInv
  <1>4. ASSUME op.do # "init", card.state = "ready"
        PROVE  Addressed(Address) = op.sector
    <2>1. op.do # "none"
      BY <1>2 DEF Sending
    <2>2. Right(type)
      BY <1>4, <2>1 DEF ToldInv, TypeFound, Hot
    <2> QED  BY <2>2, AddressRight
  <1>5. ReadSoFar'
    <2> SUFFICES ASSUME op.do = "read"  PROVE ReadSoFar'
      BY <1>2 DEF ReadSoFar
    <2>1. op'.data = <<>> /\ op'.do = "read"
      BY <1>2 DEF ToldInv, ReadSoFar
    <2>2. Len(op'.data) = 0 /\ Sectors \cap Span(op') = {}
      BY <1>2, <2>1, NothingSpanned
    <2>3. ASSUME card'.state = "sending", op'.at = "token"
          PROVE  card'.at = op'.sector + Len(op'.data)
      <3>1. op.cmd \in {"CMD17", "CMD18"} /\ r = 0 /\ card.state = "ready"
        BY <1>1, <1>2, <2>3 DEF Answered, Sending, Responded
      <3>2. card'.at = Addressed(Address)
        BY <1>1, <3>1 DEF Answered
      <3>3. op.sector \in Nat
        BY Sizes, <1>2 DEF Ops
      <3> QED  BY <1>2, <1>4, <2>2, <3>1, <3>2, <3>3
    <2> QED  BY <2>1, <2>2, <2>3 DEF ReadSoFar
  <1>6. WrittenSoFar'
    <2> SUFFICES ASSUME op.do = "write"  PROVE WrittenSoFar'
      BY <1>2 DEF WrittenSoFar
    <2>1. /\ \A s \in Sectors \cap Span(op') : kept'[s] = Unsure
          /\ op'.left = Len(op'.data)
      BY <1>2 DEF ToldInv, WrittenSoFar, TransferInv, Shape, Span
    <2>2. ASSUME card'.state = "taking", op'.at = "xmit"
          PROVE  card'.at = op'.sector
      <3>1. op.cmd \in Writes /\ r = 0 /\ card.state = "ready"
        BY <1>1, <1>2, <2>2 DEF Answered, Responded
      <3>2. card'.at = Addressed(Address)
        BY <1>1, <3>1 DEF Answered
      <3> QED  BY <1>2, <1>4, <3>1, <3>2
    <2>3. op'.sector \in Nat /\ Len(op'.data) \in Nat
      <3>1. op.sector \in Nat /\ Len(op.data) \in Nat
        BY <1>2, OpTyped
      <3> QED  BY <1>2, <3>1
    <2> QED  BY <1>2, <2>1, <2>2, <2>3 DEF WrittenSoFar
  <1> QED  BY <1>3, <1>5, <1>6

LEMMA SendFailsTold ==
  ASSUME TypeOK, TransferInv, ToldInv, SendFails
  PROVE  Stored' /\ Empty' /\ WrittenSoFar' /\ ReadSoFar'
  <1>1. /\ op \in Ops /\ card \in Cards /\ op.at = "select" /\ op.do # "sync" /\ Sending(op)
        /\ Shape(op) /\ 255 \in Responses /\ card' = card /\ kept' = kept
    BY DEF SendFails, TypeOK, TransferInv, Responses, Shape
  <1>2. Responded(Respond(op, 255), op, 255)
    BY <1>1, RespondResponded
  <1>3. op' = Respond(op, 255)
    BY <1>2, GotoTyped DEF SendFails, TypeOK, Responded, Carries
  <1>4. Responded(op', op, 255)
    BY <1>2, <1>3
  <1>5. /\ op'.do = op.do /\ op'.sector = op.sector /\ op'.data = op.data
        /\ op'.at \in {"select", "loop", "leave", "end"}
    BY <1>4 DEF Responded, Carries
  <1>6. Stored' /\ Empty'
    BY <1>1, StoredStill DEF ToldInv
  <1> QED  BY <1>1, <1>5, <1>6 DEF ToldInv, WrittenSoFar, ReadSoFar, Span

LEMMA TokenTold ==
  ASSUME TypeOK, TransferInv, ToldInv, Token
  PROVE  Stored' /\ Empty' /\ WrittenSoFar' /\ ReadSoFar'
  <1> DEFINE block == IF op.do = "info" THEN Unsure ELSE card.mem[card.at]
  <1>1. /\ op \in Ops /\ op.do \in {"read", "info"} /\ op.at = "token" /\ card.state = "sending"
        /\ card.at \in Sectors /\ kept' = kept
        /\ op'.do = op.do /\ op'.sector = op.sector /\ op'.at \in {"end", "token"}
        /\ op'.data = Append(op.data, block)
        /\ card'.in = card.in /\ card'.mem = card.mem
        /\ op'.at = "token" => card'.at = card.at + 1
    BY TokenDoes DEF Token, TypeOK, TransferInv, Shape
  <1>2. Stored' /\ Empty'
    BY <1>1, StoredStill DEF ToldInv
  <1>3. WrittenSoFar'
    BY <1>1 DEF WrittenSoFar
  <1>4. ReadSoFar'
    <2> SUFFICES ASSUME op.do = "read"  PROVE ReadSoFar'
      BY <1>1 DEF ReadSoFar
    <2>1. /\ op.data \in Seq(Data) /\ op.sector \in Nat /\ block = card.mem[card.at]
          /\ card.at = op.sector + Len(op.data)
      BY <1>1, Sizes DEF Ops, ToldInv, ReadSoFar
    <2>2. \A s \in Sectors \cap Span(op) : kept[s] \in {Unsure, op.data[s - op.sector + 1]}
      BY DEF ToldInv, ReadSoFar
    <2>3. kept[card.at] \in {Unsure, card.mem[card.at]}
      BY <1>1 DEF ToldInv, Stored
    <2>7. block \in Data
      BY <1>1, <2>1 DEF TypeOK, Cards
    <2> HIDE DEF block
    <2>4. /\ Len(op'.data) = Len(op.data) + 1
          /\ \A i \in 1 .. Len(op.data) : op'.data[i] = op.data[i]
          /\ op'.data[Len(op.data) + 1] = block
      BY <1>1, <2>1, <2>7
    <2>5. ASSUME NEW s \in Sectors, s \in Span(op')
          PROVE  kept'[s] \in {Unsure, op'.data[s - op'.sector + 1]}
      <3>1. s \in Nat /\ s \in op.sector .. op.sector + Len(op.data)
        BY <1>1, <2>1, <2>4, <2>5, Sizes DEF Span
      <3>2. CASE s = card.at
        BY <1>1, <2>1, <2>3, <2>4, <3>1, <3>2
      <3>3. CASE s # card.at
        <4>1. s \in Span(op) /\ s - op.sector + 1 \in 1 .. Len(op.data)
          BY <2>1, <3>1, <3>3 DEF Span
        <4> QED  BY <1>1, <2>2, <2>4, <4>1
      <3> QED  BY <3>2, <3>3
    <2>6. op'.at = "token" => card'.at = op'.sector + Len(op'.data)
      BY <1>1, <2>1, <2>4
    <2> QED  BY <1>1, <2>5, <2>6 DEF ReadSoFar
  <1> QED  BY <1>2, <1>3, <1>4

LEMMA ReadBreaksTold ==
  ASSUME TypeOK, TransferInv, ToldInv, BadToken \/ TokenTimesOut
  PROVE  Stored' /\ Empty' /\ WrittenSoFar' /\ ReadSoFar'
  <1>1. /\ op.do \in {"read", "info"}
        /\ op'.at = "end" /\ op'.do = op.do /\ op'.sector = op.sector /\ op'.data = op.data
        /\ card'.in = card.in /\ card'.mem = card.mem /\ kept' = kept
    BY ReadBreaks DEF BadToken, TokenTimesOut, TransferInv, Shape
  <1>2. Stored' /\ Empty'
    BY <1>1, StoredStill DEF ToldInv
  <1> QED  BY <1>1, <1>2 DEF ToldInv, WrittenSoFar, ReadSoFar, Span

(* What a write tells, once its sectors are on the card.                   *)
LEMMA ToldStored ==
  ASSUME TypeOK, NEW o \in Ops, Told(o), Empty, card.state = "taking" => card.in,
         card'.in = card.in,
         \A s \in Sectors : s \notin Span(o) /\ kept[s] # Unsure => card'.mem[s] = kept[s],
         \A s \in Sectors \cap Span(o) : kept[s] = Unsure,
         o.at = "end" /\ o.ok /\ card.state = "taking" =>
           \A s \in Sectors \cap Span(o) : card'.mem[s] = o.data[s - o.sector + 1]
  PROVE  Stored' /\ Empty'
  <1>1. ASSUME NEW s \in Sectors
        PROVE  kept'[s] = IF o.at = "end" /\ o.ok /\ card.state = "taking" /\ s \in Span(o)
                          THEN o.data[s - o.sector + 1] ELSE kept[s]
    BY <1>1 DEF Told, Span
  <1> QED  BY <1>1 DEF Stored, Empty

LEMMA XmitTold ==
  ASSUME TypeOK, TransferInv, ToldInv, Xmit
  PROVE  Stored' /\ Empty' /\ WrittenSoFar' /\ ReadSoFar'
  <1> DEFINE o == AfterBlock(op, TRUE)
  <1>1. /\ op \in Ops /\ card \in Cards /\ op.at = "xmit" /\ op.do = "write" /\ Shape(op)
        /\ card.state = "taking" /\ card.at \in Sectors /\ card.in
        /\ op.left \in 1 .. Len(op.data) /\ op.cmd \in Writes
        /\ op.cmd = "CMD24" => Len(op.data) = 1
    BY DEF Xmit, TypeOK, TransferInv, Shape, Apart, Writes
  <1>2. /\ op' = o /\ Told(op') /\ card'.in = card.in /\ card'.at = card.at + 1
        /\ card'.mem = [card.mem EXCEPT ![card.at] = op.data[Len(op.data) - op.left + 1]]
    BY XmitDoes
  <1>3. /\ o \in Ops /\ o.do = "write" /\ o.sector = op.sector /\ o.data = op.data
        /\ o.left = op.left - 1 /\ (o.ok <=> o.left = 0)
        /\ op.cmd = "CMD24" => o.at = "end"
        /\ op.cmd = "CMD25" => o.at = (IF o.left > 0 THEN "xmit" ELSE "stop")
    <2>1. TRUE \in BOOLEAN
      OBVIOUS
    <2> QED  BY <1>1, <2>1, AfterBlockShape
  <1> HIDE DEF o
  <1>4. /\ op.sector \in Nat /\ op.data \in Seq(Data) /\ op.left \in Int /\ card.at \in Nat
        /\ card.mem \in [Sectors -> Data] /\ Len(op.data) \in Nat
    BY <1>1, OpTyped, Sizes DEF Cards
  <1>5. /\ card.at = op.sector + Len(op.data) - op.left
        /\ \A s \in Sectors : s \in op.sector .. card.at - 1 =>
               card.mem[s] = op.data[s - op.sector + 1]
        /\ \A s \in Sectors \cap Span(op) : kept[s] = Unsure
    BY <1>1 DEF ToldInv, WrittenSoFar
  <1>6. Span(op') = Span(op) /\ card.at \in Span(op)
    BY <1>1, <1>2, <1>3, <1>4, <1>5 DEF Span
  <1>7. ASSUME NEW s \in Sectors, s \in op.sector .. card.at
        PROVE  card'.mem[s] = op.data[s - op.sector + 1]
    <2>1. s \in Nat
      BY Sizes
    <2>2. CASE s = card.at
      <3>1. s - op.sector + 1 = Len(op.data) - op.left + 1
        BY <1>4, <1>5, <2>2
      <3>2. card'.mem[s] = op.data[Len(op.data) - op.left + 1]
        BY <1>2, <1>4, <2>2
      <3> QED  BY <3>1, <3>2
    <2>3. CASE s # card.at
      <3>1. s \in op.sector .. card.at - 1
        BY <1>4, <1>7, <2>1, <2>3
      <3>2. card'.mem[s] = card.mem[s]
        BY <1>2, <1>4, <2>3
      <3> QED  BY <1>5, <3>1, <3>2
    <2> QED  BY <2>2, <2>3
  <1>8. Stored' /\ Empty'
    <2>1. \A s \in Sectors : s \notin Span(op') /\ kept[s] # Unsure => card'.mem[s] = kept[s]
      BY <1>2, <1>4, <1>6 DEF ToldInv, Stored
    <2>2. ASSUME op'.ok, NEW s \in Sectors \cap Span(op')
          PROVE  card'.mem[s] = op'.data[s - op'.sector + 1]
      <3>1. s \in op.sector .. card.at
        BY <1>2, <1>3, <1>4, <1>5, <1>6, <2>2 DEF Span
      <3> QED  BY <1>2, <1>3, <1>7, <3>1
    <2> QED  BY <1>1, <1>2, <1>3, <1>5, <1>6, <2>1, <2>2, ToldStored DEF ToldInv
  <1>9. WrittenSoFar'
    <2>1. ASSUME op'.at \in {"xmit", "stop"}
          PROVE  \A s \in Sectors \cap Span(op') : kept'[s] = Unsure
      BY <1>2, <1>5, <1>6, <2>1 DEF Told
    <2>2. /\ card'.at = op'.sector + Len(op'.data) - op'.left
          /\ \A s \in Sectors : s \in op'.sector .. card'.at - 1 =>
                 card'.mem[s] = op'.data[s - op'.sector + 1]
      <3>1. op'.sector = op.sector /\ op'.data = op.data /\ op'.left = op.left - 1
        BY <1>2, <1>3
      <3>2. card'.at - 1 = card.at /\ card'.at = op.sector + Len(op.data) - (op.left - 1)
        BY <1>2, <1>4, <1>5
      <3> QED  BY <1>7, <3>1, <3>2
    <2>3. op'.at \in {"end", "xmit", "stop"} /\ (op'.ok <=> op'.left = 0)
      BY <1>1, <1>2, <1>3 DEF Writes
    <2>4. op'.ok = (op'.left = 0)
      BY <1>2, <1>3, <2>3 DEF Ops
    <2> QED  BY <2>1, <2>2, <2>3, <2>4 DEF WrittenSoFar
  <1>10. ReadSoFar'
    BY <1>2, <1>3 DEF ReadSoFar
  <1> QED  BY <1>8, <1>9, <1>10

LEMMA WriteBreaksTold ==
  ASSUME TypeOK, TransferInv, ToldInv, XmitRefused \/ XmitTimesOut
  PROVE  Stored' /\ Empty' /\ WrittenSoFar' /\ ReadSoFar'
  <1> DEFINE o == AfterBlock(op, FALSE)
  <1>1. /\ op \in Ops /\ op.at = "xmit" /\ op.do = "write" /\ Shape(op) /\ op.cmd \in Writes
    BY WriteBreaks DEF TypeOK, TransferInv, Shape, Writes
  <1>2. /\ op' = o /\ card'.in = card.in /\ card'.mem = card.mem /\ card'.at = card.at
        /\ card'.state = "taking" => card.state = "taking"
        /\ kept' = kept
    BY WriteBreaks
  <1>3. /\ o \in Ops /\ o.do = "write" /\ o.sector = op.sector /\ o.data = op.data
        /\ o.left = op.left /\ (o.ok <=> o.left = 0)
        /\ o.at \in {"end", "stop"}
    <2>1. FALSE \in BOOLEAN
      OBVIOUS
    <2> QED  BY <1>1, <2>1, AfterBlockShape DEF Writes
  <1> HIDE DEF o
  <1>4. Stored' /\ Empty'
    BY <1>2, StoredStill DEF ToldInv
  <1>5. op'.ok = (op'.left = 0)
    BY <1>2, <1>3 DEF Ops
  <1>6. WrittenSoFar'
    BY <1>1, <1>2, <1>3, <1>5 DEF ToldInv, WrittenSoFar, Span
  <1> QED  BY <1>2, <1>3, <1>4, <1>6 DEF ReadSoFar

LEMMA StopWritingTold ==
  ASSUME TypeOK, TransferInv, ToldInv, StopWriting
  PROVE  Stored' /\ Empty' /\ WrittenSoFar' /\ ReadSoFar'
  <1>1. /\ op \in Ops /\ op.at = "stop" /\ op.do = "write" /\ card \in Cards
        /\ card.state = "taking" => card.in
    BY DEF StopWriting, TypeOK, TransferInv, Shape, Apart
  <1>2. /\ op' \in Ops /\ op'.at = "end" /\ op'.do = op.do /\ op'.sector = op.sector
        /\ op'.data = op.data /\ op'.left = op.left /\ (op'.ok <=> op.ok) /\ Told(op')
        /\ card'.in = card.in /\ card'.mem = card.mem
    <2>1. "end" \in Places
      BY DEF Places
    <2> QED  BY <1>1, <2>1, StopWritingDoes, AtTyped
  <1>3. /\ op.sector \in Nat /\ Len(op.data) \in Nat /\ op.left \in Int
    BY <1>1, OpTyped
  <1>4. /\ \A s \in Sectors \cap Span(op) : kept[s] = Unsure
        /\ card.state = "taking" =>
             /\ card.at = op.sector + Len(op.data) - op.left
             /\ \A s \in Sectors : s \in op.sector .. card.at - 1 =>
                   card.mem[s] = op.data[s - op.sector + 1]
        /\ op.ok => op.left = 0
    BY <1>1 DEF ToldInv, WrittenSoFar
  <1>5. op.ok /\ card.state = "taking" => \A s \in Sectors \cap Span(op) :
          card.mem[s] = op.data[s - op.sector + 1]
    BY <1>3, <1>4 DEF Span
  <1>6. Span(op') = Span(op)
    BY <1>2 DEF Span
  <1>7. Stored' /\ Empty'
    BY <1>1, <1>2, <1>4, <1>5, <1>6, ToldStored DEF ToldInv, Stored
  <1>8. WrittenSoFar' /\ ReadSoFar'
    BY <1>1, <1>2 DEF WrittenSoFar, ReadSoFar
  <1> QED  BY <1>7, <1>8

LEMMA QuietTold ==
  ASSUME TypeOK, TransferInv, ToldInv,
         Loop \/ LoopTimesOut \/ StopTimesOut \/ Synced \/ Return
  PROVE  Stored' /\ Empty' /\ WrittenSoFar' /\ ReadSoFar'
  <1>1. card' = card /\ kept' = kept
    BY DEF Loop, LoopTimesOut, StopTimesOut, Synced, Return
  <1>2. Stored' /\ Empty'
    BY <1>1, StoredStill DEF ToldInv
  <1>3. CASE Loop \/ LoopTimesOut
    <2>1. op \in Ops /\ op.do = "init" /\ "end" \in Places
      BY <1>3 DEF Loop, LoopTimesOut, TypeOK, TransferInv, Shape, Places
    <2>2. \E cmd \in Commands : Goto(Begin(op, cmd)) \/ Goto(At(op, "end"))
      BY <1>3 DEF Loop, LoopTimesOut, TypeOK, Ops, Commands
    <2>3. op'.do = "init"
      BY <2>1, <2>2, BeginTyped, AtTyped, GotoTyped DEF TypeOK
    <2> QED  BY <1>2, <2>3 DEF WrittenSoFar, ReadSoFar
  <1>4. CASE StopTimesOut \/ Synced
    <2>1. op'.at = "end" /\ op'.do \in {"write", "sync"}
      BY <1>4, StopTimesOutDoes, SyncedDoes DEF StopTimesOut, TransferInv, Shape
    <2> QED  BY <1>2, <2>1 DEF WrittenSoFar, ReadSoFar
  <1>5. CASE Return
    <2>1. /\ op'.do \in {"read", "none"} /\ op'.at = "done"
          /\ op'.do = "read" => op.do = "read" /\ op'.sector = op.sector /\ op'.data = op.data
      BY <1>5, ReturnDoes
    <2> QED  BY <1>1, <1>2, <2>1 DEF ToldInv, WrittenSoFar, ReadSoFar, Span
  <1> QED  BY <1>3, <1>4, <1>5

LEMMA StartTold ==
  ASSUME TypeOK, TransferInv, ToldInv
  PROVE  /\ \A forget \in BOOLEAN : Initialize(forget) =>
              Stored' /\ Empty' /\ WrittenSoFar' /\ ReadSoFar'
         /\ \A s \in Sectors, n \in 0 .. 2 : Read(s, n) =>
              Stored' /\ Empty' /\ WrittenSoFar' /\ ReadSoFar'
         /\ \A s \in Sectors, data \in Seq(Values) : Write(s, data) =>
              Stored' /\ Empty' /\ WrittenSoFar' /\ ReadSoFar'
         /\ Sync => Stored' /\ Empty' /\ WrittenSoFar' /\ ReadSoFar'
  <1>1. ASSUME card' = card, kept' = kept, op'.do \in {"init", "none", "sync", "info"}
        PROVE  Stored' /\ Empty' /\ WrittenSoFar' /\ ReadSoFar'
    <2>1. Stored' /\ Empty'
      BY <1>1, StoredStill DEF ToldInv
    <2> QED  BY <1>1, <2>1 DEF WrittenSoFar, ReadSoFar
  <1>2. ASSUME NEW forget \in BOOLEAN, Initialize(forget)
        PROVE  Stored' /\ Empty' /\ WrittenSoFar' /\ ReadSoFar'
    <2>1. op'.do \in {"init", "none"}
      BY <1>2, InitializeDoes, NothingTyped
    <2> QED  BY <1>1, <1>2, <2>1 DEF Initialize
  <1>3. ASSUME NEW s \in Sectors, NEW n \in 0 .. 2, Read(s, n)
        PROVE  Stored' /\ Empty' /\ WrittenSoFar' /\ ReadSoFar'
    <2>1. op'.do \in {"info", "read"} /\ op'.at = "select" /\ op'.data = <<>>
      BY <1>3, ReadDoes
    <2>2. card' = card /\ kept' = kept
      BY <1>3 DEF Read
    <2>3. op' \in Ops
      BY <1>3, ReadKeeps DEF TypeOK
    <2>4. Sectors \cap Span(op') = {}
      BY <2>1, <2>3, NothingSpanned
    <2>5. Stored' /\ Empty'
      BY <2>2, StoredStill DEF ToldInv
    <2> QED  BY <2>1, <2>2, <2>4, <2>5 DEF WrittenSoFar, ReadSoFar
  <1>4. ASSUME NEW s \in Sectors, NEW data \in Seq(Values), Write(s, data)
        PROVE  Stored' /\ Empty' /\ WrittenSoFar' /\ ReadSoFar'
    <2>1. op'.do = "write" /\ op'.at = "select" /\ op'.data = data /\ op'.sector = s
      BY <1>4, WriteDoes
    <2>2. /\ card' = card
          /\ kept' = [x \in Sectors |-> IF x \in s .. s + Len(data) - 1 THEN Unsure ELSE kept[x]]
      BY <1>4 DEF Write
    <2>3. \A x \in Sectors \cap Span(op') : kept'[x] = Unsure
      BY <2>1, <2>2 DEF Span
    <2>4. Stored' /\ Empty'
      BY <2>2 DEF ToldInv, Stored, Empty
    <2> QED  BY <2>1, <2>3, <2>4 DEF WrittenSoFar, ReadSoFar
  <1>5. ASSUME Sync
        PROVE  Stored' /\ Empty' /\ WrittenSoFar' /\ ReadSoFar'
    BY <1>1, <1>5, SyncDoes DEF Sync
  <1> QED  BY <1>2, <1>3, <1>4, <1>5

LEMMA SocketTold ==
  ASSUME TypeOK, TransferInv, ToldInv,
         Tick \/ Programmed \/ Pull \/ (\E k \in Kinds : Insert(k)) \/ UNCHANGED vars
  PROVE  Stored' /\ Empty' /\ WrittenSoFar' /\ ReadSoFar'
  <1>1. op' = op
    BY DEF Tick, Programmed, Pull, Insert, vars
  <1>2. CASE Tick \/ Programmed \/ UNCHANGED vars
    <2>1. /\ kept' = kept /\ card'.in = card.in /\ card'.mem = card.mem
          /\ card'.state = card.state /\ card'.at = card.at
      BY <1>2 DEF Tick, Programmed, vars, TypeOK, Cards
    <2>2. Stored' /\ Empty'
      BY <2>1, StoredStill DEF ToldInv
    <2> QED  BY <1>1, <2>1, <2>2 DEF ToldInv, WrittenSoFar, ReadSoFar, Span
  <1>3. ASSUME card'.state = "idle", \A s \in Sectors : kept'[s] = Unsure
        PROVE  Stored' /\ Empty' /\ WrittenSoFar' /\ ReadSoFar'
    BY <1>1, <1>3 DEF ToldInv, Stored, Empty, WrittenSoFar, ReadSoFar, Span
  <1>4. CASE Pull
    <2>1. card'.state = "idle" /\ \A s \in Sectors : kept'[s] = Unsure
      BY <1>4, NoCardIdle DEF Pull
    <2> QED  BY <1>3, <2>1
  <1>5. ASSUME NEW k \in Kinds, Insert(k)
        PROVE  Stored' /\ Empty' /\ WrittenSoFar' /\ ReadSoFar'
    <2>1. card' = [NoCard EXCEPT !.in = TRUE, !.kind = k]
      BY <1>5 DEF Insert
    <2>2. card'.state = "idle"
      BY <2>1 DEF NoCard
    <2>3. \A s \in Sectors : kept'[s] = Unsure
      BY <1>5 DEF Insert, ToldInv, Empty
    <2> QED  BY <1>3, <2>2, <2>3
  <1> QED  BY <1>2, <1>4, <1>5

LEMMA ToldNext ==
  ASSUME TypeOK, TransferInv, ToldInv, ~OcrFaults, [Next]_vars
  PROVE  ToldInv'
  <1>1. TypeFound'
    BY TypeFoundNext DEF ToldInv
  <1>2. Stored' /\ Empty' /\ WrittenSoFar' /\ ReadSoFar'
    <2>1. CASE Driver
      BY <2>1, SendTold, SendFailsTold, TokenTold, ReadBreaksTold, XmitTold, WriteBreaksTold,
         StopWritingTold, QuietTold DEF Driver
    <2>2. CASE User
      <3>1. \A v, w \in Values : <<v>> \in Seq(Values) /\ <<v, w>> \in Seq(Values)
        OBVIOUS
      <3>2. ASSUME NEW s \in Sectors, NEW v \in Values, NEW w \in Values,
                   Write(s, <<v>>) \/ Write(s, <<v, w>>)
            PROVE  Stored' /\ Empty' /\ WrittenSoFar' /\ ReadSoFar'
        BY <3>1, <3>2, StartTold, Zenon
      <3> QED  BY <2>2, <3>2, StartTold DEF User
    <2> QED  BY <2>1, <2>2, SocketTold DEF Next
  <1> QED  BY <1>1, <1>2 DEF ToldInv

LEMMA ToldInit ==
  ASSUME Init
  PROVE  ToldInv
  <1>1. card.state = "idle" /\ op.do = "none" /\ \A s \in Sectors : kept[s] = Unsure
    <2>1. card.state = "idle"
      <3>1. \A k \in Kinds : [NoCard EXCEPT !.in = TRUE, !.kind = k].state = "idle"
        BY DEF NoCard
      <3> QED  BY <3>1, NoCardIdle DEF Init
    <2> QED  BY <2>1, NothingTyped DEF Init
  <1> QED  BY <1>1 DEF ToldInv, TypeFound, Hot, Stored, Empty, WrittenSoFar, ReadSoFar

(* What the user was told is on the card is there, in the sectors he meant, *)
(* and a read that went well has read it: for every card that answers       *)
(* CMD58, mmc_disk_initialize finds whether it is addressed by byte or by   *)
(* sector, and a call that fails says so.                                   *)
THEOREM CardToldTrue ==
  ASSUME ~OcrFaults
  PROVE  Spec => []ToldTrue
  <1>1. Init => TypeOK /\ TransferInv /\ ToldInv
    BY InitHolds, ToldInit
  <1>2. TypeOK /\ TransferInv /\ ToldInv /\ [Next]_vars => TypeOK' /\ TransferInv' /\ ToldInv'
    BY NextKeeps, ToldNext
  <1>3. TypeOK /\ TransferInv /\ ToldInv => ToldTrue
    <2> SUFFICES ASSUME TypeOK, ToldInv, op.do = "read", NEW i \in DOMAIN op.data,
                        op.sector + i - 1 \in Sectors
                 PROVE  kept[op.sector + i - 1] \in {Unsure, op.data[i]}
      BY DEF ToldTrue, ReadBack, ToldInv
    <2>1. op.sector \in Nat /\ Len(op.data) \in Nat /\ i \in 1 .. Len(op.data)
      BY OpTyped DEF TypeOK
    <2> DEFINE s == op.sector + i - 1
    <2>2. s \in Sectors \cap Span(op) /\ s - op.sector + 1 = i
      BY <2>1 DEF Span
    <2> HIDE DEF s
    <2>3. kept[s] \in {Unsure, op.data[s - op.sector + 1]}
      BY <2>2 DEF ToldInv, ReadSoFar
    <2> QED  BY <2>2, <2>3 DEF s
  <1> QED  BY <1>1, <1>2, <1>3, PTL DEF Spec

=============================================================================
