-------------------------------- MODULE Stdio --------------------------------
(***************************************************************************)
(* The character calls of posix/posix.c on a file that is open: an         *)
(* operator per function, like those of Fat.  No variables; module Posix   *)
(* has them.  The console's streams, 0 to 2, have no file.                 *)
(*                                                                         *)
(* The machine state has, besides the fields of Fat,                       *)
(*   unget, eof   __SUNGET and __SEOF of the stream's flags                *)
(*   c            the character, or what the call returned for it          *)
(*   chars        all characters the call has had from fgetc, or written   *)
(*   line         the string fgets made                                    *)
(***************************************************************************)
EXTENDS Fat

BS  == 8
LF  == 10
CR  == 13
EOF == -1

(* stream->unget of a file: ungetc, which refuses files, has not set it.   *)
NothingPutBack == 0

-----------------------------------------------------------------------------
(* fatfs_getc: every end of line is one LF.  A failure of the card is told *)
(* as the end of the file, and what looking one byte ahead, or going back, *)
(* returns, is not looked at.                                              *)
Byte(s) == Fread([s EXCEPT !.out = <<>>], 1)
GotByte(s) == OK(s) /\ s.out # <<>>

AheadStays(s) == Byte(s)  \* mutant: does not go back when there is no LF

Ahead(s) ==
  LET backUnlessLF(a) == IF GotByte(a) /\ a.out # <<LF>> THEN Flseek(a, s.fp.fptr) ELSE a
  IN backUnlessLF(Byte(s))

fatfs_getc(s) ==
  LET character(a) ==
        IF ~GotByte(a) THEN [a EXCEPT !.c = EOF, !.eof = TRUE]
        ELSE IF a.out = <<CR>> THEN [Ahead(a) EXCEPT !.c = LF]
        ELSE [a EXCEPT !.c = a.out[1]]
  IN character(Byte(s))

fgetc(s) ==
  LET counted(a) == IF a.c = EOF THEN a ELSE [a EXCEPT !.chars = Append(@, a.c)]
  IN IF ~Flag(s, "READ") THEN [s EXCEPT !.c = EOF]
     ELSE IF s.unget THEN counted([s EXCEPT !.c = NothingPutBack, !.unget = FALSE])
     ELSE counted(fatfs_getc(s))

(* fgets, up to size characters; a backspace takes the last one away.      *)
Ended(a) == a.c \in {EOF, LF}
LineTurn(s) ==
  LET line(a) == IF a.c = BS THEN SubSeq(a.line, 1, Len(a.line) - 1) ELSE Append(a.line, a.c)
      more(a) == IF Ended(a) THEN a ELSE [a EXCEPT !.line = line(a)]
  IN IF Ended(s) THEN s ELSE more(fgetc(s))
fgets(s, size) == Repeat(s, LineTurn, size)

(* fputc on a file, and fputs, up to the first that fails; a full card     *)
(* takes the byte without an error, and without the byte.                  *)
fatfs_putc(s, c) ==
  LET result(a) == IF GotByte(a) THEN [a EXCEPT !.c = c, !.chars = Append(@, c)]
                   ELSE [a EXCEPT !.c = EOF, !.eof = TRUE]
  IN result(Fwrite([s EXCEPT !.out = <<>>], <<c>>))

PutTurn(s, str) == IF s.c = EOF THEN s ELSE fatfs_putc(s, str[Len(s.chars) + 1])
fputs(s, str) == Repeat(s, LAMBDA a : PutTurn(a, str), Len(str))

(* What the text is, character by character, for one who reads it: a CR,   *)
(* an LF, or a CR and an LF, end a line.                                   *)
Characters(t) ==
  LET ends(i) == t[i] = LF /\ i > 1 /\ t[i - 1] = CR
      starts == {i \in DOMAIN t : ~(i > 1 /\ ends(i))}
      nth(k) == CHOOSE i \in starts : Cardinality({j \in starts : j <= i}) = k
  IN [k \in 1 .. Cardinality(starts) |-> IF t[nth(k)] = CR THEN LF ELSE t[nth(k)]]
=============================================================================
