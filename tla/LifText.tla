------------------------------ MODULE LifText -------------------------------
(***************************************************************************)
(* The two conversions between a text and the data of a LIF file of type   *)
(* E010: lif_add_ascii_file_as_e010_wrapper and lif_extract_e010_as_ascii  *)
(* of lif/lifutils.c.  A text is a sequence of lines without blanks at     *)
(* their ends, a line a sequence of characters, the data a sequence of     *)
(* bytes.  A string is stored as DF, its length and itself, or, when the   *)
(* sector ends in it, as CF, its length and the part that fits, and 6F,    *)
(* the length of the rest and the rest.                                    *)
(***************************************************************************)
EXTENDS Integers, Sequences, SequencesExt

CONSTANT SectorSize       \* LIF_SECTOR_SIZE, 256 in the code
ASSUME SectorSizeAssumption == SectorSize \in Nat /\ SectorSize > 6

CR == 13
NL == 10
Whole == 223    \* DF
Split == 207    \* CF
Rest  == 111    \* 6F
Pad   == 239    \* EF
Fill  == 255    \* FF

Length(n) == <<n % 256, n \div 256>>
Room(out) == SectorSize - (Len(out) % SectorSize)

(* lif_e010_pad_sector: to the end of a sector that has been begun.        *)
Padding(out) ==
  IF Len(out) % SectorSize = 0 THEN <<>>
  ELSE <<Pad>> \o [i \in 1 .. Room(out) - 1 |-> Fill]

(* Stands where a string was refused: the caller takes the -1 for a size,  *)
(* and nothing is said of what it writes.                                  *)
Lost == -1

(* lif_ascii_string_to_e010: out with the string behind it.  A string that *)
(* is split behind padding does not reach the end of the sector, since the *)
(* loop counts the padding as part of it, and is refused.                  *)
AddString(out, str) ==
  LET padded == IF Room(out) < 6 THEN out \o Padding(out) ELSE out
      first  == Room(padded) - 3
  IN IF first >= Len(str)
       THEN padded \o <<Whole>> \o Length(Len(str)) \o str
     ELSE IF padded # out THEN padded \o <<Lost>>
     ELSE padded \o <<Split>> \o Length(Len(str)) \o SubSeq(str, 1, first)
                 \o <<Rest>> \o Length(Len(str) - first) \o SubSeq(str, first + 1, Len(str))

(* fgets is given the size of the buffer less 4, SectorSize - 3, and the   *)
(* board's takes that many characters, the end of the line among them.     *)
Most == SectorSize - 3
Pieces(line) ==
  [i \in 1 .. Len(line) \div Most + 1 |->
     SubSeq(line, (i - 1) * Most + 1, IF i * Most < Len(line) THEN i * Most ELSE Len(line))]

(* The whole text, the empty string that ends it and the padding.          *)
ToE010(text) ==
  LET strings == FlattenSeq([l \in DOMAIN text |-> Pieces(text[l])])
      body    == FoldLeft(LAMBDA out, s : AddString(out, s \o <<CR>>), <<>>, strings)
      all     == AddString(body, <<>>)
  IN all \o Padding(all)

-----------------------------------------------------------------------------
(* The other way: one record of a sector, from position i; st has what has *)
(* been written so far and whether the end or an error has been met.       *)
RECURSIVE FromSector(_, _, _)
FromSector(buf, i, st) ==
  IF i > SectorSize \/ st.done THEN st
  ELSE IF buf[i] = Pad THEN st
  ELSE IF buf[i] \notin {Whole, Split, Rest} THEN [st EXCEPT !.done = TRUE, !.status = 0]
  ELSE LET len  == buf[i + 1] + 256 * buf[i + 2]
           here == IF len < SectorSize - i - 2 THEN len ELSE SectorSize - i - 2
           str  == SubSeq(buf, i + 3, i + 2 + here)
           line == IF here = len /\ Last(str) = CR THEN Front(str) \o <<NL>> ELSE str
       IN IF len = 0 THEN [st EXCEPT !.done = TRUE]
          ELSE IF len >= SectorSize THEN [st EXCEPT !.done = TRUE, !.status = 0]
          ELSE FromSector(buf, i + 3 + here, [st EXCEPT !.out = @ \o line])

(* Every sector of the file is read, and the one behind it, which has to   *)
(* be there.                                                               *)
FromE010(bytes, behind) ==
  LET sectors == [k \in 1 .. Len(bytes) \div SectorSize |->
                    SubSeq(bytes, (k - 1) * SectorSize + 1, k * SectorSize)]
      all == FoldLeft(LAMBDA st, buf : FromSector(buf, 1, st),
                      [out |-> <<>>, done |-> FALSE, status |-> 1], sectors)
  IN [out |-> all.out, status |-> IF behind THEN all.status ELSE 0]

-----------------------------------------------------------------------------
Joined(text) == FlattenSeq(text)
Written(text) == FlattenSeq([l \in DOMAIN text |-> text[l] \o <<NL>>])

(* A text with lines of less than Most characters comes back as it was.   *)
(* One with longer lines comes back with all their characters, unless a    *)
(* string of it is refused.  No record is met that is not one, at any      *)
(* position of the sector boundaries.                                      *)
ComesBack(text) ==
  LET bytes == ToE010(text)
      back  == FromE010(bytes, TRUE)
      kept  == Lost \notin Range(bytes)
      short == \A l \in DOMAIN text : Len(text[l]) < Most
  IN /\ short => kept /\ back.out = Written(text)
     /\ kept => /\ back.status = 1
                /\ Len(bytes) % SectorSize = 0
                /\ SelectSeq(back.out, LAMBDA c : c # NL) = Joined(text)
=============================================================================
