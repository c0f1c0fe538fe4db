------------------------------- MODULE MCLif --------------------------------
(* Instances of Lif: a text of one sector, a file of two from another volume; *)
(* of LifText: every text of three lines of the lengths around its limits;    *)
(* and of Calendar, whose times the LIF and FAT directories keep.             *)
EXTENDS Lif, LifText, Calendar

CONSTANTS t1, b2

SizeOf == [u \in {t1, b2} |-> IF u = t1 THEN 1 ELSE 2]

Lengths == (0 .. SectorSize - 3) \cup {2 * Most, 2 * Most + 1}
LineOf(n) == [i \in 1 .. n |-> 64 + i]
ASSUME TextsComeBack ==
  \A k \in 0 .. 3 : \A lens \in [1 .. k -> Lengths] :
     ComesBack([l \in 1 .. k |-> LineOf(lens[l])])

(* Every day of years in which a rule or a format begins, changes or ends.  *)
Turns == {1970, 1972, 1980, 1999, 2000, 2069, 2070, 2099, 2100, 2106}
ASSUME CalendarComesBack == DatesComeBack(Turns, 45296)

(* The ranges lib/timetests.c draws from, at their ends and carries.        *)
ASSUME CalendarCarries ==
  FieldsCarry(1972 .. 2097, {-18, -1, 0, 1, 2, 11, 12, 18}, {-45, 0, 29, 31, 45},
              {-36, -1, 23, 36}, {-90, 0, 90})

(* One zone east of Greenwich, and some west.                               *)
ASSUME CalendarChangesOnSundays == DstOnSundays(1970 .. 2099, {-60, 0, 300, 720})

(* The days around New Year, whose years differ in what is cached.          *)
ASSUME CalendarKeepsFresh ==
  CacheIsFresh({YearStart(y) + k : y \in 1972 .. 1980, k \in -2 .. 2}, {0, 43200}, {0, 300})
ASSUME CalendarYearEnds == LastHourIsSummer(1972 .. 2090, {0, 300})
=============================================================================
