------------------------------ MODULE Calendar ------------------------------
(***************************************************************************)
(* The calendar of lib/time.c and the formats times are kept in: the dates *)
(* of FAT (posix/posix.c), of LIF (lif/lifutils.c) and of the clock chip   *)
(* (hardware/rtc.c).                                                       *)
(*                                                                         *)
(* A time_t, 32 bits of seconds, is the record of its day and its second   *)
(* of the day.  A tm_t is a record of the fields the code sets.            *)
(***************************************************************************)
EXTENDS Integers, Sequences, FiniteSets

DaySecs == 86400
TopTime == [day |-> 49710, sec |-> 23295]     \* 2^32 - 1, which is also the error -1

Before(a, b) == a.day < b.day \/ (a.day = b.day /\ a.sec < b.sec)
Normal(day, sec) == [day |-> day + sec \div DaySecs, sec |-> sec % DaySecs]
Minus(t, secs) == Normal(t.day, t.sec - secs)

(* A sum of seconds in 32 bits.                                            *)
Wrapped(t) ==
  IF Before(TopTime, t) THEN Normal(t.day - TopTime.day, t.sec - TopTime.sec - 1) ELSE t

-----------------------------------------------------------------------------
(* Years and months; IS_Leap is meant for the years 1900 to 2199.          *)
IsLeap(year) == year % 4 = 0 /\ year \notin {1900, 2100}

LeapDaysSince1900(year) ==
  LET y == IF year > 1900 THEN year - 1901 ELSE year - 1900
  IN (y \div 4) - (IF y >= 200 THEN 1 ELSE 0)

DaysPerYear(year) == IF IsLeap(year) THEN 366 ELSE 365

MonthDays == <<31, 28, 31, 30, 31, 30, 31, 31, 30, 31, 30, 31>>
DaysSum   == <<0, 31, 59, 90, 120, 151, 181, 212, 243, 273, 304, 334>>

DaysPerMonth(mon, year) ==
  MonthDays[(mon % 12) + 1]
  + (IF mon % 12 = 1 /\ IsLeap(year + mon \div 12) THEN 1 ELSE 0)

(* The loops of time_to_tm: what is left of the days in its year, in its   *)
(* month.                                                                  *)
RECURSIVE InYear(_, _)
InYear(days, year) ==
  IF days < DaysPerYear(year) THEN [year |-> year, days |-> days]
  ELSE InYear(days - DaysPerYear(year), year + 1)

RECURSIVE InMonth(_, _, _)
InMonth(days, mon, year) ==
  IF days < DaysPerMonth(mon, year) THEN [mon |-> mon, days |-> days]
  ELSE InMonth(days - DaysPerMonth(mon, year), mon + 1, year)

NoTm == [year |-> 0, mon |-> 0, mday |-> 0, hour |-> 0, min |-> 0, sec |-> 0, wday |-> 0]

(* time_to_tm.  The last two days of the 32 bits are refused, so that the  *)
(* last one can stand for the day before the first.                        *)
TimeToTm(t, offset) ==
  LET local == Minus(t, offset)
      y == InYear(local.day, 1970)
      m == InMonth(y.days, 0, y.year)
      date == IF local.day < 0
              THEN [year |-> 69, mon |-> 11, mday |-> 31, wday |-> 3]
              ELSE [year |-> y.year - 1900, mon |-> m.mon, mday |-> m.days + 1,
                    wday |-> (4 + local.day) % 7]
  IN IF ~Before(t, Minus(TopTime, 2 * DaySecs - 1)) THEN NoTm
     ELSE [year |-> date.year, mon |-> date.mon, mday |-> date.mday, wday |-> date.wday,
           hour |-> local.sec \div 3600, min |-> (local.sec \div 60) % 60,
           sec |-> local.sec % 60]

(* tm2epoch, of a tm_t within the ranges of its fields but, perhaps, for   *)
(* year and day.                                                           *)
Tm2Epoch(tm) ==
  LET year == tm.year + 1900
      mday == tm.mday - 1
      days == (year - 1970) * 365 + DaysSum[tm.mon + 1] + mday + LeapDaysSince1900(year) - 17
              + (IF tm.mon > 1 /\ IsLeap(year) THEN 1 ELSE 0)
  IN IF year \in 1970 .. 2106 /\ mday < DaysPerMonth(tm.mon, year)
     THEN Wrapped([day |-> days, sec |-> (tm.hour * 60 + tm.min) * 60 + tm.sec])
     ELSE TopTime

-----------------------------------------------------------------------------
(* normalize: the loops that carry days over months look up the years by   *)
(* their number in tm_year, 1900 less.                                     *)
RECURSIVE CarryDays(_)
CarryDays(tm) ==
  LET next == IF tm.mon = 11 THEN [tm EXCEPT !.mon = 0, !.year = @ + 1]
              ELSE [tm EXCEPT !.mon = @ + 1]
      prev == IF tm.mon = 0 THEN [tm EXCEPT !.mon = 11, !.year = @ - 1]
              ELSE [tm EXCEPT !.mon = @ - 1]
  IN IF tm.mday > DaysPerMonth(tm.mon, tm.year)
     THEN CarryDays([next EXCEPT !.mday = @ - DaysPerMonth(tm.mon, tm.year)])
     ELSE IF tm.mday < 1
     THEN CarryDays([prev EXCEPT !.mday = @ + DaysPerMonth(prev.mon, prev.year)])
     ELSE tm

Carried(tm) ==
  LET min  == tm.min + tm.sec \div 60
      hour == tm.hour + min \div 60
  IN CarryDays([year |-> tm.year + tm.mon \div 12, mon |-> tm.mon % 12,
                mday |-> tm.mday + hour \div 24, hour |-> hour % 24, min |-> min % 60,
                sec |-> tm.sec % 60])

(* timegm: normalize without a time zone.                                  *)
TimeGm(tm) == Tm2Epoch(Carried(tm))

-----------------------------------------------------------------------------
(* Daylight saving: find_dst, set_dst with its cache of a day, is_dst.     *)
(* west is the zone, in minutes; a time zero, which stands for the clock,  *)
(* is not asked about.                                                     *)
FindDst(isEnd, t, west, month, weekno, dayno, hour) ==
  LET offset == west * 60 - (IF isEnd THEN 3600 ELSE 0)
      first  == [year |-> TimeToTm(t, offset).year, mon |-> month - 1, mday |-> 1,
                 hour |-> hour, min |-> 0, sec |-> 0]
      start  == Minus(TimeGm(first), -offset)
      wday   == TimeToTm(start, 0).wday
  IN [start EXCEPT !.day = @ + ((dayno - wday) % 7) + 7 * (weekno - 1)]

NoDst == [epoch |-> [day |-> 0, sec |-> 0], start |-> [day |-> 0, sec |-> 0],
          end |-> [day |-> 0, sec |-> 0]]

SetDst(dst, t, west) ==
  LET near(a, b) == ~Before(b, a) /\ Before(b, [a EXCEPT !.day = @ + 1])
  IN IF near(t, dst.epoch) \/ near(dst.epoch, t) THEN dst
     ELSE [epoch |-> t, start |-> FindDst(FALSE, t, west, 3, 2, 0, 2),
           end |-> FindDst(TRUE, t, west, 11, 1, 0, 2)]

IsDst(dst, t) == ~Before(t, dst.start) /\ ~Before(dst.end, t)

-----------------------------------------------------------------------------
(* Two digits in the halves of a byte, and back.                           *)
BinToBcd(n) == (n \div 10) * 16 + (n % 10)
BcdToBin(b) == (b \div 16) * 10 + (b % 16)

(* unix_time_to_fat and fat_time_to_unix.                                  *)
UnixTimeToFat(t) ==
  LET tm == TimeToTm(t, 0)
  IN [date |-> ((tm.year - 80) % 128) * 512 + (tm.mon + 1) * 32 + tm.mday,
      time |-> tm.hour * 2048 + tm.min * 32 + tm.sec \div 2]

FatTimeToUnix(f) ==
  TimeGm([sec |-> (f.time * 2) % 64, min |-> (f.time \div 32) % 64, hour |-> f.time \div 2048,
          mday |-> f.date % 32, mon |-> ((f.date \div 32) % 16) - 1, year |-> f.date \div 512 + 80])

(* lif_time2lifbcd and lif_lifbcd2time.                                    *)
TimeToLifBcd(t) ==
  LET tm == TimeToTm(t, 0)
  IN IF t = [day |-> 0, sec |-> 0] THEN <<0, 0, 0, 0, 0, 0>>
     ELSE <<BinToBcd(tm.year % 100), BinToBcd(tm.mon + 1), BinToBcd(tm.mday),
            BinToBcd(tm.hour), BinToBcd(tm.min), BinToBcd(tm.sec)>>

LifBcdToTime(bcd) ==
  LET bin == [i \in 1 .. 6 |-> BcdToBin(bcd[i])]
  IN IF \A i \in 1 .. 6 : bin[i] = 0 THEN [day |-> 0, sec |-> 0]
     ELSE TimeGm([year |-> IF bin[1] < 70 THEN bin[1] + 100 ELSE bin[1], mon |-> bin[2] - 1,
                  mday |-> bin[3], hour |-> bin[4], min |-> bin[5], sec |-> bin[6]])

(* rtc_write and rtc_read, the registers of the clock chip.                *)
RtcWrite(tm) ==
  <<BinToBcd(tm.sec) % 128, BinToBcd(tm.min) % 128, BinToBcd(tm.hour) % 64, (tm.wday % 8) + 1,
    BinToBcd(tm.mday) % 64, BinToBcd(tm.mon + 1) % 32, BinToBcd((tm.year - 100) % 256) % 256>>

RtcRead(buf) ==
  [sec |-> BcdToBin(buf[1] % 128), min |-> BcdToBin(buf[2] % 128),
   hour |-> BcdToBin(buf[3] % 64), wday |-> (buf[4] % 8) - 1, mday |-> BcdToBin(buf[5] % 64),
   mon |-> BcdToBin(buf[6] % 32) - 1, year |-> BcdToBin(buf[7]) + 100]

-----------------------------------------------------------------------------
(* The Gregorian calendar, for reference: the days before a year and those *)
(* before a month.                                                         *)
LeapYear(y) == y % 4 = 0 /\ (y % 100 # 0 \/ y % 400 = 0)
YearStart(y) == 365 * (y - 1970) + Cardinality({l \in 1970 .. y - 1 : LeapYear(l)})

MonthLength(m, y) ==
  CASE m = 2 -> IF LeapYear(y) THEN 29 ELSE 28
    [] m \in {4, 6, 9, 11} -> 30
    [] OTHER -> 31
RECURSIVE MonthStart(_, _)
MonthStart(m, y) == IF m = 1 THEN 0 ELSE MonthStart(m - 1, y) + MonthLength(m - 1, y)

(* Every day of a year gets its date from time_to_tm, and comes back from  *)
(* timegm and, as far as their years go, from FAT, LIF and the clock chip; *)
(* sec is even, for FAT keeps no others.                                   *)
DatesComeBack(years, sec) ==
  \A y \in years : LET start == YearStart(y) IN \A m \in 1 .. 12 :
    LET first == start + MonthStart(m, y) IN \A d \in 1 .. MonthLength(m, y) :
      LET t  == [day |-> first + d - 1, sec |-> sec]
          tm == TimeToTm(t, 0)
      IN ~Before(t, Minus(TopTime, 2 * DaySecs - 1)) \/
         /\ tm.year = y - 1900 /\ tm.mon = m - 1 /\ tm.mday = d /\ tm.wday = (t.day + 4) % 7
         /\ (tm.hour * 60 + tm.min) * 60 + tm.sec = sec
         /\ TimeGm(tm) = t
         /\ y >= 1980 => FatTimeToUnix(UnixTimeToFat(t)) = t
         /\ y < 2070 => LifBcdToTime(TimeToLifBcd(t)) = t
         /\ y \in 2000 .. 2099 => RtcRead(RtcWrite(tm)) = tm

(* timegm accepts fields beyond their ranges and carries them, as its test *)
(* (lib/timetests.c) tries: the time is that of the sum of what they say.  *)
FieldsCarry(years, mons, mdays, hours, mins) ==
  \A y \in years : \A mon \in mons :
    LET yy == y + mon \div 12
        month == YearStart(yy) + MonthStart((mon % 12) + 1, yy)
    IN \A mday \in mdays : \A hour \in hours : \A min \in mins :
       TimeGm([year |-> y - 1900, mon |-> mon, mday |-> mday, hour |-> hour, min |-> min,
               sec |-> -min])
         = Normal(month + mday - 1, hour * 3600 + min * 60 - min)

(* Daylight saving starts on the second Sunday of March at two, and ends   *)
(* on the first of November at two, in the zone's own time; and what is    *)
(* cached for a time less than a day away gives the same answer.           *)
DstOnSundays(years, wests) ==
  \A y \in years : \A west \in wests :
    LET sunday(m, n) == CHOOSE d \in 7 * n - 6 .. 7 * n :
          (YearStart(y) + MonthStart(m, y) + d - 1 + 4) % 7 = 0
        at(m, n, hours) == Normal(YearStart(y) + MonthStart(m, y) + sunday(m, n) - 1,
                                  hours * 3600 + west * 60)
        june == [day |-> YearStart(y) + 160, sec |-> 0]
        dst  == SetDst(NoDst, june, west)
    IN dst.start = at(3, 2, 2) /\ dst.end = at(11, 1, 1)

LastHour(t, west) ==
  LET local == Minus(t, west * 60)
      later == Minus(t, (west - 60) * 60)
  IN InYear(local.day, 1970).year # InYear(later.day, 1970).year

CacheIsFresh(days, secs, wests) ==
  \A west \in wests : \A d \in days : \A s \in secs : \A a \in {-86399, -43200, 43200, 86399} :
    LET t == [day |-> d, sec |-> s]
        other == Minus(t, a)
    IN LastHour(t, west) \/ LastHour(other, west) \/
       IsDst(SetDst(SetDst(NoDst, other, west), t, west), t) = IsDst(SetDst(NoDst, t, west), t)

(* The hour excepted: there find_dst already looks for the end in the year *)
(* to come, and the last hour of a year passes for summer.                 *)
LastHourIsSummer(years, wests) ==
  \A y \in years : \A west \in wests :
    LET t == Minus([day |-> YearStart(y + 1), sec |-> 0], 1800 - west * 60)
    IN LastHour(t, west) /\ IsDst(SetDst(NoDst, t, west), t)
=============================================================================
