--------------------------------- MODULE Calendar ---------------------------------
(***************************************************************************)
(* Time and date: the reading of the clock chip (drivers/pcat/rtc.c), the  *)
(* broken-down time (lib/libc/others/gmtime_r.c), its printing             *)
(* (strftime.c) and the month sheet of the cal command (app/bin/cal.c).    *)
(* Each call is one step that leaves what the code answers in got and what *)
(* the calendar says in want.                                              *)
(***************************************************************************)
EXTENDS Integers, SequencesExt, FiniteSetsExt

CONSTANTS
  Day,       \* the days, counted from the epoch, that are converted
  SampleDay, \* those the clock is read on and dates are printed for
  Second,    \* seconds of a day
  Year,      \* the years whose month sheets are printed
  Format,    \* the formats given to strftime, as sequences of characters
  TextSize   \* the sizes of the buffers given to strftime

VARIABLES kind, impl, ideal, got, want

-----------------------------------------------------------------------------
(* The calendar, by counting.                                                 *)

Leap(y) == y % 4 = 0 /\ (y % 100 # 0 \/ y % 400 = 0)
MonthDays(leap) == <<31, IF leap THEN 29 ELSE 28, 31, 30, 31, 30, 31, 31, 30, 31, 30, 31>>
DaysBeforeMonth(leap, m) == FoldSeq(LAMBDA a, b : a + b, 0, SubSeq(MonthDays(leap), 1, m - 1))
DaysBeforeYear(y) ==
  365 * (y - 1) + ((y - 1) \div 4) - ((y - 1) \div 100) + ((y - 1) \div 400)
DayNumber(y, m, d) == DaysBeforeYear(y) + DaysBeforeMonth(Leap(y), m) + d - 1
EpochDay == DayNumber(1970, 1, 1)
\* The day numbered 0 is a Monday; Sunday is 0.
Weekday(n) == (n + 1) % 7
\* The calendar England kept until 2 September 1752.
JulianDay(y, m, d) ==
  365 * (y - 1) + ((y - 1) \div 4) + DaysBeforeMonth(y % 4 = 0, m) + d - 1
JulianWeekday(n) == (n + 6) % 7

-----------------------------------------------------------------------------
(* gmtime_r.                                                                  *)

SecondsPerDay == 86400
EpochDays == 719162
DaysPer4Years == 365 * 4 + 1
DaysPer100Years == DaysPer4Years * 25 - 1
DaysPer400Years == DaysPer100Years * 4 + 1

GetDaysOfMonth(year) ==
  MonthDays(IF year % 4 # 0 THEN FALSE ELSE IF year % 100 # 0 THEN TRUE ELSE year % 400 = 0)

Gmtime(t) ==
  LET days == t \div SecondsPerDay + EpochDays
      a == days % DaysPer400Years
      b == a % DaysPer100Years
      c == b % DaysPer4Years
      d == c % 365
      y == (days \div DaysPer400Years) * 400 + (a \div DaysPer100Years) * 100
           + (b \div DaysPer4Years) * 4 + (c \div 365) + 1
      table == GetDaysOfMonth(y)
      before(m) == FoldSeq(LAMBDA p, q : p + q, 0, SubSeq(table, 1, m))
      mon == Min({m \in 0..12 : m = 12 \/ d < before(m + 1)})
      s == t % SecondsPerDay
  IN [year |-> y - 1900, yday |-> d, mon |-> mon, mday |-> d - before(mon) + 1,
      wday |-> (days + 1) % 7, hour |-> s \div 3600, min |-> (s % 3600) \div 60, sec |-> s % 60]

\* The last day of a leap year is answered as the first of the next one: its
\* remainder by 365 is 0 and the quotient one year too many.
LastOfLeapYear(n) == \E y \in ((n \div 365) - 2)..(n \div 365) : Leap(y) /\ n = DayNumber(y, 12, 31)
GmtimeDay(tm) == DayNumber(tm.year + 1900, tm.mon + 1, tm.mday)
IsDate(tm) == tm.mon \in 0..11 /\ tm.mday \in 1..GetDaysOfMonth(tm.year + 1900)[tm.mon + 1]

Convert ==
  \E day \in Day, s \in Second :
    LET tm == Gmtime(day * SecondsPerDay + s)
        n == EpochDay + day
        shown == IF LastOfLeapYear(n) THEN n + 1 ELSE n
    IN /\ impl' = <<"gmtime", day, s>>
       /\ got' = <<IsDate(tm), GmtimeDay(tm), tm.yday, tm.wday, (tm.hour * 60 + tm.min) * 60 + tm.sec>>
       /\ want' = <<TRUE, shown, shown - DaysBeforeYear(tm.year + 1900), Weekday(n), s>>

-----------------------------------------------------------------------------
(* rtc.c.  The chip keeps two decimal digits to a byte, and may advance       *)
(* between any two of the fourteen reads of the two passes.                   *)

Fields == <<"century", "year", "month", "day", "hour", "minute", "second">>
Register(tm) == [
  century |-> (tm.year + 1900) \div 100, year |-> tm.year % 100, month |-> tm.mon + 1,
  day |-> tm.mday, hour |-> tm.hour, minute |-> tm.min, second |-> tm.sec]
Chip(tm) == [f \in DOMAIN Register(tm) |-> 16 * (Register(tm)[f] \div 10) + (Register(tm)[f] % 10)]
Read(n) == ((n \div 16) % 16) * 10 + (n % 16)

\* The seconds since the epoch, as days and the seconds of the day.
GetTime(chip) ==
  LET m == Read(chip.month)
      y == Read(chip.century) * 100 + Read(chip.year)
      year == IF m <= 2 THEN y - 1 ELSE y
      month == IF m <= 2 THEN m + 12 ELSE m
      days == 365 * year + (year \div 4) - (year \div 100) + (year \div 400)
              + ((306 * (month + 1)) \div 10) + Read(chip.day) - 428 - 719163
  IN <<days, (Read(chip.hour) * 60 + Read(chip.minute)) * 60 + Read(chip.second)>>

\* The clock advances after k reads.  Passes that differ are read again.
RtcGetTime(before, after, k) ==
  LET seen(pass) == [f \in DOMAIN before |->
        LET i == CHOOSE n \in DOMAIN Fields : Fields[n] = f
        IN IF 7 * pass + i <= k THEN before[f] ELSE after[f]]
  IN IF GetTime(seen(0)) = GetTime(seen(1)) THEN GetTime(seen(0)) ELSE GetTime(after)

ReadClock ==
  \E day \in SampleDay, s \in Second, k \in 0..14 :
    LET t == day * SecondsPerDay + s
        before == Chip(Gmtime(t))
        after == Chip(Gmtime(t + 1))
        r == RtcGetTime(before, after, k)
    IN /\ ~LastOfLeapYear(EpochDay + day) /\ ~LastOfLeapYear(EpochDay + day + 1)
       /\ impl' = <<"rtc", day, s, k>>
       /\ got' = r
       /\ want' = LET u == IF k = 14 THEN t ELSE t + 1 IN <<u \div SecondsPerDay, u % SecondsPerDay>>

-----------------------------------------------------------------------------
(* strftime.  A name is its first symbol and as many more as it has letters.  *)

Name(name, letters) == <<name>> \o [i \in 1..(letters - 1) |-> "."]
Digit(n) == <<"0", "1", "2", "3", "4", "5", "6", "7", "8", "9">>[(n % 10) + 1]
Putzd(n, columns) == [i \in 1..columns |-> Digit(n \div 10 ^ (columns - i))]
Putd(n) == Putzd(n, Min({c \in 1..9 : n < 10 ^ c}))
CalcWeeks(tm, offset) == (tm.yday + (7 - ((tm.yday + (7 - tm.wday) + offset) % 7))) \div 7

\* What a conversion character stands for: text, or a format of its own.
Conversion(c, tm) ==
  CASE c = "a" -> Name("Ddd", 3)
    [] c = "A" -> Name("Day", <<6, 6, 7, 9, 8, 6, 8>>[tm.wday + 1])
    [] c = "b" -> Name("Mmm", 3)
    [] c = "B" -> Name("Month", <<7, 8, 5, 5, 3, 4, 4, 6, 9, 7, 8, 8>>[tm.mon + 1])
    [] c = "d" -> Putzd(tm.mday, 2)
    [] c = "H" -> Putzd(tm.hour, 2)
    [] c = "I" -> Putzd(tm.hour % 12, 2)
    [] c = "j" -> Putzd(tm.yday + 1, 3)
    [] c = "m" -> Putzd(tm.mon + 1, 2)
    [] c = "M" -> Putzd(tm.min, 2)
    [] c = "p" -> Name(IF tm.hour \div 12 = 0 THEN "AM" ELSE "PM", 2)
    [] c = "S" -> Putzd(tm.sec, 2)
    [] c = "U" -> Putzd(CalcWeeks(tm, 0), 2)
    [] c = "W" -> Putzd(CalcWeeks(tm, 1), 2)
    [] c = "y" -> Putzd(tm.year % 100, 2)
    [] c = "Y" -> Putd(tm.year + 1900)
    [] c = "Z" -> Name("GMT", 3)
    [] c = "%" -> <<"%">>
    [] OTHER -> <<>>
SubFormat == [c |-> <<"%", "a", " ", "%", "b", " ", "%", "d", " ", "%", "H", ":", "%", "M", ":", "%", "S", " ", "%", "Y">>,
              F |-> <<"%", "Y", "-", "%", "m", "-", "%", "d">>,
              x |-> <<"%", "m", "/", "%", "d", "/", "%", "y">>,
              X |-> <<"%", "H", ":", "%", "M", ":", "%", "S">>]

\* _putc and _puts: what does not fit is an error, after what did.
Puts(text, s) ==
  IF Len(s.buf) + Len(text) <= s.size THEN [s EXCEPT !.buf = @ \o text]
  ELSE [s EXCEPT !.buf = SubSeq(@ \o text, 1, s.size), !.err = TRUE]

RECURSIVE Printf(_, _, _)
Printf(s, format, tm) ==
  IF format = <<>> \/ s.err THEN s
  ELSE IF Head(format) # "%" THEN Printf(Puts(<<Head(format)>>, s), Tail(format), tm)
  ELSE IF Len(format) = 1 THEN s
  ELSE LET c == format[2]
           rest == SubSeq(format, 3, Len(format))
       IN IF c \in DOMAIN SubFormat THEN Printf(Printf(s, SubFormat[c], tm), rest, tm)
          ELSE IF Conversion(c, tm) = <<>> THEN [s EXCEPT !.err = TRUE]
          ELSE Printf(Puts(Conversion(c, tm), s), rest, tm)

Strftime(size, format, tm) ==
  LET s == Printf([buf |-> <<>>, size |-> size, err |-> FALSE], format, tm)
  IN IF s.err \/ Len(s.buf) >= s.size THEN <<>> ELSE s.buf

\* How many of the days of the year up to this one are Sundays, or Mondays.
WeeksCounted(n, first, wday) == Cardinality({k \in first..n : Weekday(k) = wday})

Show ==
  \E day \in SampleDay, size \in TextSize, format \in Format :
    LET n == EpochDay + day
        tm == Gmtime(day * SecondsPerDay)
        first == DaysBeforeYear(tm.year + 1900)
        full == Printf([buf |-> <<>>, size |-> 100, err |-> FALSE], format, tm)
    IN /\ ~LastOfLeapYear(n)
       /\ impl' = <<"strftime", day, size, format>>
       /\ got' = <<Strftime(size, format, tm), CalcWeeks(tm, 0), CalcWeeks(tm, 1)>>
       /\ want' = <<IF full.err \/ Len(full.buf) >= size THEN <<>> ELSE full.buf,
                    WeeksCounted(n, first, 0), WeeksCounted(n, first, 1)>>

-----------------------------------------------------------------------------
(* cal.c.                                                                     *)

GregorianIsLeap(year) == year % 4 = 0 /\ (year % 100 # 0 \/ year % 400 = 0)
JulianIsLeap(year) == year % 4 = 0
GregorianGamma(year) == ((year \div 100) \div 4) - (year \div 100)
JulianGamma(year) == 5

GetWeekday(year, month, day, julian) ==
  LET y == IF month <= 2 THEN year - 1 ELSE year
      q == IF month <= 2 THEN month + 12 ELSE month
      h == (day + ((13 * (q + 1)) \div 5) + y + (y \div 4)
            + (IF julian THEN JulianGamma(y) ELSE GregorianGamma(y))) % 7
  IN IF h # 0 THEN h - 1 ELSE 6

\* The sheet: the day in each cell, the cells numbered along the rows from Sunday.
Sheet(year, month) ==
  LET julian == year < 1752 \/ (year = 1752 /\ month <= 9)
      start == GetWeekday(year, month, 1, julian)
      leap == IF julian THEN JulianIsLeap(year) ELSE GregorianIsLeap(year)
      shift == year = 1752 /\ month = 9
      days == IF shift THEN <<1, 2>> \o [i \in 1..17 |-> 13 + i]
              ELSE [i \in 1..MonthDays(leap)[month] |-> i]
  IN [cell \in start..(start + Len(days) - 1) |-> days[cell - start + 1]]

\* The days of a month, each under its weekday, and the week it falls in.
TrueSheet(year, month) ==
  LET old(d) == year < 1752 \/ (year = 1752 /\ (month < 9 \/ (month = 9 /\ d <= 2)))
      wday(d) == IF old(d) THEN JulianWeekday(JulianDay(year, month, d))
                 ELSE Weekday(DayNumber(year, month, d))
      last == MonthDays(IF old(1) THEN year % 4 = 0 ELSE Leap(year))[month]
      days == {d \in 1..last : ~(year = 1752 /\ month = 9 /\ d \in 3..13)}
      cell(d) == wday(1) + Cardinality({e \in days : e < d})
  IN [days |-> {<<cell(d), d>> : d \in days}, columns |-> {<<d, wday(d)>> : d \in days}]

PrintMonth ==
  \E year \in Year, month \in 1..12 :
    LET s == Sheet(year, month)
    IN /\ impl' = <<"cal", year, month>>
       /\ got' = <<{<<c, s[c]>> : c \in DOMAIN s}, {<<s[c], c % 7>> : c \in DOMAIN s}>>
       /\ want' = <<TrueSheet(year, month).days, TrueSheet(year, month).columns>>

CalendarNext ==
  /\ kind = "calendar"
  /\ impl = <<>>
  /\ Convert \/ ReadClock \/ Show \/ PrintMonth
  /\ UNCHANGED <<kind, ideal>>

=============================================================================
