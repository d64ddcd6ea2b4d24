--------------------------------- MODULE Dates ---------------------------------
(***************************************************************************)
(* DateUtils and DateFormatUtils: calendar arithmetic, comparisons, the sort *)
(* of an array of dates, and the conversions between dates and texts.        *)
(*                                                                          *)
(* A value is a record: a java.util.Date is its seconds since 1970, a String *)
(* is the pattern it is written in and the date it shows.  The characters of *)
(* a text are not modelled; which pattern reads it is.  The process's time   *)
(* zone has no summer time.                                                  *)
(***************************************************************************)
EXTENDS Integers, Sequences

CONSTANTS Clock,    \* what new Date() shows, in seconds
          Misread   \* the date of a number that is read as one year, day or hour

ASSUME ClockAssumption == {Clock, Misread} \subseteq Nat

-----------------------------------------------------------------------------
(* java.util.GregorianCalendar.                                             *)

Leap(y) == y % 4 = 0 /\ (y % 100 # 0 \/ y % 400 = 0)

MonthDays == <<31, 28, 31, 30, 31, 30, 31, 31, 30, 31, 30, 31>>
MonthLength(y, m) == IF m = 2 /\ Leap(y) THEN 29 ELSE MonthDays[m]

\* Days from 1 January 1970 to 1 January of year y.
YearStart(y) ==
    365 * (y - 1970) + (y - 1) \div 4 - (y - 1) \div 100 + (y - 1) \div 400 - 477

\* Days of year y before its month m.
MonthStarts == <<0, 31, 59, 90, 120, 151, 181, 212, 243, 273, 304, 334>>
MonthStart(y, m) ==
    MonthStarts[m] + (IF m > 2 /\ Leap(y) THEN 1 ELSE 0)

Day == 86400

Seconds(f) == (YearStart(f.year) + MonthStart(f.year, f.month) + f.day - 1) * Day
              + f.hour * 3600 + f.minute * 60 + f.second

\* 400 years have 146097 days.
YearAt(n) ==
    LET near == 1970 + (400 * n) \div 146097
    IN  CHOOSE y \in near - 1 .. near + 1 : YearStart(y) <= n /\ n < YearStart(y + 1)
MonthAt(y, d) ==
    CHOOSE m \in 1 .. 12 :
        MonthStart(y, m) <= d /\ d < MonthStart(y, m) + MonthLength(y, m)

Fields(t) ==
    LET n == t \div Day
        y == YearAt(n)
        d == n - YearStart(y)
        m == MonthAt(y, d)
    IN  [year |-> y, month |-> m, day |-> d - MonthStart(y, m) + 1,
         hour |-> (t % Day) \div 3600, minute |-> (t % 3600) \div 60, second |-> t % 60]

DayOfWeek(t) == ((t \div Day + 4) % 7) + 1     \* SUNDAY is 1

\* The day stays, unless the month has not got it: then it is the last one.
MonthsAdded(t, k) ==
    LET f == Fields(t)
        m == f.year * 12 + f.month - 1 + k
        last == MonthLength(m \div 12, (m % 12) + 1)
    IN  Seconds([f EXCEPT !.year = m \div 12, !.month = (m % 12) + 1,
                          !.day = IF f.day > last THEN last ELSE f.day])

Units == [DATE |-> Day, HOUR |-> 3600, MINUTE |-> 60, SECOND |-> 1]

\* Calendar.add.
Added(field, k, t) ==
    CASE field = "YEAR"  -> MonthsAdded(t, 12 * k)
      [] field = "MONTH" -> MonthsAdded(t, k)
      [] OTHER           -> t + k * Units[field]

-----------------------------------------------------------------------------
(* Patterns and texts.                                                      *)

FORMAT1 == "yyyy-MM-dd"
FORMAT2 == "yyyy-MM-dd HH:mm:ss"

YMD == {"year", "month", "day"}
HMS == {"hour", "minute", "second"}

\* The fields a text of a pattern shows; the last two arise on the way only.
Shows(form) ==
    CASE form = "yyyy" -> {"year"}
      [] form = "MM"   -> {"month"}
      [] form = "dd"   -> {"day"}
      [] form = "HH"   -> {"hour"}
      [] form = "mm"   -> {"minute"}
      [] form \in {"yyyy-MM", "yyyyMM"} -> YMD \ {"day"}
      [] form \in {FORMAT1, "yyyyMMdd", "Chinese"} -> YMD
      [] form \in {FORMAT2, "yyyyMMddHHmmss", "yyyyMMdd HHmmss"} -> YMD \cup HMS

Date(t) == [form |-> "Date", at |-> t]
NoDate  == [form |-> "null Date", at |-> 0]
NoText  == [form |-> "null String", at |-> 0]

Now == Date(Clock)

Epoch == [year |-> 1970, month |-> 1, day |-> 1, hour |-> 0, minute |-> 0, second |-> 0]

\* What is left of a date once written in a pattern: the fields it shows.
Shown(t, form) ==
    Seconds([k \in DOMAIN Epoch |-> IF k \in Shows(form) THEN Fields(t)[k] ELSE Epoch[k]])

\* getFormat: the pattern for an absent one.
Pattern(format) == IF format = "" THEN FORMAT2 ELSE format

date2String(d, format) ==
    IF d = NoDate THEN NoText
    ELSE [form |-> Pattern(format), at |-> Shown(d.at, Pattern(format))]

\* SimpleDateFormat.parse reads a text of its pattern and ignores what follows,
\* but a pattern of one field takes the whole of a longer number for it.
ReadBy(form) ==
    CASE form = "yyyy"    -> {"yyyy", "yyyy-MM", FORMAT1, FORMAT2, "Chinese"}
      [] form = "yyyy-MM" -> {"yyyy-MM", FORMAT1, FORMAT2}
      [] form = FORMAT1   -> {FORMAT1, FORMAT2}
      [] OTHER            -> {form}
OneField == {"yyyy", "MM", "dd", "HH", "mm"}

Parse(text, form) ==
    IF text.form \in ReadBy(form) THEN Date(Shown(text.at, form))
    ELSE IF form \in OneField /\ text.form = "yyyyMMdd HHmmss" THEN Date(Misread)
    ELSE NoDate

\* formatDate takes "-" and ":" out of the text
Compact(form) ==
    CASE form = FORMAT2   -> "yyyyMMdd HHmmss"
      [] form = FORMAT1   -> "yyyyMMdd"
      [] form = "yyyy-MM" -> "yyyyMM"
      [] OTHER            -> form

\* ... and writes a number of 6, 8 or 14 digits in the format, or in Chinese;
\* a text that is no number, for its space, or a shorter one stays, and a zero
\* is lost.
formatDate(text, format) ==
    LET form == Compact(text.form)
        out  == IF format = "" THEN "Chinese" ELSE format
    IN  IF form \in {"HH", "mm"} /\ text.at = 0 THEN NoText
        ELSE IF form \in {"yyyyMM", "yyyyMMdd", "yyyyMMddHHmmss"}
             THEN [form |-> out, at |-> Shown(text.at, out)]
             ELSE [text EXCEPT !.form = form]

string2Date(text, format) == Parse(formatDate(text, format), Pattern(format))

formatString(text) ==
    CASE text.form = FORMAT1          -> [text EXCEPT !.form = "yyyyMMdd"]
      [] text.form = "yyyyMMdd"       -> [text EXCEPT !.form = FORMAT1]
      [] text.form = FORMAT2          -> [text EXCEPT !.form = "yyyyMMddHHmmss"]
      [] text.form = "yyyyMMddHHmmss" -> [text EXCEPT !.form = FORMAT2]
      [] OTHER                        -> NoText

\* A null date stands for the current time, as the format shows it.
getCalendar(d, format) == IF d = NoDate THEN Shown(Clock, Pattern(format)) ELSE d.at

-----------------------------------------------------------------------------
(* DateUtils.                                                               *)

\* addXToDate(n, Date or String, format): an empty text stands for the current
\* time, a text that cannot be read for a null date.
AddToDate(field, n, v, format) ==
    LET d == IF v.form \in {"Date", NoDate.form} THEN v
             ELSE IF v = NoText THEN Now ELSE string2Date(v, format)
    IN  date2String(Date(Added(field, n, getCalendar(d, format))), format)

addYearToDate(n, v, format)   == AddToDate("YEAR", n, v, format)
addMothToDate(n, v, format)   == AddToDate("MONTH", n, v, format)
addDayToDate(n, v, format)    == AddToDate("DATE", n, v, format)
addHourToDate(n, v, format)   == AddToDate("HOUR", n, v, format)
addMinuteToDate(n, v, format) == AddToDate("MINUTE", n, v, format)
addSecondToDate(n, v, format) == AddToDate("SECOND", n, v, format)

\* getCurrentX(String): the text in the pattern, as a calendar.
Read(text, format) == Fields(getCalendar(string2Date(text, format), format))

getCurrentYear(v)   == IF v.form = "Date" THEN Fields(v.at).year ELSE Read(v, "yyyy").year
getCurrentMonth(v)  == IF v.form = "Date" THEN Fields(v.at).month ELSE Read(v, FORMAT1).month
getCurrentDay(v)    == IF v.form = "Date" THEN Fields(v.at).day ELSE Read(v, "dd").day
\* Of a text, getCurrentHour gives Calendar.DATE.
getCurrentHour(v)   == IF v.form = "Date" THEN Fields(v.at).hour ELSE Read(v, "HH").day
getCurrentMinute(v) == IF v.form = "Date" THEN Fields(v.at).minute ELSE Read(v, "mm").minute
\* The index into weeks, Sunday first.
getCurrentWeek(v) ==
    LET d == IF v.form = "Date" THEN v ELSE string2Date(v, FORMAT1)
    IN  DayOfWeek(getCalendar(d, FORMAT1)) - 1

getDaysOfMonth(text) == LET f == Fields(Parse(text, FORMAT1).at) IN MonthLength(f.year, f.month)

\* 0 as well when one of the texts cannot be read.
compare(a, b, format) ==
    LET s == Parse(a, Pattern(format))
        t == Parse(b, Pattern(format))
    IN  IF NoDate \in {s, t} \/ s.at = t.at THEN 0 ELSE IF s.at > t.at THEN 1 ELSE -1

\* The inner loop: x goes behind the last element it is not before.
Inserted(s, x) ==
    LET stay == {i \in DOMAIN s : compare(x, s[i], FORMAT1) # -1}
        last == IF stay = {} THEN 0 ELSE CHOOSE i \in stay : \A j \in stay : j <= i
    IN  [i \in 1 .. Len(s) + 1 |-> IF i <= last THEN s[i]
                                   ELSE IF i = last + 1 THEN x ELSE s[i - 1]]

Sorts == INSTANCE CallbackList WITH Op <- Inserted

dateSort(a) == Sorts!Fire(<<>>, a)

\* Java's / truncates.
Quotient(a, b) == IF a >= 0 THEN a \div b ELSE -((-a) \div b)
Remainder(a, b) == a - b * Quotient(a, b)

\* Variant: the last step of the loop is counted.
StepsTooMany(unit, s, t) ==
    CHOOSE k \in 0 .. (IF t > s THEN (t - s) \div Day ELSE 0) + 1 :
        Added(unit, k, s) > t /\ (k = 0 \/ Added(unit, k - 1, s) <= t)

\* The loop adds a unit to s as long as it is not after t; n is then one less
\* than the number of times.
Steps(unit, s, t) ==
    CHOOSE k \in -1 .. (IF t > s THEN (t - s) \div Day ELSE 0) :
        Added(unit, k + 1, s) > t /\ (k = -1 \/ Added(unit, k, s) <= t)

\* When the first text cannot be read both calendars show the current time.
compareDate(startDay, endDay, stype) ==
    LET style == <<FORMAT1, "yyyy-MM", "yyyy">>[stype + 1]
        s == Parse(formatDate(startDay, FORMAT1), style)
        t == IF s = NoDate THEN NoDate ELSE Parse(formatDate(endDay, FORMAT1), style)
        n == Steps(IF stype = 1 THEN "MONTH" ELSE "DATE",
                   IF s = NoDate THEN Clock ELSE s.at, IF t = NoDate THEN Clock ELSE t.at)
    IN  IF stype = 2 THEN Quotient(n, 365) ELSE n

compareTime(startTime, endTime, type) ==
    LET s == Parse(startTime, FORMAT2)
        t == Parse(IF endTime = NoText THEN date2String(Now, FORMAT2) ELSE endTime, FORMAT2)
        between == t.at - s.at
    IN  IF NoDate \in {s, t} THEN 0 ELSE
        CASE type = 1 -> Quotient(Remainder(between, 24 * 36000), 3600)
          [] type = 2 -> Quotient(Remainder(between, 3600), 60)
          [] type = 3 -> Quotient(Remainder(between, 60), 60)
          [] OTHER -> 0

\* set(DATE, ...) runs over into the neighbouring month.
getWeekFirstDate(d) == Date(d.at + (2 - DayOfWeek(d.at)) * Day)
geWeektLastDate(d)  == Date(d.at + (2 - DayOfWeek(d.at) + 6) * Day)
=============================================================================
