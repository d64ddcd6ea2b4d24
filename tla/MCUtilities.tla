----------------------------- MODULE MCUtilities -----------------------------
(***************************************************************************)
(* The utility classes, over dates that pass one by one and over the request *)
(* URIs of up to MaxTokens tokens.                                           *)
(***************************************************************************)
EXTENDS Dates, RequestParams, FiniteSetsExt

CONSTANTS FirstDays,  \* in days since 1970
          Window,     \* bound: days looked at from each of them
          MaxTokens   \* bound: tokens after the path

\* The days from 1970 on whose year has four digits, whatever is added to them:
\* in a longer text formatDate finds no date.
FourDigits == {n \in Nat : YearAt(n) < 9990}

ASSUME DaysAssumption ==
    Window \in Nat /\ \A n \in FirstDays : {n, n + Window} \subseteq FourDigits

VARIABLES day, query

vars == <<day, query>>

Tokens == {"?", "&", "=", "userId", "ann"}

Init == day \in FirstDays /\ query = <<>>

NextDay == /\ query = <<>> /\ day + 1 - Window \notin FirstDays
           /\ day' = day + 1
           /\ UNCHANGED query

NextToken == /\ day = Min(FirstDays) /\ Len(query) < MaxTokens
             /\ \E x \in Tokens : query' = Append(query, x)
             /\ UNCHANGED day

Spec == Init /\ [][NextDay \/ NextToken]_vars

-----------------------------------------------------------------------------
(* Dates                                                                    *)

\* The day, looked at once, and times of it: its first, its last second, one
\* between.
Days == IF query = <<>> THEN {day} ELSE {}
Times == UNION {{n * Day, n * Day + 45296, n * Day + Day - 1} : n \in Days}

\* What a client writes: all fields in digits, or the date with or without "-".
Written(t) == {[form |-> f, at |-> Shown(t, f)] : f \in {FORMAT1, "yyyyMMdd", "yyyyMMddHHmmss"}}

\* An operation gives the same answer for a text as for the date it shows: the
\* conversions of formatDate, string2Date and getCalendar lose nothing of a
\* text in digits or of a date alone but what the format does not show.  (A text
\* in FORMAT2, a format that is left out, and the hour of a text are the
\* exceptions.)
OverloadsAgree ==
    \A t \in Times : \A text \in Written(t) :
        /\ \A f \in {FORMAT1, FORMAT2, "yyyyMMddHHmmss"}, n \in {-31, 12} :
              LET d == Date(Shown(text.at, f)) IN
              /\ addYearToDate(n, text, f) = addYearToDate(n, d, f)
              /\ addMothToDate(n, text, f) = addMothToDate(n, d, f)
              /\ addDayToDate(n, text, f) = addDayToDate(n, d, f)
              /\ addHourToDate(n, text, f) = addHourToDate(n, d, f)
              /\ addMinuteToDate(n, text, f) = addMinuteToDate(n, d, f)
              /\ addSecondToDate(n, text, f) = addSecondToDate(n, d, f)
        /\ LET d == Date(text.at) IN
              /\ getCurrentYear(text) = getCurrentYear(d)
              /\ getCurrentMonth(text) = getCurrentMonth(d)
              /\ getCurrentDay(text) = getCurrentDay(d)
              /\ getCurrentMinute(text) = getCurrentMinute(d)
              /\ getCurrentWeek(text) = getCurrentWeek(d)

Midnights == {[form |-> FORMAT1, at |-> n * Day] : n \in Days}

\* compareDate counts what was added, in days, months and years, across leap
\* days and months that are too short: the 29th to 31st, pushed back by
\* addMothToDate, still counts a whole month, and getDaysOfMonth days reach from
\* one first of a month to the next.
CountsWhatWasAdded ==
    \A today \in Midnights, n \in {0, 1, 2, 4, 13, 48} :
        /\ \A later \in {addDayToDate(n, today, FORMAT1)} : compareDate(today, later, 0) = n
        /\ \A later \in {addMothToDate(n, today, FORMAT1)} : compareDate(today, later, 1) = n
        /\ n < 5 => \A later \in {addYearToDate(n, today, FORMAT1)} :
                        compareDate(today, later, 2) = n
        /\ \A first \in {[form |-> FORMAT1, at |-> Shown(today.at, "yyyy-MM")]},
              days \in {0, 1} :
              \A later \in {addDayToDate(getDaysOfMonth(today) + days - 1, first, FORMAT1)} :
                  compareDate(first, later, 1) = days

\* Three dates of which one is earlier, and one the same with its time, which
\* the comparison does not see.
Sorted == 1 .. 3
Around(today) == {today, [form |-> FORMAT2, at |-> today.at + 45296],
                  addDayToDate(-1, today, FORMAT1)}

\* dateSort orders its array and keeps equal dates in their order, so that an
\* element's place is the number of those that belong before it.
SortsStably ==
    \A today \in Midnights : \A a \in [Sorted -> Around(today)] :
        LET before(i, j) == \/ compare(a[i], a[j], FORMAT1) = -1
                            \/ compare(a[i], a[j], FORMAT1) = 0 /\ i < j
            sorted == dateSort(a)
        IN  \A j \in Sorted : sorted[Cardinality({i \in Sorted : before(i, j)}) + 1] = a[j]

\* getWeekFirstDate and geWeektLastDate enclose every day but a Sunday, from a
\* Monday to a Sunday, at the time of the day, over the ends of months and years.
WeekEncloses ==
    \A t \in Times :
        LET first == getWeekFirstDate(Date(t))
            last  == geWeektLastDate(Date(t))
        IN  /\ getCurrentWeek(first) = 1 /\ getCurrentWeek(last) = 0
            /\ last.at - first.at = 6 * Day
            /\ getCurrentWeek(Date(t)) # 0 => first.at <= t /\ t <= last.at

\* A date survives the way to a text and back, as far as the pattern shows it:
\* from a pattern without a space, and with a value other than 0.  formatString
\* takes it from digits to a pattern with marks and back.
TextsReadBack ==
    /\ \A t \in Times : \A text \in Written(t) \cup {date2String(Date(t), FORMAT2)} :
          formatString(formatString(text)) = text
    /\ \A t \in Times, f \in {"yyyy", "MM", "dd", "HH", "mm", "yyyy-MM", FORMAT1, "yyyyMMddHHmmss"} :
          (f \in {"HH", "mm"} => Shown(t, f) # 0) =>
              string2Date(date2String(Date(t), f), f) = Date(Shown(t, f))

\* compareTime's hours are the whole ones of a span of up to ten days, with the
\* minutes left over; the other way round both are negated.
HoursAndMinutes ==
    \A t \in Times, days \in {0, 1, 9}, seconds \in {0, 3599, 86399} :
        LET s == [form |-> FORMAT2, at |-> t]
            e == [form |-> FORMAT2, at |-> t + days * Day + seconds]
        IN  /\ 60 * compareTime(s, e, 1) + compareTime(s, e, 2) = (e.at - s.at) \div 60
            /\ \A type \in 1 .. 2 : compareTime(e, s, type) = -compareTime(s, e, type)

\* What the server does with dates hangs together: whether an operation is given
\* a text or a date, what it adds, counts, sorts and writes it finds again, across
\* leap days, ends of months and of years.
DatesAgree ==
    /\ OverloadsAgree /\ TextsReadBack
    /\ CountsWhatWasAdded /\ HoursAndMinutes
    /\ SortsStably /\ WeekEncloses

-----------------------------------------------------------------------------
(* Request parameters                                                       *)

Url == <<"/ws">> \o query

\* The query is a list of name=value, all four parts there and no other mark.
Ends(i) == i > Len(query) \/ query[i] = "&"
WellFormed ==
    /\ query # <<>> /\ query[1] = "?"
    /\ \A i \in 2 .. Len(query) : query[i] # "?"
    /\ ~Ends(2)
    /\ \A i \in 1 .. Len(query) :
          query[i] \in {"?", "&"} =>
              i + 3 <= Len(query) /\ {query[i + 1], query[i + 3]} \subseteq {"userId", "ann"}
              /\ query[i + 2] = "=" /\ Ends(i + 4)

\* The user id of a well-formed request is the value its last userId has, and is
\* missing if there is none.
LastUserIdRead ==
    WellFormed =>
        LET at == {i \in 2 .. Len(query) : query[i] = "userId" /\ ~Ends(i + 1)}
        IN  /\ at = {} => <<"userId">> \notin DOMAIN urlSplit(Url)
            /\ \A i \in at : (\A j \in at : j <= i) =>
                   urlSplit(Url)[<<"userId">>] = <<query[i + 2]>>

\* Whatever marks a request is made of, it never yields a user id that does not
\* stand behind "userId=" in it, but for an empty one.
NoStrayUserId ==
    LET params == urlSplit(Url) IN
    ~Throws(Url) /\ <<"userId">> \in DOMAIN params =>
        \E i \in DOMAIN query :
            /\ query[i] = "userId"
            /\ \/ params[<<"userId">>] = <<>>
               \/ /\ i < Len(query) /\ query[i + 1] = "="
                  /\ \E k \in i + 2 .. Len(query) :
                        params[<<"userId">>] = SubSeq(query, i + 2, k)

\* The connection is registered under the user id its request was made with: the
\* last one of a well-formed request, and in any other one that is written there.
UserIdRead == LastUserIdRead /\ NoStrayUserId
=============================================================================
