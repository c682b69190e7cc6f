------------------------------ MODULE Calendar ------------------------------
(***************************************************************************)
(* The weeks, months and terms of the reports: which stretch of time an    *)
(* answer must come in for a column of a page to count it.                 *)
(*                                                                         *)
(* Time is counted in hours and a day is 24 of them; day 0 is a Monday, as *)
(* is every multiple of 7.  A range is a pair of hours, both counted, as   *)
(* by date__range.  Months are numbered through the years, January of the  *)
(* first year being 1.  Loops that step by a week or a month are sequences *)
(* in closed form.                                                         *)
(***************************************************************************)
EXTENDS Integers, Sequences

CONSTANTS
  FirstOf,   \* the first day of every month
  TERMS,     \* settings: the days on which the terms begin
  TERM_ENDS  \* settings: the days on which they end

ASSUME CalendarAssumption ==
  /\ DOMAIN FirstOf \subseteq Int
  /\ \A m \in DOMAIN FirstOf : FirstOf[m] \in Int
  /\ \A m, n \in DOMAIN FirstOf : m < n => FirstOf[m] < FirstOf[n]
  /\ TERMS \in [1..3 -> Int] /\ TERM_ENDS \in [1..3 -> Int]

\* A term is over, by its 12 weeks, before the next begins.
ASSUME TermsApart == TERMS[1] + 84 < TERMS[2] /\ TERMS[2] + 84 < TERMS[3]

Fails == -1   \* the view raises an exception
None  == -2

At(day, hour) == 24 * day + hour
Day(t)        == t \div 24
Hour(t)       == t % 24
Weekday(day)  == day % 7   \* Monday is 0, as in Python
THURSDAY      == 3

\* Terms begin on a Monday; the first week of one that began on a Thursday would
\* be none of those to choose from in a later term.
ASSUME TermsBeginMidweek == \A k \in 1..3 : Weekday(TERMS[k]) # THURSDAY

-----------------------------------------------------------------------------
\* Bug: the week ends on the day that the next begins.
BugEighthDay(thursday) == <<At(thursday - 7, 8), At(thursday, 19)>>

\* reports.py: weeks from Thursday, 8:00, to Wednesday, 19:00.
set_thur_wed_range(thursday) == <<At(thursday - 7, 8), At(thursday - 1, 19)>>

\* The Thursday after the day, given to a function that takes the one before.
get_day_range(day) ==
  LET w == Weekday(day)
  IN set_thur_wed_range(IF w < THURSDAY THEN day + THURSDAY - w ELSE day + THURSDAY - w + 7)

CurrentWeek(now) == get_day_range(Day(now))

\* Bug: the hour is not cleaned, and the week ends at the hour of the request.
BugHour(now, depth) ==
  [i \in 1..depth |-> LET w == get_day_range(Day(now) - 7 * (i - 1)) IN <<w[1], At(Day(w[2]), Hour(now))>>]

\* The newest first.  Cleaning the hour leaves the day, and get_weeks differs
\* in the name of its argument only.
get_week_date(now, depth) == [i \in 1..depth |-> get_day_range(Day(now) - 7 * (i - 1))]

\* utils.py: from midnight of the latest Thursday to the Wednesday after it, at
\* the time of day of t.
previous_calendar_week(t) ==
  LET thursday == Day(t) - ((Weekday(Day(t)) - THURSDAY) % 7)
  IN <<At(thursday, 0), At(thursday + 6, Hour(t))>>

\* Bug: the week that has begun is not counted.
BugWholeWeeks(reference, day) == IF reference > day THEN 0 ELSE (day - reference) \div 7

\* The weeks begun since the reference date: 1 on the day itself.
get_week_count(reference, day) == IF reference > day THEN 0 ELSE ((day - reference) \div 7) + 1

\* absenteeism_view_helper.py: the last week is 7 days, and those before it end
\* a day before the next begins.  from and to are hours.
get_date_range(from, to) ==
  LET back(k) == to - 7 * 24 * k
      n       == IF to - from <= 7 * 24 THEN 1 ELSE ((to - from - 1) \div (7 * 24)) + 1
  IN [i \in 1..n |-> IF i = 1 THEN <<back(1), to>> ELSE <<back(i - 1) - 8 * 24, back(i - 1) - 24>>]

\* views.py: the weeks of a term for a spreadsheet, oldest first.
date_bunches(k) ==
  LET first == get_day_range(TERMS[k])[1]
      more  == (At(TERM_ENDS[k], 0) - first) \div (7 * 24)
  IN [i \in 1..(more + 1) |-> get_day_range(Day(first) + 7 * (i - 1))]

-----------------------------------------------------------------------------
\* The month of each day: the last that begins by it.
MonthOf ==
  LET days == UNION {FirstOf[m]..(FirstOf[m + 1] - 1) : m \in {x \in DOMAIN FirstOf : x + 1 \in DOMAIN FirstOf}}
  IN [day \in days |-> CHOOSE m \in DOMAIN FirstOf :
                         FirstOf[m] <= day /\ \A x \in DOMAIN FirstOf : x > m => FirstOf[x] > day]

LastOf(m) == FirstOf[m + 1] - 1
MonthNumber(m) == ((m - 1) % 12) + 1

\* reports.py: the months up to the day's, the newest first.
get_month_day_range(day, depth) ==
  [i \in 1..depth |-> LET m == MonthOf[day] - i + 1 IN <<At(FirstOf[m], 8), At(LastOf(m), 19)>>]

\* The same day i months on, or the last of the month, from one to the next.
InMonths(day, i) ==
  LET m == MonthOf[day]
      short == {LastOf(m + j) - FirstOf[m + j] : j \in 0..i} \cup {day - FirstOf[m]}
  IN FirstOf[m + i] + (CHOOSE x \in short : \A y \in short : x <= y)

\* utils.py: from start to end, cut at the ends of the months.  The month of the
\* last step is whole, even if end is in the middle of it.
get_months(start, end) ==
  LET m    == MonthOf[Day(start)]
      step(i) == At(InMonths(Day(start), i), Hour(start))
      n    == CHOOSE i \in 0..13 : step(i) >= end /\ \A j \in 0..(i - 1) : step(j) < end
      from(i) == IF i = 0 THEN start ELSE At(FirstOf[m + i], 0)
  IN [i \in 1..(n + 1) |-> <<from(i - 1), IF i <= n THEN At(LastOf(m + i - 1), 23) ELSE end>>]

\* views.py and view_helper.py: what a slider set from one day to another is cut
\* into: a week for every Thursday, or pairs of months.  The months that it has
\* are told by their numbers, whatever the year.
Thursdays(from, to) ==
  LET first == from + ((THURSDAY - Weekday(from)) % 7)
  IN [i \in 1..(IF first > to THEN 0 ELSE ((to - first) \div 7) + 1) |-> first + 7 * (i - 1)]

InWeeks(from, to) ==
  LET a == MonthNumber(MonthOf[from])
      b == MonthNumber(MonthOf[to])
  IN a - b \in -2..2

split_in_weeks(from, to) ==
  [i \in DOMAIN Thursdays(from, to) |-> previous_calendar_week(At(Thursdays(from, to)[i], 0))]

split_in_months(from, to) ==
  LET m == MonthOf[from]
      n == CHOOSE i \in 0..13 : InMonths(from, i) > to /\ \A j \in 0..(i - 1) : InMonths(from, j) <= to
  IN [i \in 1..n |-> <<At(FirstOf[m + i - 1], 0), At(LastOf(m + i), 23)>>]

-----------------------------------------------------------------------------
\* Bug: the 12th week is out of the term.
BugTerm(k, t) == At(TERMS[k], 0) <= t /\ t <= At(TERMS[k] + 7 * 11, 0)

\* curriculum_progress_helper.py: a term is 12 weeks long.
in_term(k, t) == At(TERMS[k], 0) <= t /\ t <= At(TERMS[k] + 7 * 12, 0)

find_term_start(t) ==
  IF \E k \in DOMAIN TERMS : in_term(k, t)
  THEN CHOOSE k \in DOMAIN TERMS : in_term(k, t) /\ \A j \in 1..(k - 1) : ~in_term(j, t)
  ELSE None

\* The theme for each week, in tenths: 1.1, 1.2, 1.3, 2.1 and so on to 4.3.
target(week) == 10 * (((week - 1) \div 3) + 1) + ((week - 1) % 3) + 1

\* Four themes for each term.
add_offset_according_to_term_number(value, k) == value + 40 * (k - 1)

\* There is no term to take the date of outside the terms, and no theme to add
\* the offset to on the last day of 12 weeks.
get_target_value(t) ==
  LET k == find_term_start(t)
      w == get_week_count(TERMS[k], Day(t))
  IN CASE k = None        -> Fails
       [] k # None /\ w <= 12 -> add_offset_according_to_term_number(target(w), k)
       [] OTHER           -> IF k = 1 THEN None ELSE Fails

\* views.py: the weeks to choose from while term k is the current one: 12 weeks
\* of each term before it, and those of its own up to now.
TermWeeks(now, j, k) ==
  IF j < k THEN get_week_date(At(TERMS[j] + 7 * 12, 0), 12)
           ELSE get_week_date(CurrentWeek(now)[2], get_week_count(TERMS[k], Day(CurrentWeek(now)[1])))

\* Without a week of its own, the current term adds the two ends of a range
\* in place of weeks, and formatting those raises: no list, which <<>> stands for.
get_weeks_in_term(now, k) ==
  LET past(j) == IF j < k THEN TermWeeks(now, j, k) ELSE <<>>
      own     == TermWeeks(now, k, k)
  IN IF own = <<>> THEN <<>> ELSE past(1) \o past(2) \o own
=============================================================================
