-------------------------- MODULE ReportingProofs --------------------------
(***************************************************************************)
(* Whatever the calendar, the terms and the moments: pages by week agree   *)
(* on every week that is over.  A week's range is told by its Thursday,    *)
(* and what comes in later is beyond the range.                            *)
(***************************************************************************)
EXTENDS Reporting, FiniteSetTheorems, SequenceTheorems, WellFoundedInduction, TLAPS

\* A range is the whole working week of its first day.
IsWeek(r) ==
  /\ r \in Int \X Int
  /\ r = <<At(Day(r[1]), 8), At(Day(r[1]) + 6, 19)>>

\* A page by week has the weeks of its headings, and what it says of a week that
\* was over when it was served is true for ever.
PageOK ==
  ByWeek(page) =>
    /\ page.heads = page.ranges /\ DOMAIN page.sums = DOMAIN page.ranges
    /\ \A i \in DOMAIN page.ranges :
         /\ IsWeek(page.ranges[i])
         /\ page.ranges[i][2] < page.at => page.sums[i] = Between(page.ranges[i])

TimeOK ==
  /\ load \in Workloads
  /\ now \in Int /\ page.at \in Int /\ page.at <= now
  /\ worker.term \in DOMAIN TERMS

Inv == TimeOK /\ PageOK

-----------------------------------------------------------------------------
LEMMA DayInt == ASSUME NEW t \in Int PROVE Day(t) \in Int
  BY DEF Day

\* A working week is told by the Thursday that it is made of.
LEMMA WeekOfThursday ==
  ASSUME NEW thursday \in Int PROVE IsWeek(set_thur_wed_range(thursday))
<1>1. (24 * (thursday - 7) + 8) \div 24 = thursday - 7
  OBVIOUS
<1> QED
  BY <1>1 DEF IsWeek, set_thur_wed_range, At, Day

LEMMA DayRange == ASSUME NEW day \in Int PROVE IsWeek(get_day_range(day))
<1>1. Weekday(day) \in Int
  BY DEF Weekday
<1> QED
  BY <1>1, WeekOfThursday DEF get_day_range, THURSDAY

LEMMA WeekDates ==
  ASSUME NEW t \in Int, NEW depth \in Int, NEW i \in 1..depth
  PROVE  IsWeek(get_week_date(t, depth)[i])
  BY DayInt, DayRange DEF get_week_date

LEMMA Bunches ==
  ASSUME NEW k \in DOMAIN TERMS, NEW i \in DOMAIN date_bunches(k)
  PROVE  IsWeek(date_bunches(k)[i])
<1>1. TERMS[k] \in Int /\ TERM_ENDS[k] \in Int
  BY CalendarAssumption
<1> DEFINE first == get_day_range(TERMS[k])[1]
           more  == (At(TERM_ENDS[k], 0) - first) \div (7 * 24)
<1>2. first \in Int
  BY <1>1, DayRange DEF IsWeek
<1>3. more \in Int
  BY <1>1, <1>2 DEF At
<1>4. date_bunches(k) = [j \in 1..(more + 1) |-> get_day_range(Day(first) + 7 * (j - 1))]
  BY DEF date_bunches
<1> HIDE DEF first, more
<1>5. i \in 1..(more + 1) /\ i \in Int
  BY <1>3, <1>4
<1>6. Day(first) + 7 * (i - 1) \in Int
  BY <1>2, <1>5, DayInt
<1> QED
  BY <1>4, <1>5, <1>6, DayRange

-----------------------------------------------------------------------------
LEMMA InitInv == Init => Inv
<1> SUFFICES ASSUME Init PROVE Inv
  OBVIOUS
<1>1. load \in Workloads /\ now \in Int /\ page.at = now /\ page.name = "none"
  BY ReportingAssumption DEF Init, Columns
<1>2. worker.term \in DOMAIN TERMS
  BY ReportingAssumption DEF Init, Import
<1> QED
  BY <1>1, <1>2 DEF Inv, TimeOK, PageOK, ByWeek

\* A page that is served is one of weeks, or not by week.
LEMMA ServedPage ==
  ASSUME Inv, NEW name, NEW heads, NEW ranges, NEW goal,
         Serve(name, heads, ranges, goal),
         \/ name \notin {"weekly", "curriculum", "system"}
         \/ heads = ranges /\ \A i \in DOMAIN ranges : IsWeek(ranges[i])
  PROVE  Inv' /\ (ByWeek(page') => \A i \in DOMAIN page'.ranges : page'.sums[i] = Between(page'.ranges[i]))
<1>1. /\ page'.name = name /\ page'.at = now /\ page'.heads = heads /\ page'.ranges = ranges
      /\ page'.sums = [i \in DOMAIN ranges |-> Between(ranges[i])]
  BY DEF Serve, Columns
<1>2. UNCHANGED <<load, now, answers, worker>>
  BY DEF Serve
<1>3. TimeOK'
  BY <1>1, <1>2 DEF Inv, TimeOK
<1>4. \A r : Between(r)' = Between(r)
  BY <1>2 DEF Between
<1>5. PageOK'
  BY <1>1, <1>4 DEF PageOK, ByWeek
<1> QED
  BY <1>1, <1>3, <1>5 DEF Inv, ByWeek

\* Every step leaves the page as it is, or serves one.
LEMMA PageStep ==
  ASSUME Inv, [Next]_vars
  PROVE  /\ Inv'
         /\ \/ page' = page
            \/ ByWeek(page') => \A i \in DOMAIN page'.ranges : page'.sums[i] = Between(page'.ranges[i])
<1>1. load \in Workloads /\ now \in Int /\ page.at \in Int /\ page.at <= now /\ worker.term \in DOMAIN TERMS
  BY DEF Inv, TimeOK
<1>2. CASE dash_report_api
  <2>1. \A i \in DOMAIN get_week_date(now, 4) : IsWeek(get_week_date(now, 4)[i])
    <3>1. DOMAIN get_week_date(now, 4) = 1..4
      BY DEF get_week_date
    <3>2. \A i \in 1..4 : IsWeek(get_week_date(now, 4)[i])
      BY <1>1, WeekDates
    <3> QED
      BY <3>1, <3>2
  <2> QED
    BY <1>2, <2>1, ServedPage DEF dash_report_api
<1>3. CASE curriculum_progress
  <2>1. \A i \in DOMAIN <<CurrentWeek(now)>> : IsWeek(<<CurrentWeek(now)>>[i])
    BY <1>1, DayInt, DayRange DEF CurrentWeek
  <2> QED
    BY <1>3, <2>1, ServedPage DEF curriculum_progress
<1>4. CASE system_report
  <2>1. \A i \in DOMAIN date_bunches(worker.term) : IsWeek(date_bunches(worker.term)[i])
    BY <1>1, Bunches
  <2> QED
    BY <1>4, <2>1, ServedPage DEF system_report
<1>5. CASE curriculum_chosen \/ view_stats \/ time_range_head_teachers \/ violence_details_dash
           \/ detail_attd \/ detail_water_view
  <2>1. PICK name \in {"chosen", "slider", "months", "violence", "detail", "water"} :
          \E heads, ranges, goal : Serve(name, heads, ranges, goal)
    BY <1>5 DEF curriculum_chosen, view_stats, time_range_head_teachers, violence_details_dash,
                detail_attd, detail_water_view
  <2> QED
    BY <2>1, ServedPage
<1>6. CASE new_comment \/ UNCHANGED vars
  <2>1. UNCHANGED <<load, now, answers, worker, page>>
    BY <1>6 DEF new_comment, vars
  <2>2. \A r : Between(r)' = Between(r)
    BY <2>1 DEF Between
  <2> QED
    BY <2>1, <2>2 DEF Inv, TimeOK, PageOK, ByWeek
<1>7. CASE Answer
  <2>1. UNCHANGED <<load, now, worker, page>> /\ answers' = answers \cup {now}
    BY <1>7 DEF Answer
  <2>2. ASSUME NEW r \in Int \X Int, r[2] < page.at PROVE Between(r)' = Between(r)
    <3>1. ~ (now <= r[2])
      BY <1>1, <2>2
    <3> QED
      BY <2>1, <3>1 DEF Between
  <2> QED
    BY <2>1, <2>2 DEF Inv, TimeOK, PageOK, ByWeek, IsWeek
<1>8. CASE Start
  <2>1. UNCHANGED <<load, now, answers, page>> /\ worker'.term \in DOMAIN TERMS
    BY <1>1, <1>8, ReportingAssumption DEF Start, Import
  <2>2. \A r : Between(r)' = Between(r)
    BY <2>1 DEF Between
  <2> QED
    BY <2>1, <2>2 DEF Inv, TimeOK, PageOK, ByWeek
<1>9. CASE Tick
  <2>1. UNCHANGED <<load, answers, worker, page>> /\ now' \in Int /\ now < now'
    BY <1>1, <1>9, ReportingAssumption DEF Tick
  <2>2. \A r : Between(r)' = Between(r)
    BY <2>1 DEF Between
  <2>3. page.at <= now'
    BY <1>1, <2>1
  <2> QED
    BY <2>1, <2>2, <2>3 DEF Inv, TimeOK, PageOK, ByWeek
<1> QED
  BY <1>2, <1>3, <1>4, <1>5, <1>6, <1>7, <1>8, <1>9 DEF Next

\* For any calendar, terms, settings and moments, and any number of answers, two
\* pages by week agree on every week that was over when the first was served
\* (get_week_date, get_day_range and date_bunches).
THEOREM ClosedWeeksStay == Spec => WeeksAgree
<1>1. Spec => []Inv
  <2>1. Inv /\ [Next]_vars => Inv'
    BY PageStep
  <2> QED
    BY InitInv, <2>1, PTL DEF Spec
<1> DEFINE Agree ==
      ByWeek(page) /\ ByWeek(page') =>
        \A i \in DOMAIN page.heads, j \in DOMAIN page'.heads :
          Day(page.heads[i][1]) = Day(page'.heads[j][1]) /\ Over(page.heads[i], page.at)
          => page.sums[i] = page'.sums[j]
<1>2. Inv /\ [Next]_vars => Agree
  <2> SUFFICES ASSUME Inv, [Next]_vars, ByWeek(page), ByWeek(page'),
                      NEW i \in DOMAIN page.heads, NEW j \in DOMAIN page'.heads,
                      Day(page.heads[i][1]) = Day(page'.heads[j][1]),
                      Over(page.heads[i], page.at)
               PROVE  page.sums[i] = page'.sums[j]
    OBVIOUS
  <2>1. PageOK /\ PageOK'
    BY PageStep DEF Inv
  <2>2. page.heads = page.ranges /\ page'.heads = page'.ranges
    BY <2>1 DEF PageOK
  <2>3. IsWeek(page.ranges[i]) /\ IsWeek(page'.ranges[j])
    BY <2>1, <2>2 DEF PageOK
  <2>4. page.ranges[i] = page'.ranges[j]
    BY <2>2, <2>3 DEF IsWeek
  <2>5. page.ranges[i][2] < page.at
    BY <2>2, <2>3 DEF IsWeek, Over
  <2>6. page.sums[i] = Between(page.ranges[i])
    BY <2>1, <2>2, <2>5 DEF PageOK
  <2>7. CASE page' = page
    BY <2>1, <2>2, <2>4, <2>5, <2>6, <2>7 DEF PageOK
  <2>8. CASE \A x \in DOMAIN page'.ranges : page'.sums[x] = Between(page'.ranges[x])
    BY <2>2, <2>4, <2>6, <2>8
  <2> QED
    BY <2>7, <2>8, PageStep
<1> QED
  BY <1>1, <1>2, PTL DEF Spec, WeeksAgree

-----------------------------------------------------------------------------
\* The day is in the first 12 weeks of term k.
InWeeksOf(k, d) == TERMS[k] <= d /\ d <= TERMS[k] + 83
Goal(k, d)      == 40 * (k - 1) + target(((d - TERMS[k]) \div 7) + 1)

\* What the goal g of a week that begins on day d must be.
IsGoal(d, g) ==
  /\ g \in Int
  /\ \A k \in 1..3 : InWeeksOf(k, d) => g = Goal(k, d)
  /\ g > 0 => \E k \in 1..3 : InWeeksOf(k, d)

LEMMA TermInts == \A k \in 1..3 : TERMS[k] \in Int
  BY CalendarAssumption

\* The goals of the 12 weeks of a term, in their order.
LEMMA Targets ==
  ASSUME NEW v \in 1..12, NEW w \in 1..12
  PROVE  /\ target(v) \in 11..43
         /\ v <= w => target(v) <= target(w)
<1> QED
  BY DEF target

\* The term of a moment is the first that it is in.
LEMMA TermStart ==
  ASSUME NEW t \in Int
  PROVE  \/ find_term_start(t) = None /\ \A k \in 1..3 : ~in_term(k, t)
         \/ /\ find_term_start(t) \in 1..3 /\ in_term(find_term_start(t), t)
            /\ \A j \in 1..(find_term_start(t) - 1) : ~in_term(j, t)
<1>1. DOMAIN TERMS = 1..3
  BY CalendarAssumption
<1>2. CASE \A k \in 1..3 : ~in_term(k, t)
  BY <1>1, <1>2 DEF find_term_start
<1>3. CASE \E k \in 1..3 : in_term(k, t)
  <2>1. \E k \in 1..3 : in_term(k, t) /\ \A j \in 1..(k - 1) : ~in_term(j, t)
    <3>1. CASE in_term(1, t)
      BY <3>1
    <3>2. CASE ~in_term(1, t) /\ in_term(2, t)
      BY <3>2
    <3>3. CASE ~in_term(1, t) /\ ~in_term(2, t)
      BY <3>3, <1>3
    <3> QED
      BY <3>1, <3>2, <3>3
  <2> QED
    BY <1>1, <1>3, <2>1 DEF find_term_start
<1> QED
  BY <1>2, <1>3

\* A week has a goal if it begins in the 12 weeks of a term, and only then.
LEMMA GoalOfDay ==
  ASSUME NEW t \in Int
  PROVE  IsGoal(Day(t), get_target_value(t))
<1> DEFINE start == find_term_start(t)
           week  == get_week_count(TERMS[start], Day(t))
<1>1. get_target_value(t) = CASE start = None -> Fails
                              [] start # None /\ week <= 12 -> add_offset_according_to_term_number(target(week), start)
                              [] OTHER -> IF start = 1 THEN None ELSE Fails
  BY DEF get_target_value
<1>2. \A k \in 1..3 : InWeeksOf(k, Day(t)) => in_term(k, t)
  BY TermInts DEF InWeeksOf, in_term, At, Day
<1>3. CASE start = None
  <2>1. get_target_value(t) = Fails
    BY <1>1, <1>3
  <2>2. \A k \in 1..3 : ~InWeeksOf(k, Day(t))
    BY <1>2, <1>3, TermStart DEF None
  <2> QED
    BY <2>1, <2>2 DEF Fails, IsGoal
<1>4. CASE start # None
  <2>1. start \in 1..3 /\ in_term(start, t) /\ \A j \in 1..(start - 1) : ~in_term(j, t)
    BY <1>4, TermStart
  <2>2. TERMS[start] \in Int /\ Day(t) \in Int
    BY <2>1, TermInts, DayInt
  <2>3. TERMS[start] <= Day(t) /\ Day(t) <= TERMS[start] + 84
    BY <2>1, <2>2 DEF in_term, At, Day
  <2>4. week = ((Day(t) - TERMS[start]) \div 7) + 1
    BY <2>2, <2>3 DEF get_week_count
  <2>5. \A k \in 1..3 : InWeeksOf(k, Day(t)) => k = start
    BY <1>2, <2>1, <2>2, <2>3, TermInts, TermsApart DEF InWeeksOf
  <2>6. CASE Day(t) <= TERMS[start] + 83
    <3>1. week \in 1..12
      BY <2>2, <2>3, <2>4, <2>6
    <3>2. get_target_value(t) = Goal(start, Day(t))
      BY <1>1, <1>4, <2>1, <2>4, <3>1, Targets DEF Goal, add_offset_according_to_term_number
    <3>3. Goal(start, Day(t)) \in Int
      BY <2>1, <2>4, <3>1, Targets DEF Goal
    <3> QED
      BY <2>1, <2>3, <2>5, <2>6, <3>2, <3>3 DEF InWeeksOf, IsGoal
  <2>7. CASE Day(t) = TERMS[start] + 84
    <3>1. week = 13
      BY <2>2, <2>4, <2>7
    <3>2. get_target_value(t) \in {None, Fails}
      BY <1>1, <1>4, <3>1
    <3>3. \A k \in 1..3 : ~InWeeksOf(k, Day(t))
      BY <2>2, <2>5, <2>7 DEF InWeeksOf
    <3> QED
      BY <3>2, <3>3 DEF None, Fails, IsGoal
  <2> QED
    BY <2>2, <2>3, <2>6, <2>7
<1> QED
  BY <1>3, <1>4

\* A later week of the terms has no earlier goal.
LEMMA GoalsInOrder ==
  ASSUME NEW d \in Int, NEW e \in Int, d <= e, NEW k \in 1..3, NEW j \in 1..3,
         InWeeksOf(k, d), InWeeksOf(j, e)
  PROVE  Goal(k, d) <= Goal(j, e)
<1> DEFINE v == ((d - TERMS[k]) \div 7) + 1
           w == ((e - TERMS[j]) \div 7) + 1
<1>1. TERMS[k] \in Int /\ TERMS[j] \in Int
  BY TermInts
<1>2. v \in 1..12 /\ w \in 1..12
  BY <1>1 DEF InWeeksOf
<1>3. k <= j
  BY <1>1, TermInts, TermsApart DEF InWeeksOf
<1>4. k = j => v <= w
  BY <1>1
<1> HIDE DEF v, w
<1>5. target(v) \in 11..43 /\ target(w) \in 11..43 /\ (v <= w => target(v) <= target(w))
  BY <1>2, Targets
<1>6. Goal(k, d) = 40 * (k - 1) + target(v) /\ Goal(j, e) = 40 * (j - 1) + target(w)
  BY DEF Goal, v, w
<1>7. CASE k = j
  BY <1>4, <1>5, <1>6, <1>7
<1>8. CASE k < j
  BY <1>5, <1>6, <1>8
<1> QED
  BY <1>3, <1>7, <1>8

-----------------------------------------------------------------------------
ChoicesOK == worker.choices \in Seq(Int \X Int)

GoalOK == GoalPage(page) => page.heads[1][1] \in Int /\ IsGoal(Day(page.heads[1][1]), page.target)

GoalInv == TimeOK /\ ChoicesOK /\ GoalOK

LEMMA WeeksCounted ==
  ASSUME NEW reference \in Int, NEW day \in Int PROVE get_week_count(reference, day) \in Nat
BY DEF get_week_count

LEMMA WeekSeq ==
  ASSUME NEW t \in Int, NEW depth \in Nat PROVE get_week_date(t, depth) \in Seq(Int \X Int)
<1>1. \A i \in 1..depth : get_week_date(t, depth)[i] \in Int \X Int
  BY WeekDates DEF IsWeek
<1>2. get_week_date(t, depth) = [i \in 1..depth |-> get_week_date(t, depth)[i]]
  BY DEF get_week_date
<1> QED
  BY <1>1, <1>2

LEMMA Choices ==
  ASSUME NEW t \in Int, NEW k \in 1..3 PROVE get_weeks_in_term(t, k) \in Seq(Int \X Int)
<1>1. CurrentWeek(t)[1] \in Int /\ CurrentWeek(t)[2] \in Int
  BY DayInt, DayRange DEF CurrentWeek, IsWeek
<1>2. ASSUME NEW j \in 1..3 PROVE TermWeeks(t, j, k) \in Seq(Int \X Int)
  <2>1. At(TERMS[j] + 7 * 12, 0) \in Int
    BY TermInts DEF At
  <2>2. get_week_count(TERMS[k], Day(CurrentWeek(t)[1])) \in Nat
    BY <1>1, TermInts, DayInt, WeeksCounted
  <2> QED
    BY <1>1, <2>1, <2>2, WeekSeq DEF TermWeeks
<1> QED
  BY <1>2 DEF get_weeks_in_term

LEMMA InitGoal == Init => GoalInv
<1> SUFFICES ASSUME Init PROVE GoalInv
  OBVIOUS
<1>1. TimeOK /\ page.name = "none"
  BY InitInv DEF Inv, Init, Columns
<1>2. worker.term \in 1..3 /\ worker.choices = get_weeks_in_term(now, worker.term)
  BY <1>1, CalendarAssumption DEF Init, Import, TimeOK
<1>3. worker.choices \in Seq(Int \X Int)
  BY <1>1, <1>2, Choices DEF TimeOK
<1> QED
  BY <1>1, <1>3 DEF GoalInv, ChoicesOK, GoalOK, GoalPage

LEMMA GoalStep ==
  ASSUME GoalInv, Inv', [Next]_vars PROVE GoalInv'
<1>1. TimeOK /\ TimeOK'
  BY DEF GoalInv, Inv
<1>2. CASE curriculum_progress
  <2>1. PICK w : w = CurrentWeek(now) /\ Serve("curriculum", <<w>>, <<w>>, get_target_value(w[1]))
    BY <1>2 DEF curriculum_progress
  <2>2. w[1] \in Int
    BY <1>1, <2>1, DayInt, DayRange DEF CurrentWeek, IsWeek, TimeOK
  <2>3. page'.heads[1][1] = w[1] /\ page'.target = get_target_value(w[1]) /\ worker' = worker
    BY <2>1 DEF Serve, Columns
  <2> QED
    BY <1>1, <2>2, <2>3, GoalOfDay DEF GoalInv, ChoicesOK, GoalOK
<1>3. CASE curriculum_chosen
  <2>1. PICK i \in DOMAIN worker.choices :
          LET w == format_to_datetime_object(worker.choices[i])
          IN Serve("chosen", <<worker.choices[i]>>, <<w>>, get_target_value(w[1]))
    BY <1>3 DEF curriculum_chosen
  <2>2. worker.choices[i][1] \in Int
    BY DEF GoalInv, ChoicesOK
  <2>3. format_to_datetime_object(worker.choices[i])[1] = At(Day(worker.choices[i][1]), 0)
    BY DEF format_to_datetime_object
  <2>4. /\ At(Day(worker.choices[i][1]), 0) \in Int
        /\ Day(At(Day(worker.choices[i][1]), 0)) = Day(worker.choices[i][1])
    BY <2>2 DEF At, Day
  <2>5. /\ page'.heads[1][1] = worker.choices[i][1]
        /\ page'.target = get_target_value(At(Day(worker.choices[i][1]), 0))
        /\ worker' = worker
    BY <2>1, <2>3 DEF Serve, Columns
  <2> QED
    BY <1>1, <2>2, <2>4, <2>5, GoalOfDay DEF GoalInv, ChoicesOK, GoalOK
<1>4. CASE \/ dash_report_api \/ view_stats \/ time_range_head_teachers \/ violence_details_dash
           \/ detail_attd \/ detail_water_view \/ system_report
  <2>1. PICK name \in {"weekly", "slider", "months", "violence", "detail", "water", "system"} :
          \E heads, ranges, goal : Serve(name, heads, ranges, goal)
    BY <1>4 DEF dash_report_api, view_stats, time_range_head_teachers, violence_details_dash,
                detail_attd, detail_water_view, system_report
  <2>2. page'.name = name /\ worker' = worker
    BY <2>1 DEF Serve, Columns
  <2> QED
    BY <1>1, <2>2 DEF GoalInv, ChoicesOK, GoalOK, GoalPage
<1>5. CASE Start
  <2>1. PICK k \in load.settings : worker' = Import(now, k)
    BY <1>5 DEF Start
  <2>2. now \in Int /\ k \in 1..3
    BY <1>1, <2>1, CalendarAssumption, ReportingAssumption DEF TimeOK
  <2>3. ChoicesOK'
    BY <2>1, <2>2, Choices DEF ChoicesOK, Import
  <2>4. page' = page
    BY <1>5 DEF Start
  <2> QED
    BY <1>1, <2>3, <2>4 DEF GoalInv, GoalOK, GoalPage
<1>6. CASE new_comment \/ Answer \/ Tick \/ UNCHANGED vars
  <2>1. worker' = worker /\ page' = page
    BY <1>6 DEF new_comment, Answer, Tick, vars
  <2> QED
    BY <1>1, <2>1 DEF GoalInv, ChoicesOK, GoalOK, GoalPage
<1> QED
  BY <1>2, <1>3, <1>4, <1>5, <1>6 DEF Next

LEMMA GoalInvariant == Spec => []GoalInv
<1>1. Inv /\ GoalInv /\ [Next]_vars => (Inv /\ GoalInv)'
  BY PageStep, GoalStep
<1> QED
  BY InitInv, InitGoal, <1>1, PTL DEF Spec

\* For any calendar, and terms that begin more than 12 weeks apart, every week that begins
\* in the first 12 of a term has a goal, asked for while it is on or chosen later
\* (in_term, get_week_count, get_target_value).
THEOREM EveryTermWeekHasItsGoal == Spec => []TermWeeksHaveGoals
<1>1. GoalInv => TermWeeksHaveGoals
  <2> SUFFICES ASSUME GoalInv, GoalPage(page),
                      NEW k \in DOMAIN TERMS, Day(page.heads[1][1]) \in TERMS[k]..(TERMS[k] + 83)
               PROVE  page.target > 0
    BY DEF TermWeeksHaveGoals
  <2> DEFINE d == Day(page.heads[1][1])
  <2>1. k \in 1..3 /\ TERMS[k] \in Int
    BY CalendarAssumption
  <2>2. d \in Int /\ IsGoal(d, page.target)
    BY DayInt DEF GoalInv, GoalOK
  <2>3. InWeeksOf(k, d) /\ ((d - TERMS[k]) \div 7) + 1 \in 1..12
    BY <2>1, <2>2 DEF InWeeksOf
  <2>4. Goal(k, d) > 0
    BY <2>1, <2>3, Targets DEF Goal
  <2> QED
    BY <2>1, <2>2, <2>3, <2>4 DEF IsGoal
<1> QED
  BY <1>1, GoalInvariant, PTL

\* For any calendar, and terms that begin more than 12 weeks apart, the goal of a later
\* week is never behind that of an earlier one, whichever page is served first.
THEOREM LaterWeeksHaveLaterGoals == Spec => GoalsGrow
<1> DEFINE Grow ==
      GoalPage(page) /\ GoalPage(page') /\ page.target > 0 /\ page'.target > 0 =>
        /\ page.heads[1][1] <= page'.heads[1][1] => page.target <= page'.target
        /\ page'.heads[1][1] <= page.heads[1][1] => page'.target <= page.target
<1>1. GoalInv /\ GoalInv' => Grow
  <2> SUFFICES ASSUME GoalInv, GoalInv', GoalPage(page), GoalPage(page'),
                      page.target > 0, page'.target > 0
               PROVE  Grow
    OBVIOUS
  <2> DEFINE t == page.heads[1][1]
             u == page'.heads[1][1]
  <2>1. t \in Int /\ u \in Int /\ IsGoal(Day(t), page.target) /\ IsGoal(Day(u), page'.target)
    BY DEF GoalInv, GoalOK, GoalPage
  <2>2. PICK k \in 1..3, j \in 1..3 : InWeeksOf(k, Day(t)) /\ InWeeksOf(j, Day(u))
    BY <2>1 DEF IsGoal
  <2>3. page.target = Goal(k, Day(t)) /\ page'.target = Goal(j, Day(u))
    BY <2>1, <2>2 DEF IsGoal
  <2>4. Day(t) \in Int /\ Day(u) \in Int /\ (t <= u => Day(t) <= Day(u)) /\ (u <= t => Day(u) <= Day(t))
    BY <2>1 DEF Day
  <2> HIDE DEF t, u
  <2>5. t <= u => page.target <= page'.target
    BY <2>2, <2>3, <2>4, GoalsInOrder
  <2>6. u <= t => page'.target <= page.target
    BY <2>2, <2>3, <2>4, GoalsInOrder
  <2> QED
    BY <2>5, <2>6 DEF t, u
<1> QED
  BY <1>1, GoalInvariant, PTL DEF GoalsGrow

-----------------------------------------------------------------------------
\* Months with a first and a last day.
Months == {m \in DOMAIN FirstOf : m + 1 \in DOMAIN FirstOf}

\* A day is in one month, between its first day and that of the next.
LEMMA MonthOfDay ==
  ASSUME NEW m \in Months, NEW d \in FirstOf[m]..(FirstOf[m + 1] - 1)
  PROVE  d \in DOMAIN MonthOf /\ MonthOf[d] = m
<1> DEFINE days == UNION {FirstOf[x]..(FirstOf[x + 1] - 1) : x \in {y \in DOMAIN FirstOf : y + 1 \in DOMAIN FirstOf}}
           Is(x) == x \in DOMAIN FirstOf /\ FirstOf[x] <= d /\ \A y \in DOMAIN FirstOf : y > x => FirstOf[y] > d
<1>1. d \in days
  BY DEF Months
<1>2. MonthOf[d] = CHOOSE x \in DOMAIN FirstOf : FirstOf[x] <= d /\ \A y \in DOMAIN FirstOf : y > x => FirstOf[y] > d
  BY <1>1 DEF MonthOf
<1>3. d \in DOMAIN MonthOf
  BY <1>1 DEF MonthOf
<1>4. m \in Int /\ m \in DOMAIN FirstOf /\ m + 1 \in DOMAIN FirstOf /\ FirstOf[m] \in Int /\ FirstOf[m + 1] \in Int
  BY CalendarAssumption DEF Months
<1>5. Is(m)
  <2>1. FirstOf[m] <= d /\ d < FirstOf[m + 1]
    BY <1>4
  <2>2. ASSUME NEW y \in DOMAIN FirstOf, y > m PROVE FirstOf[y] > d
    <3>1. y \in Int /\ FirstOf[y] \in Int
      BY CalendarAssumption
    <3>2. y = m + 1 \/ m + 1 < y
      BY <1>4, <2>2, <3>1
    <3>3. FirstOf[m + 1] <= FirstOf[y]
      BY <1>4, <3>1, <3>2, CalendarAssumption
    <3> QED
      BY <1>4, <2>1, <3>1, <3>3
  <2> QED
    BY <1>4, <2>1, <2>2
<1>6. ASSUME NEW x \in DOMAIN FirstOf, Is(x) PROVE x = m
  <2>1. x \in Int /\ FirstOf[x] \in Int /\ d \in Int
    BY <1>4, CalendarAssumption
  <2>2. ~ (x < m)
    BY <1>4, <1>6, <2>1
  <2>3. ~ (x > m)
    BY <1>4, <1>5, <1>6, <2>1
  <2> QED
    BY <1>4, <2>1, <2>2, <2>3
<1>7. MonthOf[d] = m
  BY <1>2, <1>4, <1>5, <1>6
<1> QED
  BY <1>3, <1>7

LEMMA InAMonth ==
  ASSUME NEW d \in DOMAIN MonthOf
  PROVE  \E m \in Months : d \in FirstOf[m]..(FirstOf[m + 1] - 1)
BY DEF MonthOf, Months

\* The range of a month is the same for its days, and begins on one of them.
LEMMA MonthRange ==
  ASSUME NEW d \in DOMAIN MonthOf
  PROVE  \E m \in Months : get_month_day_range(d, 1)[1][1] = At(FirstOf[m], 8)
<1>1. PICK m \in Months : d \in FirstOf[m]..(FirstOf[m + 1] - 1)
  BY InAMonth
<1>2. MonthOf[d] = m /\ m \in Int
  BY <1>1, MonthOfDay, CalendarAssumption DEF Months
<1> QED
  BY <1>1, <1>2 DEF get_month_day_range

LEMMA FirstDay ==
  ASSUME NEW m \in Months
  PROVE  get_month_day_range(Day(At(FirstOf[m], 8)), 1)[1][1] = At(FirstOf[m], 8)
<1>1. m \in Int /\ FirstOf[m] \in Int /\ FirstOf[m + 1] \in Int /\ FirstOf[m] < FirstOf[m + 1]
  BY CalendarAssumption DEF Months
<1>2. Day(At(FirstOf[m], 8)) = FirstOf[m]
  BY <1>1 DEF Day, At
<1>3. MonthOf[FirstOf[m]] = m
  BY <1>1, MonthOfDay
<1> QED
  BY <1>1, <1>2, <1>3 DEF get_month_day_range

\* The date of a comment on a month is the first morning of one.
CommentsOK ==
  /\ comments \in Seq([period : {"wk", "mo", "t"}, date : Int])
  /\ \A i \in DOMAIN comments : comments[i].period = "mo" => \E m \in Months : comments[i].date = At(FirstOf[m], 8)

CommentInv == TimeOK /\ now \in load.moments /\ CommentsOK

LEMMA InitComments == Init => CommentInv
<1> SUFFICES ASSUME Init PROVE CommentInv
  OBVIOUS
<1>1. TimeOK
  BY InitInv DEF Inv
<1>2. now \in load.moments /\ comments = <<>>
  BY DEF Init
<1> QED
  BY <1>1, <1>2 DEF CommentInv, CommentsOK

LEMMA CommentStep ==
  ASSUME CommentInv, TimeOK', [Next]_vars PROVE CommentInv'
<1>1. CASE new_comment
  <2>1. PICK period \in {"wk", "mo", "t"}, p \in load.asked :
          comments' = Append(comments, [period |-> period, date |-> report_date(period, At(p[1], 0))])
    BY <1>1 DEF new_comment
  <2>2. load' = load /\ now' = now
    BY <1>1 DEF new_comment
  <2>3. now \in Int /\ Day(now) \in DOMAIN MonthOf
    BY ReportingAssumption DEF CommentInv, TimeOK
  <2>4. p[1] \in Int
    BY ReportingAssumption DEF CommentInv, TimeOK
  <2> DEFINE date == report_date(period, At(p[1], 0))
  <2>5. period = "mo" => \E m \in Months : date = At(FirstOf[m], 8)
    BY <2>3, MonthRange DEF report_date
  <2>6. date \in Int
    <3>1. CASE period = "wk"
      <4>1. get_week_date(now, 2)[1][1] \in Int
        BY <2>3, WeekDates DEF IsWeek
      <4> QED
        BY <3>1, <4>1 DEF report_date
    <3>2. CASE period = "mo"
      BY <3>2, <2>5, CalendarAssumption DEF Months, At
    <3>3. CASE period = "t"
      BY <3>3, <2>4 DEF report_date, At
    <3> QED
      BY <3>1, <3>2, <3>3
  <2> HIDE DEF date
  <2>7. comments \in Seq([period : {"wk", "mo", "t"}, date : Int])
    BY DEF CommentInv, CommentsOK
  <2>8. comments' = Append(comments, [period |-> period, date |-> date])
    BY <2>1 DEF date
  <2>9. comments' \in Seq([period : {"wk", "mo", "t"}, date : Int])
    BY <2>6, <2>7, <2>8
  <2>10. ASSUME NEW i \in DOMAIN comments', comments'[i].period = "mo"
         PROVE  \E m \in Months : comments'[i].date = At(FirstOf[m], 8)
    <3>1. CASE i = Len(comments) + 1
      <4>1. comments'[i] = [period |-> period, date |-> date]
        BY <3>1, <2>7, <2>8
      <4> QED
        BY <4>1, <2>5, <2>10 DEF date
    <3>2. CASE i # Len(comments) + 1
      <4>1. i \in DOMAIN comments /\ comments'[i] = comments[i]
        BY <3>2, <2>7, <2>8
      <4> QED
        BY <4>1, <2>10 DEF CommentInv, CommentsOK
    <3> QED
      BY <3>1, <3>2
  <2> QED
    BY <2>2, <2>9, <2>10 DEF CommentInv, CommentsOK
<1>2. CASE Tick
  <2>1. now' \in load.moments /\ load' = load /\ comments' = comments
    BY <1>2 DEF Tick
  <2> QED
    BY <2>1 DEF CommentInv, CommentsOK
<1>3. CASE \/ dash_report_api \/ curriculum_progress \/ curriculum_chosen \/ view_stats
           \/ time_range_head_teachers \/ violence_details_dash \/ detail_attd \/ detail_water_view
           \/ system_report \/ Answer \/ Start \/ UNCHANGED vars
  <2>1. now' = now /\ load' = load /\ comments' = comments
    BY <1>3 DEF dash_report_api, curriculum_progress, curriculum_chosen, view_stats,
      time_range_head_teachers, violence_details_dash, detail_attd, detail_water_view,
      system_report, Serve, Answer, Start, vars
  <2> QED
    BY <2>1 DEF CommentInv, CommentsOK
<1> QED
  BY <1>1, <1>2, <1>3 DEF Next

\* For any calendar that covers the moments, a comment on a month is shown with the month
\* that it was written in, whenever it is read (report_date and get_range_on_date).
THEOREM CommentsStay == Spec => []CommentKeepsItsMonth
<1>1. Spec => []CommentInv
  <2>1. (Inv /\ CommentInv) /\ [Next]_vars => (Inv /\ CommentInv)'
    BY PageStep, CommentStep DEF Inv
  <2> QED
    BY InitInv, InitComments, <2>1, PTL DEF Spec
<1>2. CommentInv => CommentKeepsItsMonth
  <2> SUFFICES ASSUME CommentInv, NEW i \in DOMAIN comments, comments[i].period = "mo"
               PROVE  get_range_on_date(comments[i])[1] = comments[i].date
    BY DEF CommentKeepsItsMonth
  <2>1. PICK m \in Months : comments[i].date = At(FirstOf[m], 8)
    BY DEF CommentInv, CommentsOK
  <2>2. get_range_on_date(comments[i]) = get_month_day_range(Day(comments[i].date), 1)[1]
    BY DEF get_range_on_date
  <2> QED
    BY <2>1, <2>2, FirstDay
<1> QED
  BY <1>1, <1>2, PTL

-----------------------------------------------------------------------------
(***************************************************************************)
(* The variables, and the weeks to choose from.                            *)
(***************************************************************************)

LEMMA InitTypes == Init => TypeOK
<1> SUFFICES ASSUME Init PROVE TypeOK
  OBVIOUS
<1>1. load \in Workloads /\ now \in load.moments /\ now \in Int /\ answers = {} /\ comments = <<>>
  BY InitInv DEF Inv, TimeOK, Init
<1>2. worker.at = now /\ worker.term \in load.settings
  BY DEF Init, Import
<1>3. page.at = now /\ page.ranges = <<>> /\ page.sums = [i \in DOMAIN <<>> |-> Between(<<>>[i])]
  BY DEF Init, Columns
<1> QED
  BY <1>1, <1>2, <1>3 DEF TypeOK

LEMMA TypeStep ==
  ASSUME TypeOK, TimeOK, CommentInv', [Next]_vars PROVE TypeOK'
<1>1. /\ load \in Workloads /\ now \in load.moments /\ answers \subseteq load.moments /\ now \in Int
      /\ worker.at \in load.moments /\ worker.at <= now /\ worker.term \in load.settings
      /\ page.at \in load.moments /\ page.at <= now
      /\ load.moments \subseteq Int
  BY ReportingAssumption DEF TypeOK, TimeOK
<1>2. \A i \in DOMAIN comments' : comments'[i].period \in {"wk", "mo", "t"}
  <2> DEFINE R == [period : {"wk", "mo", "t"}, date : Int]
  <2>1. comments' \in Seq(R)
    BY DEF CommentInv, CommentsOK
  <2> HIDE DEF R
  <2>2. ASSUME NEW i \in DOMAIN comments' PROVE comments'[i] \in R
    BY <2>1, ElementOfSeq
  <2> QED
    BY <2>2 DEF R
<1>3. ASSUME NEW name, NEW heads, NEW ranges, NEW goal, Serve(name, heads, ranges, goal) PROVE TypeOK'
  <2>1. /\ page'.at = now /\ page'.ranges = ranges
        /\ page'.sums = [i \in DOMAIN ranges |-> Between(ranges[i])]
        /\ UNCHANGED <<load, now, answers, worker, comments>>
    BY <1>3 DEF Serve, Columns
  <2>2. \A i \in DOMAIN page'.sums : page'.sums[i] \subseteq answers
    BY <2>1 DEF Between
  <2> QED
    BY <1>1, <1>2, <2>1, <2>2 DEF TypeOK
<1>4. CASE new_comment \/ UNCHANGED vars
  <2>1. UNCHANGED <<load, now, answers, worker, page>>
    BY <1>4 DEF new_comment, vars
  <2> QED
    BY <1>2, <2>1 DEF TypeOK
<1>5. CASE Answer
  <2>1. answers' = answers \cup {now} /\ UNCHANGED <<load, now, worker, page>>
    BY <1>5 DEF Answer
  <2> QED
    BY <1>1, <1>2, <2>1 DEF TypeOK
<1>6. CASE Start
  <2>1. worker'.at = now /\ worker'.term \in load.settings /\ UNCHANGED <<load, now, answers, page>>
    BY <1>6 DEF Start, Import
  <2> QED
    BY <1>1, <1>2, <2>1 DEF TypeOK
<1>7. CASE Tick
  <2>1. now' \in load.moments /\ now < now' /\ UNCHANGED <<load, answers, worker, page>>
    BY <1>7 DEF Tick
  <2>2. worker.at <= now' /\ page.at <= now'
    BY <1>1, <2>1
  <2> QED
    BY <1>1, <1>2, <2>1, <2>2 DEF TypeOK
<1> QED
  BY <1>3, <1>4, <1>5, <1>6, <1>7
     DEF Next, dash_report_api, curriculum_progress, curriculum_chosen, view_stats, time_range_head_teachers,
         violence_details_dash, detail_attd, detail_water_view, system_report

\* The clock, the worker and the page stay in their domains, a page counts only
\* answers that have come in, and none was served, and no worker started, later
\* than now: for any calendar, terms, moments and numbers of answers.
THEOREM ReportsTypeCorrect == Spec => []TypeOK
<1>1. Spec => [](Inv /\ CommentInv /\ TypeOK)
  <2>1. (Inv /\ CommentInv /\ TypeOK) /\ [Next]_vars => (Inv /\ CommentInv /\ TypeOK)'
    BY PageStep, CommentStep, TypeStep DEF Inv
  <2> QED
    BY InitInv, InitComments, InitTypes, <2>1, PTL DEF Spec
<1> QED
  BY <1>1, PTL

\* The Thursday that a day's week begins with.
IsThursdayOf(x, d) == x \in Int /\ x % 7 = 3 /\ x <= d /\ d < x + 7

LEMMA OneThursday ==
  ASSUME NEW d \in Int, NEW x, NEW y, IsThursdayOf(x, d), IsThursdayOf(y, d)
  PROVE  x = y
BY DEF IsThursdayOf

LEMMA RangeBegins ==
  ASSUME NEW d \in Int
  PROVE  \E x : /\ IsThursdayOf(x, d) /\ Day(get_day_range(d)[1]) = x
                /\ get_day_range(d)[2] \in Int /\ Day(get_day_range(d)[2]) = x + 6
<1> DEFINE w == Weekday(d)
           x == IF w < THURSDAY THEN d + THURSDAY - w - 7 ELSE d + THURSDAY - w
<1>1. w = d % 7 /\ w \in 0..6
  BY DEF Weekday
<1>2. x \in Int /\ x % 7 = 3 /\ x <= d /\ d < x + 7
  BY <1>1 DEF THURSDAY
<1>3. get_day_range(d) = <<At(x, 8), At(x + 6, 19)>>
  BY <1>1 DEF get_day_range, set_thur_wed_range, THURSDAY
<1> HIDE DEF x
<1>4. (24 * x + 8) \div 24 = x /\ (24 * (x + 6) + 19) \div 24 = x + 6
  BY <1>2
<1>5. At(x + 6, 19) \in Int
  BY <1>2 DEF At
<1> QED
  BY <1>2, <1>3, <1>4, <1>5 DEF IsThursdayOf, Day, At

\* The weeks up to a moment begin on the Thursdays before it, the newest first.
LEMMA WeeksBegin ==
  ASSUME NEW t \in Int, NEW x, IsThursdayOf(x, Day(t)), NEW depth \in Nat, NEW i \in 1..depth
  PROVE  Day(get_week_date(t, depth)[i][1]) = x - 7 * (i - 1)
<1> DEFINE d == Day(t) - 7 * (i - 1)
<1>1. d \in Int /\ get_week_date(t, depth)[i] = get_day_range(d)
  BY DayInt DEF get_week_date
<1>2. Day(t) \in Int
  BY DayInt
<1>3. IsThursdayOf(x - 7 * (i - 1), d)
  BY <1>2 DEF IsThursdayOf
<1> HIDE DEF d
<1>4. PICK y : IsThursdayOf(y, d) /\ Day(get_day_range(d)[1]) = y
  BY <1>1, RangeBegins
<1> QED
  BY <1>1, <1>3, <1>4, OneThursday

\* A day begins one week of a list, or none.
Once(s, d)  == \E i \in DOMAIN s : Day(s[i][1]) = d /\ \A j \in DOMAIN s : Day(s[j][1]) = d => j = i
Never(s, d) == \A i \in DOMAIN s : Day(s[i][1]) # d

LEMMA OnceNever ==
  ASSUME NEW s \in Seq(Int \X Int), NEW r \in Seq(Int \X Int), NEW d
  PROVE  /\ Once(s, d) /\ Never(r, d) => Once(s \o r, d)
         /\ Never(s, d) /\ Once(r, d) => Once(s \o r, d)
         /\ Never(s, d) /\ Never(r, d) => Never(s \o r, d)
<1> DEFINE q == s \o r
<1>1. Len(s) \in Nat /\ Len(r) \in Nat /\ DOMAIN s = 1..Len(s) /\ DOMAIN r = 1..Len(r)
  OBVIOUS
<1>2. DOMAIN q = 1..(Len(s) + Len(r))
  OBVIOUS
<1>3. /\ \A i \in DOMAIN s : i \in DOMAIN q /\ q[i] = s[i]
      /\ \A i \in DOMAIN r : i + Len(s) \in DOMAIN q /\ q[i + Len(s)] = r[i]
  BY <1>1, <1>2
<1>4. ASSUME NEW i \in DOMAIN q PROVE i \in DOMAIN s \/ \E j \in DOMAIN r : i = j + Len(s)
  <2>1. i \in Nat /\ i >= 1 /\ i <= Len(s) + Len(r)
    BY <1>1, <1>2
  <2>2. CASE i <= Len(s)
    BY <1>1, <2>1, <2>2
  <2>3. CASE i > Len(s)
    <3>1. i - Len(s) \in DOMAIN r /\ i = (i - Len(s)) + Len(s)
      BY <1>1, <2>1, <2>3
    <3> QED
      BY <3>1
  <2> QED
    BY <1>1, <2>1, <2>2, <2>3
<1> HIDE DEF q
<1>5. ASSUME Once(s, d), Never(r, d) PROVE Once(q, d)
  <2>1. PICK i \in DOMAIN s : Day(s[i][1]) = d /\ \A j \in DOMAIN s : Day(s[j][1]) = d => j = i
    BY <1>5 DEF Once
  <2>2. ASSUME NEW j \in DOMAIN q, Day(q[j][1]) = d PROVE j = i
    <3>1. CASE j \in DOMAIN s
      BY <1>3, <2>1, <2>2, <3>1
    <3>2. ASSUME NEW k \in DOMAIN r, j = k + Len(s) PROVE FALSE
      <4>1. q[j] = r[k]
        BY <1>3, <3>2
      <4> QED
        BY <1>5, <2>2, <4>1 DEF Never
    <3> QED
      BY <1>4, <3>1, <3>2
  <2> QED
    BY <1>3, <2>1, <2>2 DEF Once
<1>6. ASSUME Never(s, d), Once(r, d) PROVE Once(q, d)
  <2>1. PICK i \in DOMAIN r : Day(r[i][1]) = d /\ \A j \in DOMAIN r : Day(r[j][1]) = d => j = i
    BY <1>6 DEF Once
  <2>2. ASSUME NEW j \in DOMAIN q, Day(q[j][1]) = d PROVE j = i + Len(s)
    <3>1. CASE j \in DOMAIN s
      <4>1. q[j] = s[j]
        BY <1>3, <3>1
      <4> QED
        BY <1>6, <2>2, <3>1, <4>1 DEF Never
    <3>2. ASSUME NEW k \in DOMAIN r, j = k + Len(s) PROVE j = i + Len(s)
      <4>1. q[j] = r[k]
        BY <1>3, <3>2
      <4> QED
        BY <2>1, <2>2, <3>2, <4>1
    <3> QED
      BY <1>4, <3>1, <3>2
  <2>3. i + Len(s) \in DOMAIN q /\ Day(q[i + Len(s)][1]) = d
    BY <1>3, <2>1
  <2> QED
    BY <2>2, <2>3 DEF Once
<1>7. ASSUME Never(s, d), Never(r, d) PROVE Never(q, d)
  BY <1>3, <1>4, <1>7 DEF Never
<1> QED
  BY <1>5, <1>6, <1>7 DEF q

\* The weeks of a list of n that ends with the week of x.
LEMMA ListOfWeeks ==
  ASSUME NEW t \in Int, NEW x, IsThursdayOf(x, Day(t)), NEW n \in Nat, NEW d \in Int
  PROVE  /\ d % 7 = 3 /\ d <= x /\ x - 7 * n < d => Once(get_week_date(t, n), d)
         /\ d > x \/ d <= x - 7 * n => Never(get_week_date(t, n), d)
<1> DEFINE s == get_week_date(t, n)
<1>1. DOMAIN s = 1..n
  BY DEF get_week_date
<1>2. \A i \in 1..n : Day(s[i][1]) = x - 7 * (i - 1)
  BY WeeksBegin
<1>3. x \in Int /\ x % 7 = 3
  BY DEF IsThursdayOf
<1> HIDE DEF s
<1>4. ASSUME d % 7 = 3, d <= x, x - 7 * n < d PROVE Once(s, d)
  <2> DEFINE i == ((x - d) \div 7) + 1
  <2>1. i \in 1..n /\ x - 7 * (i - 1) = d
    BY <1>3, <1>4
  <2> HIDE DEF i
  <2>2. \A j \in 1..n : x - 7 * (j - 1) = d => j = i
    BY <1>3, <2>1
  <2> QED
    BY <1>1, <1>2, <2>1, <2>2 DEF Once
<1>5. ASSUME d > x \/ d <= x - 7 * n PROVE Never(s, d)
  <2>1. \A i \in 1..n : x - 7 * (i - 1) # d
    BY <1>3, <1>5
  <2> QED
    BY <1>1, <1>2, <2>1 DEF Never
<1> QED
  BY <1>4, <1>5 DEF s

\* The weeks that begin in the days of a term, from its first to day d.
Begun(k, d) == {x \in TERMS[k]..d : Weekday(x) = THURSDAY}

\* A term that is over offers the weeks of its 12, and no others.
LEMMA PastWeeks ==
  ASSUME NEW t, NEW j \in 1..3, NEW k \in 1..3, j < k, NEW d \in Int
  PROVE  /\ d \in Begun(j, TERMS[j] + 83) => Once(TermWeeks(t, j, k), d)
         /\ d < TERMS[j] \/ d > TERMS[j] + 84 => Never(TermWeeks(t, j, k), d)
<1> DEFINE u == At(TERMS[j] + 7 * 12, 0)
<1>1. TERMS[j] \in Int /\ TERMS[j] % 7 # 3
  BY TermInts, TermsBeginMidweek DEF Weekday, THURSDAY
<1>2. u \in Int /\ Day(u) = TERMS[j] + 84
  BY <1>1 DEF At, Day
<1>3. TermWeeks(t, j, k) = get_week_date(u, 12)
  BY DEF TermWeeks
<1> HIDE DEF u
<1>4. PICK x : IsThursdayOf(x, Day(u))
  BY <1>1, <1>2, RangeBegins
<1>5. x \in Int /\ x % 7 = 3 /\ x <= TERMS[j] + 84 /\ TERMS[j] + 77 < x
  BY <1>1, <1>2, <1>4 DEF IsThursdayOf
<1>6. /\ d % 7 = 3 /\ d <= x /\ x - 7 * 12 < d => Once(get_week_date(u, 12), d)
      /\ d > x \/ d <= x - 7 * 12 => Never(get_week_date(u, 12), d)
  BY <1>2, <1>4, ListOfWeeks
<1>7. d \in Begun(j, TERMS[j] + 83) => d % 7 = 3 /\ d <= x /\ x - 7 * 12 < d
  BY <1>1, <1>5 DEF Begun, Weekday, THURSDAY
<1>8. ASSUME d < TERMS[j] \/ d > TERMS[j] + 84 PROVE Never(get_week_date(u, 12), d)
  <2>1. \A i \in 1..12 : x - 7 * (i - 1) # d
    BY <1>1, <1>5, <1>8
  <2>2. \A i \in 1..12 : Day(get_week_date(u, 12)[i][1]) = x - 7 * (i - 1)
    BY <1>2, <1>4, WeeksBegin
  <2> QED
    BY <2>1, <2>2 DEF Never, get_week_date
<1> QED
  BY <1>3, <1>6, <1>7, <1>8

\* The current term offers its weeks up to now.
LEMMA OwnWeeks ==
  ASSUME NEW t \in Int, NEW k \in 1..3, NEW d \in Int
  PROVE  /\ d \in Begun(k, Day(t)) => Once(TermWeeks(t, k, k), d)
         /\ d < TERMS[k] => Never(TermWeeks(t, k, k), d)
         /\ TermWeeks(t, k, k) = <<>> => Begun(k, Day(t)) = {}
<1>1. TERMS[k] \in Int /\ Day(t) \in Int
  BY TermInts, DayInt
<1>2. PICK x : /\ IsThursdayOf(x, Day(t)) /\ Day(CurrentWeek(t)[1]) = x
               /\ CurrentWeek(t)[2] \in Int /\ Day(CurrentWeek(t)[2]) = x + 6
  BY <1>1, RangeBegins DEF CurrentWeek
<1> DEFINE u == CurrentWeek(t)[2]
           n == get_week_count(TERMS[k], x)
<1>3. x \in Int /\ x % 7 = 3 /\ x <= Day(t) /\ Day(t) < x + 7
  BY <1>2 DEF IsThursdayOf
<1>4. TermWeeks(t, k, k) = get_week_date(u, n)
  BY <1>2 DEF TermWeeks
<1>5. n \in Nat /\ (TERMS[k] > x => n = 0) /\ (TERMS[k] <= x => x - 7 * n < TERMS[k] /\ TERMS[k] <= x - 7 * (n - 1))
  BY <1>1, <1>3 DEF get_week_count
<1>6. IsThursdayOf(x, Day(u)) /\ u \in Int
  BY <1>2, <1>3 DEF IsThursdayOf
<1> HIDE DEF u, n
<1>7. /\ d % 7 = 3 /\ d <= x /\ x - 7 * n < d => Once(get_week_date(u, n), d)
      /\ d > x \/ d <= x - 7 * n => Never(get_week_date(u, n), d)
  BY <1>5, <1>6, ListOfWeeks
<1>8. \A y \in Begun(k, Day(t)) : y \in Int /\ y % 7 = 3 /\ y <= x /\ TERMS[k] <= y
  <2>1. \A y \in Int : y % 7 = 3 /\ y <= Day(t) => y <= x
    BY <1>1, <1>3
  <2> QED
    BY <1>1, <2>1 DEF Begun, Weekday, THURSDAY
<1>9. d \in Begun(k, Day(t)) => d % 7 = 3 /\ d <= x /\ x - 7 * n < d
  BY <1>1, <1>3, <1>5, <1>8
<1>10. ASSUME d < TERMS[k] PROVE Never(get_week_date(u, n), d)
  <2>1. CASE TERMS[k] > x
    BY <1>5, <2>1 DEF Never, get_week_date
  <2>2. CASE TERMS[k] <= x
    <3>1. \A i \in 1..n : x - 7 * (i - 1) >= TERMS[k]
      BY <1>1, <1>3, <1>5, <2>2
    <3>2. \A i \in 1..n : Day(get_week_date(u, n)[i][1]) = x - 7 * (i - 1)
      BY <1>5, <1>6, WeeksBegin
    <3> QED
      BY <1>1, <1>3, <1>5, <1>10, <3>1, <3>2 DEF Never, get_week_date
  <2> QED
    BY <1>1, <1>3, <2>1, <2>2
<1>11. ASSUME get_week_date(u, n) = <<>>, NEW y \in Begun(k, Day(t)) PROVE FALSE
  <2>1. DOMAIN get_week_date(u, n) = 1..n
    BY DEF get_week_date
  <2>2. n = 0
    BY <1>5, <1>11, <2>1
  <2> QED
    BY <1>1, <1>3, <1>5, <1>8, <2>2
<1> QED
  BY <1>4, <1>7, <1>9, <1>10, <1>11

\* The worker keeps what it has computed when it was started.
WorkerOK ==
  /\ worker.term \in 1..3 /\ worker.at \in Int
  /\ worker.choices = get_weeks_in_term(worker.at, worker.term)
  /\ worker.months = get_month_day_range(Day(worker.at), 2)

LEMMA InitWorker == Init => WorkerOK
<1> SUFFICES ASSUME Init PROVE WorkerOK
  OBVIOUS
<1>1. now \in Int /\ worker.term \in 1..3
  BY InitInv, CalendarAssumption DEF Inv, TimeOK
<1> QED
  BY <1>1 DEF Init, Import, WorkerOK

LEMMA WorkerStep ==
  ASSUME WorkerOK, TimeOK, [Next]_vars PROVE WorkerOK'
<1>1. CASE Start
  <2>1. PICK k \in load.settings : worker' = Import(now, k)
    BY <1>1 DEF Start
  <2>2. k \in 1..3 /\ now \in Int
    BY ReportingAssumption, CalendarAssumption DEF TimeOK
  <2> QED
    BY <2>1, <2>2 DEF WorkerOK, Import
<1>2. CASE worker' = worker
  BY <1>2 DEF WorkerOK
<1> QED
  BY <1>1, <1>2
     DEF Next, dash_report_api, curriculum_progress, curriculum_chosen, view_stats, time_range_head_teachers,
         violence_details_dash, detail_attd, detail_water_view, system_report, Serve, new_comment, Answer, Tick, vars

\* The weeks of the terms gone by and of the current one, together.
LEMMA WeeksOffered ==
  ASSUME NEW t \in Int, NEW k \in 1..3
  PROVE  LET s == get_weeks_in_term(t, k)
         IN IF s = <<>> THEN Begun(k, Day(t)) = {}
            ELSE /\ \A d \in Begun(k, Day(t)) : Once(s, d)
                 /\ \A j \in 1..(k - 1) : \A d \in Begun(j, TERMS[j] + 83) : Once(s, d)
<1> DEFINE s == get_weeks_in_term(t, k)
           past(j) == IF j < k THEN TermWeeks(t, j, k) ELSE <<>>
           own == TermWeeks(t, k, k)
<1>1. s = IF own = <<>> THEN <<>> ELSE past(1) \o past(2) \o own
  BY DEF get_weeks_in_term
<1>2. \A j \in 1..3 : TermWeeks(t, j, k) \in Seq(Int \X Int)
  <2>1. CurrentWeek(t)[1] \in Int /\ CurrentWeek(t)[2] \in Int
    BY DayInt, DayRange DEF CurrentWeek, IsWeek
  <2>2. \A j \in 1..3 : At(TERMS[j] + 7 * 12, 0) \in Int
    BY TermInts DEF At
  <2>3. get_week_count(TERMS[k], Day(CurrentWeek(t)[1])) \in Nat
    BY <2>1, TermInts, DayInt, WeeksCounted
  <2> QED
    BY <2>1, <2>2, <2>3, WeekSeq DEF TermWeeks
<1>3. past(1) \in Seq(Int \X Int) /\ past(2) \in Seq(Int \X Int) /\ own \in Seq(Int \X Int)
  BY <1>2
<1>4. TERMS[1] \in Int /\ TERMS[2] \in Int /\ TERMS[3] \in Int
  BY TermInts
<1>5. \A j \in 1..2, d \in Int :
        /\ j < k /\ d \in Begun(j, TERMS[j] + 83) => Once(past(j), d)
        /\ j >= k \/ d < TERMS[j] \/ d > TERMS[j] + 84 => Never(past(j), d)
  <2> SUFFICES ASSUME NEW j \in 1..2, NEW d \in Int
               PROVE  /\ j < k /\ d \in Begun(j, TERMS[j] + 83) => Once(past(j), d)
                      /\ j >= k \/ d < TERMS[j] \/ d > TERMS[j] + 84 => Never(past(j), d)
    OBVIOUS
  <2>1. CASE j < k
    <3>1. j \in 1..3 /\ past(j) = TermWeeks(t, j, k)
      BY <2>1
    <3> HIDE DEF past
    <3> QED
      BY <2>1, <3>1, PastWeeks
  <2>2. CASE ~(j < k)
    BY <2>2 DEF Never
  <2> QED
    BY <2>1, <2>2
<1>6. \A d \in Int : /\ d \in Begun(k, Day(t)) => Once(own, d)
                     /\ d < TERMS[k] => Never(own, d)
                     /\ own = <<>> => Begun(k, Day(t)) = {}
  BY OwnWeeks
<1> HIDE DEF past, own
<1> DEFINE most == past(1) \o past(2)
<1>7. \A j \in 1..3 : \A x : \A d \in Begun(j, x) : d \in Int /\ TERMS[j] <= d
  BY <1>4 DEF Begun
<1>8. most \in Seq(Int \X Int)
  BY <1>3
<1>9. ASSUME NEW d \in Begun(k, Day(t)) PROVE Once(most \o own, d)
  <2>1. d \in Int /\ TERMS[k] <= d
    BY <1>7
  <2>2. Never(past(1), d) /\ Never(past(2), d)
    <3>1. 1 >= k \/ d > TERMS[1] + 84
      BY <1>4, <2>1, TermsApart
    <3>2. 2 >= k \/ d > TERMS[2] + 84
      BY <1>4, <2>1, TermsApart
    <3> QED
      BY <1>5, <2>1, <3>1, <3>2
  <2>3. Never(most, d)
    BY <1>3, <2>2, OnceNever
  <2> HIDE DEF most
  <2> QED
    BY <1>3, <1>6, <1>8, <2>1, <2>3, OnceNever
<1>10. ASSUME NEW j \in 1..(k - 1), NEW d \in Begun(j, TERMS[j] + 83) PROVE Once(most \o own, d)
  <2>1. j \in 1..2 /\ j < k
    OBVIOUS
  <2>2. d \in Int /\ TERMS[j] <= d /\ d <= TERMS[j] + 83
    BY <1>4, <2>1 DEF Begun
  <2>3. Never(own, d)
    <3>1. d < TERMS[k]
      BY <1>4, <2>1, <2>2, TermsApart
    <3> QED
      BY <1>6, <2>2, <3>1
  <2>4. Once(most, d)
    <3>1. Once(past(j), d)
      BY <1>5, <2>1, <2>2
    <3>2. CASE j = 1
      <4>1. d < TERMS[2]
        BY <1>4, <2>2, <3>2, TermsApart
      <4>2. Never(past(2), d)
        BY <1>5, <2>2, <4>1
      <4> QED
        BY <1>3, <3>1, <3>2, <4>2, OnceNever
    <3>3. CASE j = 2
      <4>1. d > TERMS[1] + 84
        BY <1>4, <2>2, <3>3, TermsApart
      <4>2. Never(past(1), d)
        BY <1>5, <2>2, <4>1
      <4> QED
        BY <1>3, <3>1, <3>3, <4>2, OnceNever
    <3> QED
      BY <2>1, <3>2, <3>3
  <2> HIDE DEF most
  <2> QED
    BY <1>3, <1>8, <2>3, <2>4, OnceNever
<1>11. CASE own = <<>>
  BY <1>1, <1>6, <1>11
<1>12. CASE own # <<>>
  <2>1. s = most \o own
    BY <1>1, <1>12
  <2>2. most \o own # <<>>
    <3> HIDE DEF most
    <3> QED
      BY <1>3, <1>8, <1>12
  <2> HIDE DEF most, s
  <2>3. /\ s # <<>> /\ \A d \in Begun(k, Day(t)) : Once(s, d)
        /\ \A j \in 1..(k - 1) : \A d \in Begun(j, TERMS[j] + 83) : Once(s, d)
    BY <1>9, <1>10, <2>1, <2>2
  <2> QED
    BY <2>3 DEF s
<1> QED
  BY <1>11, <1>12

\* For any calendar, and terms that begin more than 12 weeks apart and on no
\* Thursday, a worker offers each week of the terms gone by and of the current
\* one up to its start, once, and is there if there is any (get_weeks_in_term).
THEOREM WorkersOfferTermWeeks == Spec => []OffersTermWeeks
<1>1. WorkerOK => OffersTermWeeks
  <2> SUFFICES ASSUME WorkerOK PROVE OffersTermWeeks
    OBVIOUS
  <2> DEFINE s == worker.choices
             k == worker.term
             t == worker.at
             offers(d) == {i \in DOMAIN s : Day(s[i][1]) = d}
  <2>1. k \in 1..3 /\ t \in Int /\ s = get_weeks_in_term(t, k)
    BY DEF WorkerOK
  <2>2. IF s = <<>> THEN Begun(k, Day(t)) = {}
        ELSE /\ \A d \in Begun(k, Day(t)) : Once(s, d)
             /\ \A j \in 1..(k - 1) : \A d \in Begun(j, TERMS[j] + 83) : Once(s, d)
    BY <2>1, WeeksOffered
  <2>3. ASSUME NEW d, Once(s, d) PROVE Cardinality(offers(d)) = 1
    <3>1. PICK i : offers(d) = {i}
      BY <2>3 DEF Once
    <3> HIDE DEF offers
    <3> QED
      BY <3>1, FS_Singleton
  <2> HIDE DEF offers
  <2>4. IF s # <<>>
        THEN \A d \in Begun(k, Day(t)) \cup UNION {Begun(j, TERMS[j] + 83) : j \in 1..(k - 1)} :
               Cardinality(offers(d)) = 1
        ELSE Begun(k, Day(t)) = {}
    BY <2>2, <2>3
  <2> QED
    BY <2>4 DEF OffersTermWeeks, Up, Begun, offers
<1>2. Spec => [](Inv /\ WorkerOK)
  <2>1. (Inv /\ WorkerOK) /\ [Next]_vars => (Inv /\ WorkerOK)'
    BY PageStep, WorkerStep DEF Inv
  <2> QED
    BY InitInv, InitWorker, <2>1, PTL DEF Spec
<1> QED
  BY <1>1, <1>2, PTL

-----------------------------------------------------------------------------
(***************************************************************************)
(* The columns of a page: which answers are in one, in two or in none.     *)
(***************************************************************************)

In(a, r) == r[1] <= a /\ a <= r[2]

\* Two columns have an answer in common only where the page lets them.
Apart(name, R) ==
  \A a \in Int, i, j \in DOMAIN R :
    In(a, R[i]) /\ In(a, R[j]) =>
      \/ i = j
      \/ (name = "months" \/ (name = "detail" /\ Hour(a) = 0)) /\ i - j \in {-1, 1}

\* What the page means to count, from one of its columns to another, is in one.
Gapless(name, R) ==
  name \in {"weekly", "system", "water", "slider", "months"} =>
    \A a \in Int, i, j \in DOMAIN R :
      Counted(a, name) /\ R[i][1] <= a /\ a <= R[j][2] => \E k \in DOMAIN R : In(a, R[k])

Fair(name, R) == DOMAIN R \subseteq Int /\ Apart(name, R) /\ Gapless(name, R)

\* What has a least element.
LEMMA Least ==
  ASSUME NEW S, S \subseteq Nat, S # {}
  PROVE  \E x \in S : \A y \in S : x <= y
<1> DEFINE R == {ss \in Nat \X Nat : ss[1] < ss[2]}
<1>1. IsWellFoundedOn(R, Nat)
  BY NatLessThanWellFounded DEF OpToRel
<1>2. ASSUME NEW x \in Nat, NEW y \in Nat, y < x PROVE <<y, x>> \in R
  <2> DEFINE s == <<y, x>>
  <2>1. s \in Nat \X Nat /\ s[1] = y /\ s[2] = x
    OBVIOUS
  <2> HIDE DEF s
  <2>2. s \in R
    BY <1>2, <2>1
  <2> QED
    BY <2>2 DEF s
<1> HIDE DEF R
<1>3. PICK x \in S : \A y \in S : ~ (<<y, x>> \in R)
  BY <1>1, WFMin, Zenon
<1>4. ASSUME NEW y \in S PROVE x <= y
  <2>1. x \in Nat /\ y \in Nat /\ ~ (y < x)
    BY <1>2, <1>3
  <2> QED
    BY <2>1
<1> QED
  BY <1>4

LEMMA OneColumn ==
  ASSUME NEW S, S \subseteq Int, \A i, j \in S : i = j
  PROVE  Cardinality(S) <= 1
<1>1. CASE S = {}
  BY <1>1, FS_EmptySet
<1>2. CASE S # {}
  <2>1. PICK i \in S : TRUE
    BY <1>2
  <2>2. S = {i}
    BY <2>1
  <2>3. Cardinality({i}) = 1
    BY FS_Singleton
  <2> QED
    BY <2>2, <2>3
<1> QED
  BY <1>1, <1>2

LEMMA TwoColumns ==
  ASSUME NEW S, S \subseteq Int, \A i, j \in S : i = j \/ i - j \in {-1, 1}
  PROVE  Cardinality(S) <= 2
<1>1. ASSUME NEW i \in Int, S \subseteq {i, i + 1} PROVE Cardinality(S) <= 2
  <2>1. IsFiniteSet({i}) /\ Cardinality({i}) = 1 /\ i + 1 \notin {i}
    BY FS_Singleton
  <2>2. IsFiniteSet({i} \cup {i + 1}) /\ Cardinality({i} \cup {i + 1}) = 2
    BY <2>1, FS_AddElement
  <2>3. S \subseteq {i} \cup {i + 1}
    BY <1>1
  <2>4. IsFiniteSet(S) /\ Cardinality(S) <= Cardinality({i} \cup {i + 1})
    BY <2>2, <2>3, FS_Subset
  <2> QED
    BY <2>2, <2>4
<1>2. CASE S = {}
  BY <1>2, FS_EmptySet
<1>3. CASE \E i \in S : i - 1 \in S
  <2>1. PICK i \in S : i - 1 \in S
    BY <1>3
  <2>2. i - 1 \in Int /\ S \subseteq {i - 1, (i - 1) + 1}
    BY <2>1
  <2> QED
    BY <1>1, <2>2
<1>4. CASE S # {} /\ ~ \E i \in S : i - 1 \in S
  <2>1. PICK i \in S : TRUE
    BY <1>4
  <2>2. ASSUME NEW j \in S PROVE j \in {i, i + 1}
    <3>1. j \in Int /\ i \in Int /\ (i = j \/ i - j = -1 \/ i - j = 1)
      BY <2>1
    <3>2. i - j # 1
      <4>1. SUFFICES ASSUME i - j = 1 PROVE FALSE
        OBVIOUS
      <4>2. j = i - 1
        BY <3>1, <4>1
      <4> QED
        BY <1>4, <2>1, <4>2
    <3> QED
      BY <3>1, <3>2
  <2> QED
    BY <1>1, <2>1, <2>2
<1> QED
  BY <1>2, <1>3, <1>4

\* Weeks that follow each other, forwards or back, each from an hour of its
\* Thursday to one of its Wednesday.
WeeksFrom(R, n, T, s, h, g) ==
  /\ n \in Nat /\ T \in Int /\ T % 7 = 3 /\ s \in {7, -7} /\ h \in 0..23 /\ g \in 0..23
  /\ DOMAIN R = 1..n
  /\ \A i \in 1..n :
       /\ R[i][1] = At(T + s * (i - 1), h)
       /\ R[i][2] \in Int /\ At(T + s * (i - 1) + 6, g) <= R[i][2] /\ R[i][2] <= At(T + s * (i - 1) + 6, 23)

LEMMA DayAndHour ==
  ASSUME NEW a \in Int
  PROVE  /\ Day(a) \in Int /\ Hour(a) \in 0..23 /\ a = 24 * Day(a) + Hour(a)
         /\ Weekday(Day(a)) \in 0..6
  BY DEF Day, Hour, Weekday

\* The Thursday of an hour.
LEMMA InsideWeek ==
  ASSUME NEW a \in Int, NEW t \in Int, t % 7 = 3, 24 * t <= a, a <= 24 * (t + 6) + 23
  PROVE  IsThursdayOf(t, Day(a))
<1>1. t <= a \div 24 /\ a \div 24 < t + 7
  OBVIOUS
<1> QED
  BY <1>1 DEF IsThursdayOf, Day

LEMMA ThursdayOf ==
  ASSUME NEW a \in Int
  PROVE  \E t \in Int : /\ t % 7 = 3 /\ 24 * t <= a /\ a <= 24 * (t + 6) + 23
                        /\ Day(a) = t => Weekday(Day(a)) = 3 /\ a = 24 * t + Hour(a)
                        /\ Day(a) = t + 6 => Weekday(Day(a)) = 2 /\ a = 24 * (t + 6) + Hour(a)
                        /\ Day(a) # t => 24 * t + 24 <= a
                        /\ Day(a) # t + 6 => a < 24 * (t + 6)
<1> DEFINE d == Day(a)
           w == Weekday(d)
           t == IF w < 3 THEN d - w - 4 ELSE d - w + 3
<1>1. d \in Int /\ Hour(a) \in 0..23 /\ a = 24 * d + Hour(a)
  BY DayAndHour
<1>2. w \in 0..6 /\ w = d % 7
  BY DayAndHour DEF Weekday
<1> HIDE DEF d
<1>3. t \in Int /\ t % 7 = 3 /\ t <= d /\ d < t + 7 /\ (d = t => w = 3) /\ (d = t + 6 => w = 2)
  BY <1>1, <1>2
<1> HIDE DEF t, w
<1>4. 24 * t <= a /\ a <= 24 * (t + 6) + 23 /\ (d # t => 24 * t + 24 <= a) /\ (d # t + 6 => a < 24 * (t + 6))
  BY <1>1, <1>3
<1>5. d = t => w = 3 /\ a = 24 * t + Hour(a)
  BY <1>1, <1>3
<1>6. d = t + 6 => w = 2 /\ a = 24 * (t + 6) + Hour(a)
  BY <1>1, <1>3
<1> QED
  BY <1>3, <1>4, <1>5, <1>6 DEF d, w

LEMMA HourAfter ==
  ASSUME NEW a \in Int, NEW x \in Int, NEW h \in 0..23, 24 * x + h <= a
  PROVE  24 * x <= a
  OBVIOUS

LEMMA HourUpTo ==
  ASSUME NEW a \in Int, NEW x \in Int, NEW u \in Int, a <= u, u <= 24 * (x + 6) + 23
  PROVE  a <= 24 * (x + 6) + 23
  OBVIOUS

LEMMA WeeksInOrder ==
  ASSUME NEW a \in Int, NEW x \in Int, NEW t \in Int, x % 7 = 3, t % 7 = 3, 24 * x <= a, a <= 24 * (t + 6) + 23
  PROVE  x <= t
<1>1. x < t + 7
  OBVIOUS
<1> QED
  BY <1>1

LEMMA InsideHours ==
  ASSUME NEW a \in Int, NEW t \in Int, NEW h \in 0..23, NEW g \in 0..23,
         24 * t <= a, a <= 24 * (t + 6) + 23,
         (a = 24 * t + Hour(a) /\ Hour(a) >= h) \/ 24 * t + 24 <= a,
         (a = 24 * (t + 6) + Hour(a) /\ Hour(a) <= g) \/ a < 24 * (t + 6)
  PROVE  24 * t + h <= a /\ a <= 24 * (t + 6) + g
<1>1. Hour(a) \in 0..23
  BY DayAndHour
<1> QED
  BY <1>1

LEMMA WeeksAreFair ==
  ASSUME NEW R, NEW n, NEW T, NEW s, NEW h, NEW g, WeeksFrom(R, n, T, s, h, g)
  PROVE  /\ \A a \in Int, i, j \in 1..n : In(a, R[i]) /\ In(a, R[j]) => i = j
         /\ \A a \in Int, i, j \in 1..n :
              /\ R[i][1] <= a /\ a <= R[j][2]
              /\ Weekday(Day(a)) = 3 => Hour(a) >= h
              /\ Weekday(Day(a)) = 2 => Hour(a) <= g
              => \E k \in 1..n : In(a, R[k])
<1> DEFINE x == [i \in Int |-> T + s * (i - 1)]
<1>0. n \in Nat /\ T \in Int /\ T % 7 = 3 /\ s \in {7, -7} /\ h \in 0..23 /\ g \in 0..23 /\ DOMAIN R = 1..n
  BY DEF WeeksFrom
<1> USE <1>0
<1>1. \A i \in 1..n : /\ R[i][1] = 24 * x[i] + h
                      /\ R[i][2] \in Int /\ 24 * (x[i] + 6) + g <= R[i][2] /\ R[i][2] <= 24 * (x[i] + 6) + 23
  BY DEF WeeksFrom, At
<1>2. \A i \in Int : x[i] \in Int /\ x[i] % 7 = 3
  <2>1. CASE s = 7
    BY <2>1
  <2>2. CASE s = -7
    BY <2>2
  <2> QED
    BY <2>1, <2>2
<1>3. \A i, j \in Int : x[i] = x[j] => i = j
  <2>1. CASE s = 7
    BY <2>1
  <2>2. CASE s = -7
    BY <2>2
  <2> QED
    BY <2>1, <2>2
<1>4. ASSUME NEW i \in Int, NEW j \in Int, NEW t \in Int, t % 7 = 3, x[i] <= t, t <= x[j]
      PROVE  \E k \in Int : x[k] = t /\ ((i <= k /\ k <= j) \/ (j <= k /\ k <= i))
  <2>1. CASE s = 7
    <3> DEFINE k == ((t - T) \div 7) + 1
    <3>1. k \in Int /\ T + 7 * (k - 1) = t
      BY <1>4
    <3> HIDE DEF k
    <3>2. T + 7 * (i - 1) <= T + 7 * (k - 1) /\ T + 7 * (k - 1) <= T + 7 * (j - 1)
      BY <1>4, <2>1, <3>1
    <3>3. i <= k /\ k <= j
      BY <3>1, <3>2
    <3> QED
      BY <2>1, <3>1, <3>3
  <2>2. CASE s = -7
    <3> DEFINE k == ((T - t) \div 7) + 1
    <3>1. k \in Int /\ T + (-7) * (k - 1) = t
      BY <1>4
    <3> HIDE DEF k
    <3>2. T + (-7) * (i - 1) <= T + (-7) * (k - 1) /\ T + (-7) * (k - 1) <= T + (-7) * (j - 1)
      BY <1>4, <2>2, <3>1
    <3>3. k <= i /\ j <= k
      BY <3>1, <3>2
    <3> QED
      BY <2>2, <3>1, <3>3
  <2> QED
    BY <2>1, <2>2
<1> HIDE DEF x
<1>5. ASSUME NEW a \in Int, NEW i \in 1..n, In(a, R[i]) PROVE IsThursdayOf(x[i], Day(a))
  <2>1. x[i] \in Int /\ x[i] % 7 = 3
    BY <1>2
  <2>2. 24 * x[i] + h <= a
    BY <1>1, <1>5 DEF In
  <2>3. R[i][2] \in Int /\ a <= R[i][2] /\ R[i][2] <= 24 * (x[i] + 6) + 23
    BY <1>1, <1>5 DEF In
  <2>4. 24 * x[i] <= a /\ a <= 24 * (x[i] + 6) + 23
    BY <2>1, <2>2, <2>3, HourAfter, HourUpTo
  <2> QED
    BY <2>1, <2>4, InsideWeek
<1>6. ASSUME NEW a \in Int, NEW i \in 1..n, NEW j \in 1..n, In(a, R[i]), In(a, R[j]) PROVE i = j
  <2>1. x[i] = x[j]
    BY <1>5, <1>6, OneThursday, DayAndHour
  <2> QED
    BY <1>3, <2>1
<1>7. ASSUME NEW a \in Int, NEW i \in 1..n, NEW j \in 1..n, R[i][1] <= a, a <= R[j][2],
             Weekday(Day(a)) = 3 => Hour(a) >= h, Weekday(Day(a)) = 2 => Hour(a) <= g
      PROVE  \E k \in 1..n : In(a, R[k])
  <2>1. Hour(a) \in 0..23
    BY DayAndHour
  <2>2. PICK t \in Int : /\ t % 7 = 3 /\ 24 * t <= a /\ a <= 24 * (t + 6) + 23
                         /\ Day(a) = t => Weekday(Day(a)) = 3 /\ a = 24 * t + Hour(a)
                         /\ Day(a) = t + 6 => Weekday(Day(a)) = 2 /\ a = 24 * (t + 6) + Hour(a)
                         /\ Day(a) # t => 24 * t + 24 <= a
                         /\ Day(a) # t + 6 => a < 24 * (t + 6)
    BY ThursdayOf
  <2>3. 24 * t + h <= a /\ a <= 24 * (t + 6) + g
    <3>1. (a = 24 * t + Hour(a) /\ Hour(a) >= h) \/ 24 * t + 24 <= a
      BY <1>7, <2>2, Zenon
    <3>2. (a = 24 * (t + 6) + Hour(a) /\ Hour(a) <= g) \/ a < 24 * (t + 6)
      BY <1>7, <2>2, Zenon
    <3> QED
      BY <2>2, <3>1, <3>2, InsideHours
  <2>4. x[i] \in Int /\ x[i] % 7 = 3 /\ x[j] \in Int /\ x[j] % 7 = 3
    BY <1>2
  <2>5. 24 * x[i] <= a
    <3>1. 24 * x[i] + h <= a
      BY <1>1, <1>7
    <3> QED
      BY <2>4, <3>1, HourAfter
  <2>6. a <= 24 * (x[j] + 6) + 23
    <3>1. R[j][2] \in Int /\ a <= R[j][2] /\ R[j][2] <= 24 * (x[j] + 6) + 23
      BY <1>1, <1>7
    <3> QED
      BY <2>4, <3>1, HourUpTo
  <2>7. x[i] <= t
    BY <2>2, <2>4, <2>5, WeeksInOrder
  <2>8. t <= x[j]
    BY <2>2, <2>4, <2>6, WeeksInOrder
  <2>9. PICK k \in Int : x[k] = t /\ ((i <= k /\ k <= j) \/ (j <= k /\ k <= i))
    <3>1. i \in Int /\ j \in Int
      OBVIOUS
    <3>2. t \in Int /\ t % 7 = 3
      BY <2>2
    <3> QED
      BY <1>4, <2>7, <2>8, <3>1, <3>2, Zenon
  <2>10. k \in 1..n
    BY <2>9
  <2>11. R[k][1] = 24 * t + h /\ R[k][2] \in Int /\ 24 * (t + 6) + g <= R[k][2]
    BY <1>1, <2>9, <2>10
  <2>12. R[k][1] <= a /\ a <= R[k][2]
    BY <2>2, <2>3, <2>11
  <2> QED
    BY <2>10, <2>12 DEF In
<1> QED
  BY <1>6, <1>7

LEMMA OneRange ==
  ASSUME NEW name, NEW R, DOMAIN R \subseteq {1}, name \notin {"weekly", "system", "water", "slider", "months"}
  PROVE  Fair(name, R)
  BY DEF Fair, Apart, Gapless

LEMMA RangeOfThursday ==
  ASSUME NEW d \in Int, NEW x, IsThursdayOf(x, d)
  PROVE  get_day_range(d) = <<At(x, 8), At(x + 6, 19)>>
<1>1. Day(get_day_range(d)[1]) = x
  BY RangeBegins, OneThursday
<1> QED
  BY <1>1, DayRange DEF IsWeek

LEMMA WorkingWeek ==
  ASSUME NEW R, NEW n \in Nat, NEW T \in Int, T % 7 = 3, NEW s \in {7, -7}, DOMAIN R = 1..n,
         \A i \in 1..n : \E x : x = T + s * (i - 1) /\ R[i] = <<At(x, 8), At(x + 6, 19)>>
  PROVE  WeeksFrom(R, n, T, s, 8, 19)
<1> SUFFICES ASSUME NEW i \in 1..n
    PROVE /\ R[i][1] = At(T + s * (i - 1), 8)
          /\ R[i][2] \in Int /\ At(T + s * (i - 1) + 6, 19) <= R[i][2] /\ R[i][2] <= At(T + s * (i - 1) + 6, 23)
  BY DEF WeeksFrom
<1> DEFINE x == T + s * (i - 1)
<1>1. R[i][1] = At(x, 8) /\ R[i][2] = At(x + 6, 19)
  OBVIOUS
<1>2. x \in Int
  <2>1. CASE s = 7
    BY <2>1
  <2>2. CASE s = -7
    BY <2>2
  <2> QED
    BY <2>1, <2>2
<1> HIDE DEF x
<1>3. At(x + 6, 19) \in Int /\ At(x + 6, 19) <= At(x + 6, 23)
  BY <1>2 DEF At
<1> QED
  BY <1>1, <1>3 DEF x

\* A page by week whose weeks follow each other is fair.
LEMMA WorkingWeeks ==
  ASSUME NEW name \in {"weekly", "system"}, NEW R, NEW n, NEW T, NEW s, WeeksFrom(R, n, T, s, 8, 19)
  PROVE  Fair(name, R)
<1>1. DOMAIN R = 1..n /\ n \in Nat
  BY DEF WeeksFrom
<1>2. /\ \A a \in Int, i, j \in 1..n : In(a, R[i]) /\ In(a, R[j]) => i = j
      /\ \A a \in Int, i, j \in 1..n :
           /\ R[i][1] <= a /\ a <= R[j][2]
           /\ Weekday(Day(a)) = 3 => Hour(a) >= 8
           /\ Weekday(Day(a)) = 2 => Hour(a) <= 19
           => \E k \in 1..n : In(a, R[k])
  BY WeeksAreFair
<1>3. \A a : Counted(a, name) => /\ Weekday(Day(a)) = 3 => Hour(a) >= 8
                                 /\ Weekday(Day(a)) = 2 => Hour(a) <= 19
  BY DEF Counted, THURSDAY
<1>4. Gapless(name, R)
  BY <1>1, <1>2, <1>3, Zenon DEF Gapless
<1>5. Apart(name, R)
  BY <1>1, <1>2, Zenon DEF Apart
<1> QED
  BY <1>1, <1>4, <1>5 DEF Fair

LEMMA WeeklyIsFair ==
  ASSUME NEW t \in Int PROVE Fair("weekly", get_week_date(t, 4))
<1> DEFINE R == get_week_date(t, 4)
<1>1. PICK x : IsThursdayOf(x, Day(t))
  BY RangeBegins, DayInt
<1>2. x \in Int /\ x % 7 = 3 /\ DOMAIN R = 1..4
  BY <1>1 DEF IsThursdayOf, get_week_date
<1>3. ASSUME NEW i \in 1..4 
      PROVE  \E y : y = x + (-7) * (i - 1) /\ R[i] = <<At(y, 8), At(y + 6, 19)>>
  <2>1. IsWeek(R[i])
    BY WeekDates
  <2>3. Day(R[i][1]) = x - 7 * (i - 1)
    <3>1. 4 \in Nat
      OBVIOUS
    <3> QED
      BY <1>1, <3>1, WeeksBegin, Zenon
  <2>2. x - 7 * (i - 1) = x + (-7) * (i - 1)
    BY <1>2
  <2> QED
    BY <2>1, <2>2, <2>3 DEF IsWeek
<1> HIDE DEF R
<1>4. Fair("weekly", R)
  <2>1. WeeksFrom(R, 4, x, -7, 8, 19)
    BY <1>2, <1>3, WorkingWeek
  <2> QED
    BY <2>1, WorkingWeeks
<1> QED
  BY <1>4 DEF R

LEMMA SystemIsFair ==
  ASSUME NEW k \in 1..3 PROVE Fair("system", date_bunches(k))
<1> DEFINE R == date_bunches(k)
           first == get_day_range(TERMS[k])[1]
           n == (At(TERM_ENDS[k], 0) - first) \div (7 * 24) + 1
<1>1. TERMS[k] \in Int /\ TERM_ENDS[k] \in Int
  BY CalendarAssumption
<1>2. PICK x : IsThursdayOf(x, TERMS[k]) /\ Day(first) = x
  BY <1>1, RangeBegins
<1>3. x \in Int /\ x % 7 = 3
  BY <1>2 DEF IsThursdayOf
<1>4. R = [i \in 1..n |-> get_day_range(x + 7 * (i - 1))]
  BY <1>2 DEF date_bunches
<1>5. n \in Int
  <2>1. first \in Int
    BY <1>1, DayRange DEF IsWeek
  <2> HIDE DEF first
  <2> QED
    BY <1>1, <2>1 DEF At
<1> HIDE DEF R, n, first
<1>6. ASSUME NEW i \in 1..n 
      PROVE  \E y : y = x + 7 * (i - 1) /\ R[i] = <<At(y, 8), At(y + 6, 19)>>
  <2> DEFINE y == x + 7 * (i - 1)
  <2>1. y \in Int /\ IsThursdayOf(y, y)
    BY <1>3, <1>5 DEF IsThursdayOf
  <2> HIDE DEF y
  <2>2. R[i] = get_day_range(y)
    BY <1>4 DEF y
  <2>3. R[i] = <<At(y, 8), At(y + 6, 19)>>
    BY <2>1, <2>2, RangeOfThursday
  <2> QED
    BY <2>3 DEF y
<1>7. CASE n \in Nat
  <2>1. Fair("system", R)
    <3>1. WeeksFrom(R, n, x, 7, 8, 19)
      BY <1>3, <1>4, <1>6, <1>7, WorkingWeek
    <3> QED
      BY <3>1, WorkingWeeks
  <2> QED
    BY <2>1 DEF R
<1>8. CASE n \notin Nat
  <2>1. DOMAIN R = {}
    BY <1>4, <1>5, <1>8
  <2>2. Fair("system", R)
    BY <2>1 DEF Fair, Apart, Gapless
  <2> QED
    BY <2>2 DEF R
<1> QED
  BY <1>7, <1>8

LEMMA SliderWeeks ==
  ASSUME NEW R, NEW n, NEW T, NEW s, WeeksFrom(R, n, T, s, 0, 0)
  PROVE  Fair("slider", R)
<1>1. DOMAIN R = 1..n /\ n \in Nat
  BY DEF WeeksFrom
<1>2. /\ \A a \in Int, i, j \in 1..n : In(a, R[i]) /\ In(a, R[j]) => i = j
      /\ \A a \in Int, i, j \in 1..n :
           /\ R[i][1] <= a /\ a <= R[j][2]
           /\ Weekday(Day(a)) = 3 => Hour(a) >= 0
           /\ Weekday(Day(a)) = 2 => Hour(a) <= 0
           => \E k \in 1..n : In(a, R[k])
  BY WeeksAreFair
<1>3. \A a \in Int : Counted(a, "slider") => Weekday(Day(a)) # 2 /\ Hour(a) >= 0
  BY DayAndHour DEF Counted, THURSDAY
<1>4. Gapless("slider", R)
  BY <1>1, <1>2, <1>3, Zenon DEF Gapless
<1>5. Apart("slider", R)
  BY <1>1, <1>2, Zenon DEF Apart
<1> QED
  BY <1>1, <1>4, <1>5 DEF Fair

LEMMA PreviousWeek ==
  ASSUME NEW t \in Int, NEW x, IsThursdayOf(x, Day(t))
  PROVE  previous_calendar_week(t) = <<At(x, 0), At(x + 6, Hour(t))>>
<1> DEFINE d == Day(t)
           y == d - ((Weekday(d) - THURSDAY) % 7)
<1>1. d \in Int /\ Weekday(d) = d % 7
  BY DayInt DEF Weekday
<1>2. IsThursdayOf(y, d)
  <2> HIDE DEF d
  <2> QED
    BY <1>1 DEF IsThursdayOf, THURSDAY
<1>3. y = x
  BY <1>1, <1>2, OneThursday
<1> HIDE DEF y
<1> QED
  BY <1>3 DEF previous_calendar_week, y

LEMMA ThursdayItself ==
  ASSUME NEW x \in Int, x % 7 = 3, NEW h \in 0..23
  PROVE  Day(At(x, h)) = x /\ Hour(At(x, h)) = h /\ IsThursdayOf(x, x)
<1>1. (24 * x + h) \div 24 = x /\ (24 * x + h) % 24 = h
  OBVIOUS
<1> QED
  BY <1>1 DEF Day, Hour, At, IsThursdayOf

LEMMA SplitInWeeksIsFair ==
  ASSUME NEW from \in Int, NEW to \in Int PROVE Fair("slider", split_in_weeks(from, to))
<1> DEFINE R     == split_in_weeks(from, to)
           w     == Weekday(from)
           first == from + ((THURSDAY - w) % 7)
           n     == IF first > to THEN 0 ELSE ((to - first) \div 7) + 1
<1>1. first \in Int /\ first % 7 = 3 /\ n \in Nat
  <2>1. w = from % 7
    BY DEF Weekday
  <2>2. first \in Int /\ first % 7 = 3
    BY <2>1 DEF THURSDAY
  <2> HIDE DEF first
  <2> QED
    BY <2>2
<1>2. Thursdays(from, to) = [i \in 1..n |-> first + 7 * (i - 1)]
  BY DEF Thursdays
<1> HIDE DEF first, n
<1>3. DOMAIN Thursdays(from, to) = 1..n /\ \A i \in 1..n : Thursdays(from, to)[i] = first + 7 * (i - 1)
  BY <1>2
<1>4. R = [i \in 1..n |-> previous_calendar_week(At(first + 7 * (i - 1), 0))]
  BY <1>3 DEF split_in_weeks
<1> HIDE DEF R
<1>5. ASSUME NEW i \in 1..n
      PROVE  /\ R[i][1] = At(first + 7 * (i - 1), 0)
             /\ R[i][2] \in Int /\ At(first + 7 * (i - 1) + 6, 0) <= R[i][2] /\ R[i][2] <= At(first + 7 * (i - 1) + 6, 23)
  <2> DEFINE x == first + 7 * (i - 1)
  <2>1. x \in Int /\ x % 7 = 3 /\ 0 \in 0..23
    BY <1>1
  <2>2. R[i] = previous_calendar_week(At(x, 0))
    BY <1>4
  <2> HIDE DEF x
  <2>3. At(x, 0) \in Int /\ IsThursdayOf(x, Day(At(x, 0))) /\ Hour(At(x, 0)) = 0
    <3>1. At(x, 0) \in Int
      BY <2>1 DEF At
    <3>2. Day(At(x, 0)) = x /\ Hour(At(x, 0)) = 0 /\ IsThursdayOf(x, x)
      BY <2>1, ThursdayItself
    <3> QED
      BY <3>1, <3>2
  <2>4. R[i] = <<At(x, 0), At(x + 6, 0)>>
    BY <2>2, <2>3, PreviousWeek
  <2>5. At(x + 6, 0) \in Int /\ At(x + 6, 0) <= At(x + 6, 23)
    BY <2>1 DEF At
  <2> QED
    BY <2>4, <2>5 DEF x
<1>6. WeeksFrom(R, n, first, 7, 0, 0)
  BY <1>1, <1>4, <1>5 DEF WeeksFrom
<1> QED
  BY <1>6, SliderWeeks DEF R

LEMMA TwoWeeksAreFair ==
  ASSUME NEW t \in Int
  PROVE  Fair("slider", <<previous_calendar_week(t), previous_calendar_week(previous_calendar_week(t)[1] - 24)>>)
<1>1. PICK x : IsThursdayOf(x, Day(t))
  BY RangeBegins, DayInt
<1>2. x \in Int /\ x % 7 = 3 /\ Hour(t) \in 0..23
  BY <1>1, DayAndHour DEF IsThursdayOf
<1> DEFINE h == Hour(t)
           R == <<previous_calendar_week(t), previous_calendar_week(previous_calendar_week(t)[1] - 24)>>
<1>3. previous_calendar_week(t) = <<At(x, 0), At(x + 6, h)>>
  BY <1>1, PreviousWeek
<1> HIDE DEF h
<1>4. previous_calendar_week(previous_calendar_week(t)[1] - 24) = <<At(x - 7, 0), At(x - 1, 0)>>
  <2>1. previous_calendar_week(t)[1] - 24 = 24 * (x - 1)
    BY <1>2, <1>3 DEF At
  <2>2. 24 * (x - 1) \in Int /\ (24 * (x - 1)) \div 24 = x - 1 /\ (24 * (x - 1)) % 24 = 0
    BY <1>2
  <2>3. Day(24 * (x - 1)) = x - 1 /\ Hour(24 * (x - 1)) = 0
    BY <2>2 DEF Day, Hour
  <2>4. IsThursdayOf(x - 7, x - 1)
    BY <1>2 DEF IsThursdayOf
  <2>5. previous_calendar_week(24 * (x - 1)) = <<At(x - 7, 0), At((x - 7) + 6, 0)>>
    BY <2>2, <2>3, <2>4, PreviousWeek
  <2>6. (x - 7) + 6 = x - 1
    BY <1>2
  <2> QED
    BY <2>1, <2>5, <2>6
<1>5. R[1] = <<At(x, 0), At(x + 6, h)>> /\ R[2] = <<At(x - 7, 0), At(x - 1, 0)>> /\ DOMAIN R = 1..2
  BY <1>3, <1>4
<1> HIDE DEF R
<1>6. ASSUME NEW i \in 1..2
      PROVE  /\ R[i][1] = At(x + (-7) * (i - 1), 0)
             /\ R[i][2] \in Int /\ At(x + (-7) * (i - 1) + 6, 0) <= R[i][2] /\ R[i][2] <= At(x + (-7) * (i - 1) + 6, 23)
  <2>1. CASE i = 1
    <3>1. x + (-7) * (i - 1) = x
      BY <1>2, <2>1
    <3>2. At(x + 6, h) \in Int /\ At(x + 6, 0) <= At(x + 6, h) /\ At(x + 6, h) <= At(x + 6, 23)
      BY <1>2 DEF At, h
    <3> QED
      BY <1>5, <2>1, <3>1, <3>2
  <2>2. CASE i = 2
    <3>1. x + (-7) * (i - 1) = x - 7 /\ x - 7 + 6 = x - 1
      BY <1>2, <2>2
    <3>2. At(x - 1, 0) \in Int /\ At(x - 1, 0) <= At(x - 1, 23)
      BY <1>2 DEF At
    <3> QED
      BY <1>5, <2>2, <3>1, <3>2
  <2> QED
    BY <2>1, <2>2
<1>7. WeeksFrom(R, 2, x, -7, 0, 0)
  BY <1>2, <1>5, <1>6 DEF WeeksFrom
<1> QED
  BY <1>7, SliderWeeks DEF R

\* The absenteeism form: columns back from the last day, that meet at a midnight.
LEMMA DetailIsFair ==
  ASSUME NEW from \in Int, NEW to \in Int
  PROVE  Fair("detail", get_date_range(At(from, 0), At(to, 0)))
<1> DEFINE R == get_date_range(At(from, 0), At(to, 0))
           u == At(to, 0)
           n == IF u - At(from, 0) <= 7 * 24 THEN 1 ELSE ((u - At(from, 0) - 1) \div (7 * 24)) + 1
<1>1. u \in Int /\ u = 24 * to /\ At(from, 0) \in Int
  BY DEF At
<1>2. n \in Int
  <2> HIDE DEF u
  <2> QED
    BY <1>1
<1>3. R = [i \in 1..n |-> IF i = 1 THEN <<u - 7 * 24 * 1, u>>
                          ELSE <<u - 7 * 24 * (i - 1) - 8 * 24, u - 7 * 24 * (i - 1) - 24>>]
  BY DEF get_date_range
<1> HIDE DEF R, n, u
<1>4. DOMAIN R = 1..n /\ R[1] = (IF 1 \in 1..n THEN <<u - 168, u>> ELSE R[1])
  BY <1>1, <1>3
<1>5. ASSUME NEW i \in 1..n, i # 1 PROVE R[i][1] = u - 168 * i - 24 /\ R[i][2] = u - 168 * i + 144
  BY <1>1, <1>2, <1>3, <1>5
<1>6. ASSUME NEW a \in Int, NEW i \in 1..n, NEW j \in 1..n, i < j, In(a, R[i]), In(a, R[j])
      PROVE  Hour(a) = 0 /\ j = i + 1
  <2>1. u - 168 * j - 24 <= a /\ a <= u - 168 * j + 144
    BY <1>2, <1>5, <1>6 DEF In
  <2>2. CASE i = 1
    <3>1. u - 168 <= a
      BY <1>4, <1>6, <2>2 DEF In
    <3> QED
      BY <1>1, <1>2, <1>6, <2>1, <2>2, <3>1
  <2>3. CASE i # 1
    <3>1. u - 168 * i - 24 <= a
      BY <1>5, <1>6, <2>3 DEF In
    <3>2. j = i + 1 /\ a = u - 168 * i - 24
      BY <1>1, <1>2, <1>6, <2>1, <3>1
    <3>3. a = 24 * (to - 7 * i - 1) /\ to - 7 * i - 1 \in Int
      BY <1>1, <1>2, <3>2
    <3>4. Hour(a) = 0
      BY <3>3 DEF Hour
    <3> QED
      BY <3>2, <3>4
  <2> QED
    BY <2>2, <2>3
<1>7. ASSUME NEW a \in Int, NEW i \in 1..n, NEW j \in 1..n, In(a, R[i]), In(a, R[j])
      PROVE  i = j \/ (Hour(a) = 0 /\ i - j \in {-1, 1})
  <2>1. i < j \/ j < i \/ i = j
    BY <1>2
  <2>2. CASE i < j
    BY <1>2, <1>6, <1>7, <2>2
  <2>3. CASE j < i
    BY <1>2, <1>6, <1>7, <2>3
  <2> QED
    BY <2>1, <2>2, <2>3
<1>8. Apart("detail", R)
  BY <1>4, <1>7 DEF Apart
<1>9. Fair("detail", R)
  BY <1>2, <1>4, <1>8 DEF Fair, Gapless
<1> QED
  BY <1>9 DEF R

-----------------------------------------------------------------------------
\* The first days of the months, in order.
LEMMA MonthsInOrder ==
  ASSUME NEW x \in DOMAIN FirstOf, NEW y \in DOMAIN FirstOf
  PROVE  /\ x \in Int /\ y \in Int /\ FirstOf[x] \in Int /\ FirstOf[y] \in Int
         /\ x <= y => FirstOf[x] <= FirstOf[y]
         /\ x < y => FirstOf[x] < FirstOf[y]
<1>1. x \in Int /\ y \in Int /\ FirstOf[x] \in Int /\ FirstOf[y] \in Int
  BY CalendarAssumption
<1>2. x < y => FirstOf[x] < FirstOf[y]
  BY CalendarAssumption
<1>3. x <= y => x < y \/ x = y
  BY <1>1
<1>4. x <= y => FirstOf[x] <= FirstOf[y]
  BY <1>1, <1>2, <1>3
<1> QED
  BY <1>1, <1>2, <1>4

\* A day and another one at most a year later, and the months up to two after it.
Span(from, to) ==
  /\ from \in DOMAIN MonthOf /\ to \in DOMAIN MonthOf
  /\ MonthOf[to] - MonthOf[from] <= 12
  /\ MonthOf[from]..(MonthOf[to] + 2) \subseteq DOMAIN FirstOf

LEMMA DayInMonth ==
  ASSUME NEW d \in DOMAIN MonthOf
  PROVE  /\ d \in Int /\ MonthOf[d] \in Int /\ MonthOf[d] \in DOMAIN FirstOf /\ MonthOf[d] + 1 \in DOMAIN FirstOf
         /\ FirstOf[MonthOf[d]] \in Int /\ FirstOf[MonthOf[d] + 1] \in Int
         /\ FirstOf[MonthOf[d]] <= d /\ d < FirstOf[MonthOf[d] + 1]
<1>1. PICK m \in Months : d \in FirstOf[m]..(FirstOf[m + 1] - 1)
  BY InAMonth
<1>2. MonthOf[d] = m
  BY <1>1, MonthOfDay
<1>3. m \in Int /\ m \in DOMAIN FirstOf /\ m + 1 \in DOMAIN FirstOf /\ FirstOf[m] \in Int /\ FirstOf[m + 1] \in Int
  BY CalendarAssumption DEF Months
<1> QED
  BY <1>1, <1>2, <1>3

\* The same day i months on is in the month that is i after the day's.
LEMMA InMonthsIs ==
  ASSUME NEW d \in DOMAIN MonthOf, NEW i \in Nat,
         MonthOf[d]..(MonthOf[d] + i + 1) \subseteq DOMAIN FirstOf
  PROVE  /\ InMonths(d, i) \in Int
         /\ FirstOf[MonthOf[d] + i] <= InMonths(d, i) /\ InMonths(d, i) < FirstOf[MonthOf[d] + i + 1]
<1> DEFINE m == MonthOf[d]
           short == {LastOf(m + j) - FirstOf[m + j] : j \in 0..i} \cup {d - FirstOf[m]}
<1>1. m \in Int /\ FirstOf[m] \in Int /\ FirstOf[m] <= d /\ d \in Int
  BY DayInMonth
<1> HIDE DEF m
<1>2. ASSUME NEW j \in 0..i
      PROVE  /\ FirstOf[m + j] \in Int /\ FirstOf[m + j + 1] \in Int /\ FirstOf[m + j] < FirstOf[m + j + 1]
             /\ LastOf(m + j) = FirstOf[m + j + 1] - 1
  <2>1. m + j \in DOMAIN FirstOf /\ m + j + 1 \in DOMAIN FirstOf
    <3>1. m + j \in m..(m + i + 1) /\ m + j + 1 \in m..(m + i + 1)
      BY <1>1
    <3> QED
      BY <3>1 DEF m
  <2>2. m + j < m + j + 1
    BY <1>1
  <2> QED
    BY <2>1, <2>2, MonthsInOrder DEF LastOf
<1>3. short \subseteq Nat
  <2>1. ASSUME NEW j \in 0..i PROVE LastOf(m + j) - FirstOf[m + j] \in Nat
    BY <1>2
  <2>2. d - FirstOf[m] \in Nat
    BY <1>1
  <2> QED
    BY <2>1, <2>2
<1>4. \E x \in short : \A y \in short : x <= y
  <2>1. short # {}
    OBVIOUS
  <2> HIDE DEF short
  <2> QED
    BY <1>3, <2>1, Least
<1> DEFINE c == CHOOSE x \in short : \A y \in short : x <= y
<1>5. c \in short /\ \A y \in short : c <= y
  <2> HIDE DEF short
  <2> QED
    BY <1>4
<1>6. LastOf(m + i) - FirstOf[m + i] \in short
  OBVIOUS
<1>7. InMonths(d, i) = FirstOf[m + i] + c
  BY DEF InMonths, m
<1> HIDE DEF short, c
<1>8. c \in Nat /\ c <= LastOf(m + i) - FirstOf[m + i]
  BY <1>3, <1>5, <1>6
<1>9. FirstOf[m + i] \in Int /\ FirstOf[m + i + 1] \in Int /\ LastOf(m + i) = FirstOf[m + i + 1] - 1
  BY <1>2
<1>10. InMonths(d, i) \in Int /\ FirstOf[m + i] <= InMonths(d, i) /\ InMonths(d, i) < FirstOf[m + i + 1]
  BY <1>7, <1>8, <1>9
<1> QED
  BY <1>10 DEF m

\* The step from which a loop over months is beyond the last day.
LEMMA LastStep ==
  ASSUME NEW S, S \subseteq 0..13, S # {}
  PROVE  \E i \in 0..13 : i \in S /\ \A j \in 0..(i - 1) : j \notin S
<1>1. S \subseteq Nat
  OBVIOUS
<1>2. PICK i \in S : \A j \in S : i <= j
  BY <1>1, Least
<1>3. \A j \in 0..(i - 1) : j \notin S
  BY <1>1, <1>2
<1> QED
  BY <1>2, <1>3

\* Ranges that each begin in a month of their own.
LEMMA OwnMonths ==
  ASSUME NEW name, NEW n \in Nat, NEW m \in Int, NEW R, DOMAIN R = 1..n,
         m..(m + n) \subseteq DOMAIN FirstOf,
         \A i \in 1..n : \A a \in Int : In(a, R[i]) => 24 * FirstOf[m + i - 1] <= a /\ a < 24 * FirstOf[m + i]
  PROVE  Apart(name, R)
<1>1. ASSUME NEW a \in Int, NEW i \in 1..n, NEW j \in 1..n, In(a, R[i]), In(a, R[j]), i < j PROVE FALSE
  <2>1. 24 * FirstOf[m + j - 1] <= a /\ a < 24 * FirstOf[m + i]
    BY <1>1
  <2>2. m + i \in DOMAIN FirstOf /\ m + j - 1 \in DOMAIN FirstOf /\ m + i <= m + j - 1
    <3>1. m + i \in m..(m + n) /\ m + j - 1 \in m..(m + n) /\ m + i <= m + j - 1
      BY <1>1
    <3> QED
      BY <3>1
  <2>3. FirstOf[m + i] \in Int /\ FirstOf[m + j - 1] \in Int /\ FirstOf[m + i] <= FirstOf[m + j - 1]
    BY <2>2, MonthsInOrder
  <2> QED
    BY <2>1, <2>3
<1>2. ASSUME NEW a \in Int, NEW i \in 1..n, NEW j \in 1..n, In(a, R[i]), In(a, R[j]) PROVE i = j
  <2>1. i < j \/ j < i \/ i = j
    OBVIOUS
  <2> QED
    BY <1>1, <1>2, <2>1
<1> QED
  BY <1>2 DEF Apart

\* The steps of a loop over the months of a span, and one that is beyond it.
LEMMA StepsOfSpan ==
  ASSUME NEW from, NEW to, Span(from, to)
  PROVE  \E q \in 0..13 :
           /\ MonthOf[from]..(MonthOf[from] + q + 1) \subseteq DOMAIN FirstOf
           /\ \A i \in 0..q : InMonths(from, i) \in Int
           /\ InMonths(from, q) > to
<1> DEFINE m == MonthOf[from]
           e == MonthOf[to]
<1>1. /\ from \in DOMAIN MonthOf /\ to \in DOMAIN MonthOf /\ e - m <= 12 /\ m..(e + 2) \subseteq DOMAIN FirstOf
  BY DEF Span
<1>2. /\ to \in Int /\ e \in Int /\ e + 1 \in DOMAIN FirstOf /\ to < FirstOf[e + 1] /\ FirstOf[e + 1] \in Int
      /\ m \in Int /\ m \in DOMAIN FirstOf /\ m + 1 \in DOMAIN FirstOf /\ FirstOf[m] \in Int
  BY <1>1, DayInMonth
<1>3. ASSUME NEW q \in 0..13, m..(m + q + 1) \subseteq DOMAIN FirstOf, to < FirstOf[m + q]
      PROVE  \E r \in 0..13 :
               /\ MonthOf[from]..(MonthOf[from] + r + 1) \subseteq DOMAIN FirstOf
               /\ \A i \in 0..r : InMonths(from, i) \in Int
               /\ InMonths(from, r) > to
  <2>1. ASSUME NEW i \in 0..q PROVE InMonths(from, i) \in Int /\ FirstOf[m + i] <= InMonths(from, i)
    <3>1. m..(m + i + 1) \subseteq DOMAIN FirstOf
      <4>1. m..(m + i + 1) \subseteq m..(m + q + 1)
        BY <1>2
      <4> QED
        BY <1>3, <4>1
    <3> QED
      BY <1>1, <3>1, InMonthsIs
  <2>2. m + q \in DOMAIN FirstOf
    <3>1. m + q \in m..(m + q + 1)
      BY <1>2
    <3> QED
      BY <1>3, <3>1
  <2>3. FirstOf[m + q] \in Int /\ InMonths(from, q) > to
    <3>1. FirstOf[m + q] \in Int /\ InMonths(from, q) \in Int /\ FirstOf[m + q] <= InMonths(from, q)
      BY <2>1, <2>2, CalendarAssumption
    <3> QED
      BY <1>2, <1>3, <3>1
  <2> QED
    BY <1>3, <2>1, <2>3
<1>4. CASE e < m
  <2>1. m..(m + 0 + 1) \subseteq DOMAIN FirstOf
    <3>1. \A x \in m..(m + 0 + 1) : x = m \/ x = m + 1
      BY <1>2
    <3> QED
      BY <1>2, <3>1
  <2>2. to < FirstOf[m + 0]
    <3>1. e + 1 <= m
      BY <1>2, <1>4
    <3>2. FirstOf[e + 1] <= FirstOf[m]
      BY <1>2, <3>1, MonthsInOrder
    <3> QED
      BY <1>2, <3>2
  <2> QED
    BY <1>3, <2>1, <2>2
<1>5. CASE m <= e
  <2> DEFINE q == e - m + 1
  <2>1. q \in 0..13 /\ m + q = e + 1 /\ m + q + 1 = e + 2
    BY <1>1, <1>2, <1>5
  <2> HIDE DEF q
  <2> QED
    BY <1>1, <1>2, <1>3, <1>5, <2>1
<1> QED
  BY <1>2, <1>4, <1>5

\* The pairs of months of a slider: an answer is in two at most.
LEMMA SplitInMonthsIsFair ==
  ASSUME NEW from, NEW to, Span(from, to)
  PROVE  Fair("months", split_in_months(from, to))
<1> DEFINE R == split_in_months(from, to)
           m == MonthOf[from]
           n == CHOOSE i \in 0..13 : InMonths(from, i) > to /\ \A j \in 0..(i - 1) : InMonths(from, j) <= to
<1>1. m \in Int /\ to \in Int
  BY DayInMonth DEF Span
<1>2. PICK q \in 0..13 : /\ m..(m + q + 1) \subseteq DOMAIN FirstOf
                         /\ \A i \in 0..q : InMonths(from, i) \in Int
                         /\ InMonths(from, q) > to
  BY StepsOfSpan
<1>3. n \in 0..q
  <2> DEFINE S == {i \in 0..q : InMonths(from, i) > to}
  <2>1. S \subseteq 0..13 /\ q \in S
    BY <1>2
  <2>2. PICK i \in 0..13 : i \in S /\ \A j \in 0..(i - 1) : j \notin S
    BY <2>1, LastStep
  <2>3. \A j \in 0..(i - 1) : j \in 0..q /\ InMonths(from, j) <= to
    <3>1. ASSUME NEW j \in 0..(i - 1) PROVE j \in 0..q /\ InMonths(from, j) <= to
      <4>1. j \in 0..q
        BY <2>2
      <4> QED
        BY <1>1, <1>2, <2>2, <4>1
    <3> QED
      BY <3>1
  <2>4. n \in 0..13 /\ InMonths(from, n) > to /\ \A j \in 0..(n - 1) : InMonths(from, j) <= to
    BY <2>2, <2>3
  <2> HIDE DEF n
  <2>5. SUFFICES ASSUME n > q PROVE FALSE
    BY <2>4
  <2>6. InMonths(from, q) <= to /\ InMonths(from, q) \in Int
    BY <1>2, <2>4, <2>5
  <2> QED
    BY <1>1, <1>2, <2>6
<1>4. R = [i \in 1..n |-> <<At(FirstOf[m + i - 1], 0), At(LastOf(m + i), 23)>>]
  BY DEF split_in_months
<1> HIDE DEF R, n, m
<1>5. ASSUME NEW x \in m..(m + n + 1) PROVE x \in DOMAIN FirstOf /\ FirstOf[x] \in Int
  <2>1. x \in m..(m + q + 1)
    BY <1>1, <1>3
  <2> QED
    BY <1>2, <2>1, CalendarAssumption
<1>6. ASSUME NEW a \in Int, NEW i \in 1..n
      PROVE  /\ R[i][1] <= a <=> 24 * FirstOf[m + i - 1] <= a
             /\ a <= R[i][2] <=> a < 24 * FirstOf[m + i + 1]
  <2>1. m + i - 1 \in m..(m + n + 1) /\ m + i + 1 \in m..(m + n + 1)
    BY <1>1, <1>3
  <2>2. FirstOf[m + i - 1] \in Int /\ FirstOf[m + i + 1] \in Int
    BY <1>5, <2>1
  <2>3. R[i][1] = 24 * FirstOf[m + i - 1] + 0 /\ R[i][2] = 24 * (FirstOf[m + i + 1] - 1) + 23
    BY <1>4 DEF At, LastOf
  <2> QED
    BY <2>2, <2>3
<1>7. ASSUME NEW a \in Int, NEW i \in 1..n, NEW j \in 1..n, In(a, R[i]), In(a, R[j]), i < j
      PROVE  j = i + 1
  <2>1. 24 * FirstOf[m + j - 1] <= a /\ a < 24 * FirstOf[m + i + 1]
    BY <1>6, <1>7 DEF In
  <2>2. m + j - 1 \in m..(m + n + 1) /\ m + i + 1 \in m..(m + n + 1)
    BY <1>1, <1>3
  <2>3. m + j - 1 \in DOMAIN FirstOf /\ m + i + 1 \in DOMAIN FirstOf
    BY <1>5, <2>2
  <2>4. FirstOf[m + j - 1] \in Int /\ FirstOf[m + i + 1] \in Int
    BY <1>5, <2>2
  <2>5. FirstOf[m + j - 1] < FirstOf[m + i + 1]
    BY <2>1, <2>4
  <2>6. m + j - 1 < m + i + 1
    <3>1. ~ (m + i + 1 <= m + j - 1)
      BY <2>3, <2>4, <2>5, MonthsInOrder
    <3> QED
      BY <1>1, <1>3, <3>1
  <2> QED
    BY <1>1, <1>3, <1>7, <2>6
<1>8. Apart("months", R)
  <2>1. ASSUME NEW a \in Int, NEW i \in 1..n, NEW j \in 1..n, In(a, R[i]), In(a, R[j])
        PROVE  i = j \/ i - j \in {-1, 1}
    <3>1. i < j \/ j < i \/ i = j
      BY <1>3
    <3>2. CASE i < j
      BY <1>3, <1>7, <2>1, <3>2
    <3>3. CASE j < i
      BY <1>3, <1>7, <2>1, <3>3
    <3> QED
      BY <3>1, <3>2, <3>3
  <2> QED
    BY <1>4, <2>1 DEF Apart
<1>9. ASSUME NEW a \in Int, NEW i \in 1..n, NEW j \in 1..n, R[i][1] <= a, a <= R[j][2]
      PROVE  \E k \in 1..n : In(a, R[k])
  <2> DEFINE T == {k \in 1..n : a < 24 * FirstOf[m + k + 1]}
  <2>1. T \subseteq Nat /\ j \in T
    BY <1>3, <1>6, <1>9
  <2>2. PICK k \in T : \A x \in T : k <= x
    BY <2>1, Least
  <2>3. k \in 1..n /\ a < 24 * FirstOf[m + k + 1]
    BY <2>2
  <2>4. 24 * FirstOf[m + k - 1] <= a
    <3>1. CASE k = 1
      <4>1. m \in DOMAIN FirstOf /\ m + i - 1 \in DOMAIN FirstOf /\ m <= m + i - 1
        <5>1. m \in m..(m + n + 1) /\ m + i - 1 \in m..(m + n + 1) /\ m <= m + i - 1
          BY <1>1, <1>3
        <5> QED
          BY <1>5, <5>1
      <4>2. FirstOf[m] <= FirstOf[m + i - 1] /\ FirstOf[m] \in Int /\ FirstOf[m + i - 1] \in Int
        BY <4>1, MonthsInOrder
      <4>3. 24 * FirstOf[m + i - 1] <= a
        BY <1>6, <1>9
      <4>4. m + k - 1 = m
        BY <1>1, <3>1
      <4> QED
        BY <4>2, <4>3, <4>4
    <3>2. CASE k # 1
      <4>1. k - 1 \in 1..n /\ m + (k - 1) + 1 = m + k
        BY <1>1, <1>3, <2>3, <3>2
      <4>2. k - 1 \notin T
        BY <1>3, <2>2, <2>3
      <4>3. ~ (a < 24 * FirstOf[m + k])
        BY <4>1, <4>2
      <4>4. m + k \in DOMAIN FirstOf /\ m + k - 1 \in DOMAIN FirstOf /\ m + k - 1 <= m + k
        <5>1. m + k \in m..(m + n + 1) /\ m + k - 1 \in m..(m + n + 1) /\ m + k - 1 <= m + k
          BY <1>1, <1>3, <2>3
        <5> QED
          BY <1>5, <5>1
      <4>5. FirstOf[m + k - 1] <= FirstOf[m + k] /\ FirstOf[m + k - 1] \in Int /\ FirstOf[m + k] \in Int
        BY <4>4, MonthsInOrder
      <4> QED
        BY <4>3, <4>5
    <3> QED
      BY <3>1, <3>2
  <2> QED
    BY <1>6, <2>3, <2>4 DEF In
<1>10. Gapless("months", R)
  BY <1>4, <1>9 DEF Gapless
<1>11. Fair("months", R)
  BY <1>3, <1>4, <1>8, <1>10 DEF Fair
<1> QED
  BY <1>11 DEF R

\* From one day to another, cut at the ends of the months.
LEMMA WaterIsFair ==
  ASSUME NEW from, NEW to, Span(from, to)
  PROVE  Fair("water", get_months(At(from, 0), At(to, 0)))
<1> DEFINE start == At(from, 0)
           end   == At(to, 0)
           R == get_months(start, end)
           m == MonthOf[from]
           step(i) == At(InMonths(from, i), 0)
           n == CHOOSE i \in 0..13 : step(i) >= end /\ \A j \in 0..(i - 1) : step(j) < end
<1>1. /\ m \in Int /\ to \in Int /\ from \in Int /\ from \in DOMAIN MonthOf
      /\ FirstOf[m] \in Int /\ FirstOf[m] <= from
  BY DayInMonth DEF Span
<1>2. PICK q \in 0..13 : /\ m..(m + q + 1) \subseteq DOMAIN FirstOf
                         /\ \A i \in 0..q : InMonths(from, i) \in Int
                         /\ InMonths(from, q) > to
  BY StepsOfSpan
<1>3. \A i \in 0..q : /\ step(i) \in Int
                      /\ step(i) >= end <=> InMonths(from, i) >= to
                      /\ step(i) < end <=> ~ (step(i) >= end)
  <2>1. ASSUME NEW i \in 0..q PROVE /\ step(i) \in Int
                                    /\ step(i) >= end <=> InMonths(from, i) >= to
                                    /\ step(i) < end <=> ~ (step(i) >= end)
    <3>1. InMonths(from, i) \in Int
      BY <1>2
    <3> QED
      BY <1>1, <3>1 DEF At
  <2> QED
    BY <2>1
<1>4. n \in 0..q /\ step(n) >= end
  <2> DEFINE S == {i \in 0..q : step(i) >= end}
  <2>1. S \subseteq 0..13 /\ q \in S
    BY <1>1, <1>2, <1>3
  <2> HIDE DEF step
  <2>2. PICK i \in 0..13 : i \in S /\ \A j \in 0..(i - 1) : j \notin S
    BY <2>1, LastStep
  <2>3. \A j \in 0..(i - 1) : step(j) < end
    <3>1. ASSUME NEW j \in 0..(i - 1) PROVE step(j) < end
      <4>1. j \in 0..q
        BY <2>2
      <4> QED
        BY <1>3, <2>2, <4>1
    <3> QED
      BY <3>1
  <2>4. n \in 0..13 /\ step(n) >= end /\ \A j \in 0..(n - 1) : step(j) < end
    BY <2>2, <2>3
  <2> HIDE DEF n
  <2>5. SUFFICES ASSUME n > q PROVE FALSE
    BY <2>4
  <2>6. step(q) < end /\ step(q) >= end
    BY <1>3, <2>1, <2>4, <2>5
  <2> QED
    BY <1>3, <2>6
<1>5. Day(start) = from /\ Hour(start) = 0
  <2>1. (24 * from + 0) \div 24 = from /\ (24 * from + 0) % 24 = 0
    BY <1>1
  <2> QED
    BY <2>1 DEF Day, Hour, At
<1>6. R = [i \in 1..(n + 1) |-> <<IF i - 1 = 0 THEN start ELSE At(FirstOf[m + (i - 1)], 0),
                                  IF i <= n THEN At(LastOf(m + i - 1), 23) ELSE end>>]
  <2> HIDE DEF start, end
  <2> QED
    BY <1>5 DEF get_months
<1>7. step(n) >= end <=> InMonths(from, n) >= to
  BY <1>3, <1>4
<1> HIDE DEF R, n, m, step
<1>8. ASSUME NEW x \in m..(m + n + 1) PROVE x \in DOMAIN FirstOf /\ FirstOf[x] \in Int
  <2>1. x \in m..(m + q + 1)
    BY <1>1, <1>4
  <2> QED
    BY <1>2, <2>1, CalendarAssumption
<1>9. to < FirstOf[m + n + 1]
  <2>1. m..(m + n + 1) \subseteq DOMAIN FirstOf
    BY <1>8
  <2>2. InMonths(from, n) \in Int /\ InMonths(from, n) < FirstOf[m + n + 1]
    BY <1>1, <1>4, <2>1, InMonthsIs DEF m
  <2>3. m + n + 1 \in m..(m + n + 1)
    BY <1>1, <1>4
  <2>4. FirstOf[m + n + 1] \in Int
    BY <1>8, <2>3
  <2> QED
    BY <1>1, <1>4, <1>7, <2>2, <2>4
<1>10. start = 24 * from /\ end = 24 * to
  BY <1>1 DEF At
<1> HIDE DEF start, end
\* The bounds of each range: the month of its own, from the first day on, and to
\* the last.
<1>11. ASSUME NEW i \in 1..(n + 1)
       PROVE  /\ FirstOf[m + i - 1] \in Int /\ FirstOf[m + i] \in Int
              /\ R[i][1] = IF i = 1 THEN 24 * from ELSE 24 * FirstOf[m + i - 1]
              /\ R[i][2] = IF i <= n THEN 24 * FirstOf[m + i] - 1 ELSE 24 * to
  <2>1. m + i - 1 \in m..(m + n + 1) /\ m + i \in m..(m + n + 1) /\ m + (i - 1) = m + i - 1 /\ (i - 1 = 0 <=> i = 1)
    BY <1>1, <1>4
  <2>2. FirstOf[m + i - 1] \in Int /\ FirstOf[m + i] \in Int
    BY <1>8, <2>1
  <2>3. R[i] = <<IF i - 1 = 0 THEN start ELSE At(FirstOf[m + (i - 1)], 0),
                 IF i <= n THEN At(LastOf(m + i - 1), 23) ELSE end>>
    BY <1>6
  <2>4. At(FirstOf[m + i - 1], 0) = 24 * FirstOf[m + i - 1]
    BY <2>2 DEF At
  <2>5. At(LastOf(m + i - 1), 23) = 24 * FirstOf[m + i] - 1
    <3>1. m + i - 1 + 1 = m + i
      BY <1>1
    <3>2. LastOf(m + i - 1) = FirstOf[m + i] - 1
      BY <3>1 DEF LastOf
    <3> QED
      BY <2>2, <3>2 DEF At
  <2> QED
    BY <1>10, <2>1, <2>2, <2>3, <2>4, <2>5
<1>12. ASSUME NEW a \in Int, NEW i \in 1..(n + 1)
       PROVE  /\ In(a, R[i]) => 24 * FirstOf[m + i - 1] <= a /\ a < 24 * FirstOf[m + i]
              /\ R[i][1] <= a => 24 * from <= a
  <2>1. FirstOf[m + i - 1] \in Int /\ FirstOf[m + i] \in Int
    BY <1>11
  <2>2. R[i][1] <= a => 24 * FirstOf[m + i - 1] <= a
    <3>1. CASE i = 1
      <4>1. m + i - 1 = m
        BY <1>1, <3>1
      <4> QED
        BY <1>1, <1>11, <3>1, <4>1
    <3>2. CASE i # 1
      BY <1>11, <3>2
    <3> QED
      BY <3>1, <3>2
  <2>3. a <= R[i][2] => a < 24 * FirstOf[m + i]
    <3>1. CASE i <= n
      BY <1>11, <2>1, <3>1
    <3>2. CASE i = n + 1
      <4>1. m + i = m + n + 1 /\ ~ (i <= n)
        BY <1>1, <1>4, <3>2
      <4>2. R[i][2] = 24 * to
        BY <1>11, <4>1
      <4>3. to < FirstOf[m + i]
        BY <1>9, <4>1
      <4> QED
        BY <1>1, <2>1, <4>2, <4>3
    <3> QED
      BY <1>4, <3>1, <3>2
  <2>4. R[i][1] <= a => 24 * from <= a
    <3>1. CASE i = 1
      BY <1>11, <3>1
    <3>2. CASE i # 1
      <4>1. from < FirstOf[m + 1]
        BY <1>1, DayInMonth DEF m
      <4>2. m + 1 \in m..(m + n + 1) /\ m + i - 1 \in m..(m + n + 1) /\ m + 1 <= m + i - 1
        BY <1>1, <1>4, <3>2
      <4>3. m + 1 \in DOMAIN FirstOf /\ m + i - 1 \in DOMAIN FirstOf
        BY <1>8, <4>2
      <4>4. FirstOf[m + 1] <= FirstOf[m + i - 1] /\ FirstOf[m + 1] \in Int
        BY <4>2, <4>3, MonthsInOrder
      <4> QED
        BY <1>1, <1>11, <2>1, <3>2, <4>1, <4>4
    <3> QED
      BY <3>1, <3>2
  <2> QED
    BY <2>2, <2>3, <2>4 DEF In
<1>13. Apart("water", R)
  <2>1. DOMAIN R = 1..(n + 1) /\ n + 1 \in Nat
    BY <1>4, <1>6
  <2>2. m..(m + (n + 1)) \subseteq DOMAIN FirstOf
    <3>1. m + (n + 1) = m + n + 1
      BY <1>1, <1>4
    <3> QED
      BY <1>8, <3>1
  <2>3. \A i \in 1..(n + 1) : \A a \in Int : In(a, R[i]) => 24 * FirstOf[m + i - 1] <= a /\ a < 24 * FirstOf[m + i]
    BY <1>12
  <2> QED
    BY <1>1, <2>1, <2>2, <2>3, OwnMonths
<1>14. ASSUME NEW a \in Int, NEW i \in 1..(n + 1), NEW j \in 1..(n + 1), R[i][1] <= a, a <= R[j][2]
       PROVE  \E k \in 1..(n + 1) : In(a, R[k])
  <2> DEFINE T == {k \in 1..(n + 1) : k = n + 1 \/ a < 24 * FirstOf[m + k]}
  <2>1. T \subseteq Nat /\ n + 1 \in T
    BY <1>4
  <2>2. PICK k \in T : \A x \in T : k <= x
    BY <2>1, Least
  <2>3. k \in 1..(n + 1)
    BY <2>2
  <2>4. R[k][1] <= a
    <3>1. CASE k = 1
      BY <1>11, <1>12, <1>14, <2>3, <3>1
    <3>2. CASE k # 1
      <4>1. k - 1 \in 1..(n + 1) /\ m + (k - 1) = m + k - 1 /\ k - 1 \notin T
        BY <1>1, <1>4, <2>2, <2>3, <3>2
      <4>2. ~ (a < 24 * FirstOf[m + k - 1])
        BY <4>1
      <4> QED
        BY <1>11, <2>3, <3>2, <4>2
    <3> QED
      BY <3>1, <3>2
  <2>5. a <= R[k][2]
    <3>1. CASE k <= n
      <4>1. a < 24 * FirstOf[m + k]
        BY <1>4, <2>2, <3>1
      <4> QED
        BY <1>11, <2>3, <3>1, <4>1
    <3>2. CASE k = n + 1 /\ j = n + 1
      BY <1>14, <3>2
    <3>3. CASE k = n + 1 /\ j # n + 1
      <4>1. j \in T
        <5>1. j <= n
          BY <1>4, <3>3
        <5>2. a < 24 * FirstOf[m + j]
          BY <1>11, <1>14, <5>1
        <5> QED
          BY <5>2
      <4> QED
        BY <1>4, <2>2, <3>3, <4>1
    <3> QED
      BY <1>4, <2>3, <3>1, <3>2, <3>3
  <2> QED
    BY <2>3, <2>4, <2>5 DEF In
<1>15. Gapless("water", R)
  BY <1>6, <1>14 DEF Gapless
<1>16. Fair("water", R)
  BY <1>4, <1>6, <1>13, <1>15 DEF Fair
<1> QED
  BY <1>16 DEF R, start, end

\* A month and the one before it.
LEMMA TwoMonthsAreFair ==
  ASSUME NEW t \in Int, Day(t) \in DOMAIN MonthOf
  PROVE  Fair("violence", get_month_day_range(Day(t), 2))
<1> DEFINE R == get_month_day_range(Day(t), 2)
           m == MonthOf[Day(t)]
<1>1. m \in Int /\ FirstOf[m] \in Int
  BY DayInMonth
<1>2. DOMAIN R = 1..2 /\ \A i \in 1..2 : R[i] = <<At(FirstOf[m - i + 1], 8), At(LastOf(m - i + 1), 19)>>
  BY DEF get_month_day_range
<1> HIDE DEF R, m
<1>3. R[1][1] = 24 * FirstOf[m] + 8
  <2>1. m - 1 + 1 = m
    BY <1>1
  <2> QED
    BY <1>2, <2>1 DEF At
<1>4. R[2][2] = 24 * (FirstOf[m] - 1) + 19
  <2>1. m - 2 + 1 + 1 = m
    BY <1>1
  <2> QED
    BY <1>2, <2>1 DEF At, LastOf
<1>5. \A a \in Int : ~ (In(a, R[1]) /\ In(a, R[2]))
  BY <1>1, <1>3, <1>4 DEF In
<1>6. Apart("violence", R)
  BY <1>2, <1>5 DEF Apart
<1>7. Fair("violence", R)
  BY <1>2, <1>6 DEF Fair, Gapless
<1> QED
  BY <1>7 DEF R

\* A page has every answer that came in before it in the columns it is in.
ColumnsOK ==
  /\ DOMAIN page.sums = DOMAIN page.ranges /\ Fair(page.name, page.ranges)
  /\ \A i \in DOMAIN page.ranges : \A a \in answers :
       /\ a \in page.sums[i] => In(a, page.ranges[i])
       /\ a < page.at /\ In(a, page.ranges[i]) => a \in page.sums[i]

LEMMA InitColumns == Init => ColumnsOK
<1> SUFFICES ASSUME Init PROVE ColumnsOK
  OBVIOUS
<1>1. page.name = "none" /\ page.ranges = <<>> /\ page.sums = [i \in DOMAIN <<>> |-> Between(<<>>[i])] /\ answers = {}
  BY DEF Init, Columns
<1>2. Fair("none", <<>>)
  BY OneRange
<1> QED
  BY <1>1, <1>2 DEF ColumnsOK

LEMMA ServedColumns ==
  ASSUME NEW name, NEW heads, NEW ranges, NEW goal, Serve(name, heads, ranges, goal), Fair(name, ranges)
  PROVE  ColumnsOK'
<1>1. /\ page'.name = name /\ page'.ranges = ranges /\ page'.sums = [i \in DOMAIN ranges |-> Between(ranges[i])]
      /\ answers' = answers
  BY DEF Serve, Columns
<1>2. \A i \in DOMAIN ranges : \A a \in answers : a \in Between(ranges[i]) <=> In(a, ranges[i])
  BY DEF Between, In
<1> QED
  BY <1>1, <1>2 DEF ColumnsOK

LEMMA ColumnsStep ==
  ASSUME TypeOK, TimeOK, WorkerOK, ColumnsOK, [Next]_vars
  PROVE  ColumnsOK'
<1>1. /\ load \in Workloads /\ now \in Int /\ load.moments \subseteq Int
      /\ \A t \in load.moments : Day(t) \in DOMAIN MonthOf
      /\ page.at <= now /\ page.at \in Int
      /\ worker.term \in 1..3 /\ worker.term \in load.settings /\ worker.at \in load.moments
  BY ReportingAssumption DEF TypeOK, TimeOK, WorkerOK
<1>2. \A p \in load.asked \cup {<<TERMS[worker.term], TERM_ENDS[worker.term]>>} : Span(p[1], p[2])
  BY <1>1, SpansAssumption DEF Span
<1>3. \A p \in load.asked : p[1] \in Int /\ p[2] \in Int
  BY <1>1, ReportingAssumption
<1>4. CASE dash_report_api
  BY <1>1, <1>4, WeeklyIsFair, ServedColumns DEF dash_report_api
<1>5. CASE curriculum_progress \/ curriculum_chosen
  <2>1. PICK name \in {"curriculum", "chosen"} : \E heads, r, goal : Serve(name, heads, <<r>>, goal)
    BY <1>5 DEF curriculum_progress, curriculum_chosen
  <2>2. PICK heads, r, goal : Serve(name, heads, <<r>>, goal)
    BY <2>1
  <2>3. Fair(name, <<r>>)
    BY OneRange
  <2> QED
    BY <2>2, <2>3, ServedColumns
<1>6. CASE view_stats
  <2>1. PICK p \in load.asked :
          IF InWeeks(p[1], p[2])
          THEN Serve("slider", split_in_weeks(p[1], p[2]), split_in_weeks(p[1], p[2]), None)
          ELSE Serve("months", split_in_months(p[1], p[2]), split_in_months(p[1], p[2]), None)
    BY <1>6 DEF view_stats
  <2>2. Fair("slider", split_in_weeks(p[1], p[2]))
    BY <1>3, SplitInWeeksIsFair
  <2>3. Fair("months", split_in_months(p[1], p[2]))
    BY <1>2, SplitInMonthsIsFair
  <2> QED
    BY <2>1, <2>2, <2>3, ServedColumns
<1>7. CASE time_range_head_teachers
  BY <1>1, <1>7, TwoWeeksAreFair, ServedColumns DEF time_range_head_teachers
<1>8. CASE violence_details_dash
  <2>1. worker.months = get_month_day_range(Day(worker.at), 2)
    BY DEF WorkerOK
  <2>2. Fair("violence", worker.months)
    BY <1>1, <2>1, TwoMonthsAreFair
  <2> QED
    BY <1>8, <2>2, ServedColumns DEF violence_details_dash
<1>9. CASE detail_attd
  <2>1. PICK p \in load.asked :
          Serve("detail", get_date_range(At(p[1], 0), At(p[2], 0)), get_date_range(At(p[1], 0), At(p[2], 0)), None)
    BY <1>9 DEF detail_attd
  <2> QED
    BY <1>3, <2>1, DetailIsFair, ServedColumns
<1>10. CASE detail_water_view
  <2>1. PICK p \in load.asked \cup {<<TERMS[worker.term], TERM_ENDS[worker.term]>>} :
          Serve("water", get_months(At(p[1], 0), At(p[2], 0)), get_months(At(p[1], 0), At(p[2], 0)), None)
    BY <1>10 DEF detail_water_view
  <2> QED
    BY <1>2, <2>1, WaterIsFair, ServedColumns
<1>11. CASE system_report
  BY <1>1, <1>11, SystemIsFair, ServedColumns DEF system_report
<1>12. CASE Answer
  <2>1. answers' = answers \cup {now} /\ page' = page /\ now \notin answers
    BY <1>12 DEF Answer
  <2>2. \A i \in DOMAIN page.sums : page.sums[i] \subseteq answers
    BY DEF TypeOK
  <2>3. ~ (now < page.at)
    BY <1>1
  <2> QED
    BY <2>1, <2>2, <2>3 DEF ColumnsOK
<1>13. CASE new_comment \/ Start \/ Tick \/ UNCHANGED vars
  <2>1. answers' = answers /\ page' = page
    BY <1>13 DEF new_comment, Start, Tick, vars
  <2> QED
    BY <2>1 DEF ColumnsOK
<1> QED
  BY <1>4, <1>5, <1>6, <1>7, <1>8, <1>9, <1>10, <1>11, <1>12, <1>13 DEF Next

\* What the columns are is enough for the answers to be counted once.
LEMMA FairCounts ==
  ASSUME TypeOK, TimeOK, ColumnsOK PROVE EachAnswerOnce
<1> SUFFICES ASSUME NEW a \in answers
    PROVE LET in == {i \in DOMAIN page.sums : a \in page.sums[i]}
          IN /\ Cardinality(in) <= SharedBy(a, page.name)
             /\ /\ page.name \in {"weekly", "system", "water", "slider", "months"}
                /\ a < page.at /\ Counted(a, page.name)
                /\ \E i, j \in DOMAIN page.ranges : page.ranges[i][1] <= a /\ a <= page.ranges[j][2]
                => in # {}
  BY DEF EachAnswerOnce
<1> DEFINE in == {i \in DOMAIN page.sums : a \in page.sums[i]}
           R == page.ranges
<1>1. a \in Int
  BY ReportingAssumption DEF TypeOK, TimeOK
<1>2. DOMAIN page.sums = DOMAIN R /\ DOMAIN R \subseteq Int /\ Apart(page.name, R) /\ Gapless(page.name, R)
  BY DEF ColumnsOK, Fair
<1>3. \A i \in in : i \in DOMAIN R /\ In(a, R[i])
  BY <1>2 DEF ColumnsOK
<1>4. \A i \in DOMAIN R : a < page.at /\ In(a, R[i]) => i \in in
  BY <1>2 DEF ColumnsOK
<1>5. in \subseteq Int
  BY <1>2
<1> HIDE DEF in, R
<1>6. Cardinality(in) <= SharedBy(a, page.name)
  <2> DEFINE shared == page.name = "months" \/ (page.name = "detail" /\ Hour(a) = 0)
  <2>1. \A i, j \in in : i = j \/ (shared /\ i - j \in {-1, 1})
    BY <1>1, <1>2, <1>3, Zenon DEF Apart
  <2> HIDE DEF shared
  <2>2. CASE shared
    <3>1. Cardinality(in) <= 2
      BY <1>5, <2>1, TwoColumns
    <3> QED
      BY <2>2, <3>1 DEF SharedBy, shared
  <2>3. CASE ~ shared
    <3>1. Cardinality(in) <= 1
      BY <1>5, <2>1, <2>3, OneColumn
    <3> QED
      BY <2>3, <3>1 DEF SharedBy, shared
  <2> QED
    BY <2>2, <2>3
<1>7. ASSUME page.name \in {"weekly", "system", "water", "slider", "months"}, a < page.at, Counted(a, page.name),
             \E i, j \in DOMAIN R : R[i][1] <= a /\ a <= R[j][2]
      PROVE  in # {}
  <2>1. PICK k \in DOMAIN R : In(a, R[k])
    BY <1>1, <1>2, <1>7, Zenon DEF Gapless
  <2> QED
    BY <1>4, <1>7, <2>1
<1> QED
  BY <1>6, <1>7 DEF in, R

\* For any calendar that covers what is asked for, spans of a year at most, and
\* any moments: no page counts an answer twice, but where its columns share a
\* month or a midnight, and the pages by weeks and months leave none out between
\* their first and last columns (the ranges of the education app's pages).
THEOREM PagesCountOnce == Spec => []EachAnswerOnce
<1>1. Spec => [](Inv /\ CommentInv /\ TypeOK /\ WorkerOK /\ ColumnsOK)
  <2>1. (Inv /\ CommentInv /\ TypeOK /\ WorkerOK /\ ColumnsOK) /\ [Next]_vars
        => (Inv /\ CommentInv /\ TypeOK /\ WorkerOK /\ ColumnsOK)'
    BY PageStep, CommentStep, TypeStep, WorkerStep, ColumnsStep DEF Inv
  <2> QED
    BY InitInv, InitComments, InitTypes, InitWorker, InitColumns, <2>1, PTL DEF Spec
<1>2. Inv /\ TypeOK /\ ColumnsOK => EachAnswerOnce
  BY FairCounts DEF Inv
<1> QED
  BY <1>1, <1>2, PTL
=============================================================================
