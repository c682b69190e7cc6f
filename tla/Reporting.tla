----------------------------- MODULE Reporting -----------------------------
(***************************************************************************)
(* The pages of the education app that count answers by week and month,    *)
(* while time goes on, answers come in, and worker processes are started.  *)
(* A worker computes some of its ranges when it imports views.py, the      *)
(* others at each request.  Calendar has the ranges.                       *)
(*                                                                         *)
(* An answer is the hour it came in at.  page is the page served last: its *)
(* headings, the ranges it counts, and the answers in each; a page changes *)
(* nothing, so any two pages that could ever be served can be the last and *)
(* the one before it.                                                      *)
(***************************************************************************)
EXTENDS Calendar, FiniteSets

CONSTANT
  Workloads  \* what may happen in a run, a record of
             \*   moments:  the hours at which something may happen
             \*   events:   pages by name, comments by period, "start" of a worker
             \*   asked:    pairs of days that forms are filled in with
             \*   settings: the terms that the settings may name as the current one
             \*   answers, comments: how many there may be

ASSUME ReportingAssumption ==
  \A w \in Workloads :
    /\ w.moments \subseteq Int /\ \A t \in w.moments : Day(t) \in DOMAIN MonthOf
    /\ w.asked \subseteq Int \X Int /\ w.settings \subseteq DOMAIN TERMS
    /\ w.answers \in Nat /\ w.comments \in Nat

\* What a form asks for and the terms span a year at most, and the months go on
\* for two more: the loops over months end by their bound of 13.
ASSUME SpansAssumption ==
  \A w \in Workloads : \A p \in w.asked \cup {<<TERMS[k], TERM_ENDS[k]>> : k \in w.settings} :
    /\ p[1] \in DOMAIN MonthOf /\ p[2] \in DOMAIN MonthOf
    /\ MonthOf[p[2]] - MonthOf[p[1]] <= 12
    /\ MonthOf[p[1]]..(MonthOf[p[2]] + 2) \subseteq DOMAIN FirstOf

VARIABLES
  load,      \* the workload, which stays
  now,       \* the hour
  answers,   \* the hours of the responses to one poll
  worker,    \* when it was started, with which current term, and what it keeps
  comments,  \* rows of ReportComment: their period and their report_date
  page       \* the page served last

vars == <<load, now, answers, worker, comments, page>>

-----------------------------------------------------------------------------
\* The module-level names of views.py: SELECT_CHOICES, current_month and
\* previous_month.  Without choices, the import has failed.
Import(t, k) ==
  [at |-> t, term |-> k, choices |-> get_weeks_in_term(t, k), months |-> get_month_day_range(Day(t), 2)]

Up == worker.choices # <<>>

Between(range) == {a \in answers : range[1] <= a /\ a <= range[2]}

\* A page of one column for each of the ranges, under the headings given.
Columns(name, heads, ranges, goal) ==
  [name |-> name, at |-> now, heads |-> heads, ranges |-> ranges,
   sums |-> [i \in DOMAIN ranges |-> Between(ranges[i])], target |-> goal]

\* Bug: the sums are kept from the page before.
BugServe(name, heads, ranges, goal) ==
  /\ Up /\ name \in load.events
  /\ page' = [Columns(name, heads, ranges, goal) EXCEPT !.sums = page.sums]
  /\ UNCHANGED <<load, now, answers, worker, comments>>

Serve(name, heads, ranges, goal) ==
  /\ Up /\ name \in load.events
  /\ page' = Columns(name, heads, ranges, goal)
  /\ UNCHANGED <<load, now, answers, worker, comments>>

\* Four weeks: the dashboard's data, and the absenteeism before a form is sent.
dash_report_api == LET w == get_week_date(now, 4) IN Serve("weekly", w, w, None)

\* The current week, unless the form names another; what the form sends are the
\* days of the choice, without their hours.
curriculum_progress ==
  LET w == CurrentWeek(now) IN Serve("curriculum", <<w>>, <<w>>, get_target_value(w[1]))

format_to_datetime_object(week) == <<At(Day(week[1]), 0), At(Day(week[2]), 0)>>

\* Bug: the goal is that of the day the page is asked for.
BugGoalOfToday ==
  \E i \in DOMAIN worker.choices :
    LET w == format_to_datetime_object(worker.choices[i])
    IN Serve("chosen", <<worker.choices[i]>>, <<w>>, get_target_value(now))

curriculum_chosen ==
  \E i \in DOMAIN worker.choices :
    LET w == format_to_datetime_object(worker.choices[i])
    IN Serve("chosen", <<worker.choices[i]>>, <<w>>, get_target_value(w[1]))

\* The form of the attendance pages.
view_stats ==
  \E p \in load.asked :
    IF InWeeks(p[1], p[2])
    THEN LET w == split_in_weeks(p[1], p[2]) IN Serve("slider", w, w, None)
    ELSE LET w == split_in_months(p[1], p[2]) IN Serve("months", w, w, None)

\* This week and the one before, of the page of the head teachers.
time_range_head_teachers ==
  LET this == previous_calendar_week(now)
      w    == <<this, previous_calendar_week(this[1] - 24)>>
  IN Serve("slider", w, w, None)

\* The headings are of now, the numbers of when the worker was started.
violence_details_dash ==
  Serve("violence", get_month_day_range(Day(now), 2), worker.months, None)

\* The form of the absenteeism pages.
detail_attd ==
  \E p \in load.asked : LET w == get_date_range(At(p[1], 0), At(p[2], 0)) IN Serve("detail", w, w, None)

detail_water_view ==
  \E p \in load.asked \cup {<<TERMS[worker.term], TERM_ENDS[worker.term]>>} :
    LET w == get_months(At(p[1], 0), At(p[2], 0)) IN Serve("water", w, w, None)

system_report == LET w == date_bunches(worker.term) IN Serve("system", w, w, None)

-----------------------------------------------------------------------------
\* A comment on a week or a month gets the date of its first morning; one on a
\* term has the date that the form sends, and is not saved without it.
report_date(period, sent) ==
  CASE period = "wk" -> get_week_date(now, 2)[1][1]
    [] period = "mo" -> get_month_day_range(Day(now), 1)[1][1]
    [] period = "t"  -> sent

new_comment ==
  /\ Up /\ Len(comments) < load.comments
  /\ \E period \in {"wk", "mo", "t"} \cap load.events : \E p \in load.asked :
       comments' = Append(comments, [period |-> period, date |-> report_date(period, At(p[1], 0))])
  /\ UNCHANGED <<load, now, answers, worker, page>>

\* Bug: the month is that of the reader.
BugThisMonth(c) ==
  IF c.period = "mo" THEN get_month_day_range(Day(now), 1)[1] ELSE get_week_date(now, 2)[1]

\* What the list of comments shows beside one.
get_range_on_date(c) ==
  CASE c.period = "wk" -> get_week_date(now, 2)[1]
    [] c.period = "t"  -> <<At(TERMS[worker.term], 0), At(TERM_ENDS[worker.term], 0)>>
    [] c.period = "mo" -> get_month_day_range(Day(c.date), 1)[1]

-----------------------------------------------------------------------------
Answer ==
  /\ now \notin answers
  /\ Cardinality(answers) < load.answers
  /\ answers' = answers \cup {now}
  /\ UNCHANGED <<load, now, worker, comments, page>>

\* A worker is replaced after 1000 requests, when it is killed, and when the
\* site is installed with the settings of another term.
Start ==
  /\ "start" \in load.events
  /\ \E k \in load.settings : worker' = Import(now, k)
  /\ UNCHANGED <<load, now, answers, comments, page>>

Tick ==
  /\ \E t \in load.moments : now < t /\ (\A u \in load.moments : now < u => t <= u) /\ now' = t
  /\ UNCHANGED <<load, answers, worker, comments, page>>

Init ==
  /\ load \in Workloads
  /\ now \in {t \in load.moments : \A u \in load.moments : t <= u}
  /\ \E k \in load.settings : worker = Import(now, k)
  /\ answers = {} /\ comments = <<>>
  /\ page = Columns("none", <<>>, <<>>, None)

Next ==
  \/ dash_report_api \/ curriculum_progress \/ curriculum_chosen \/ view_stats
  \/ time_range_head_teachers \/ violence_details_dash \/ detail_attd \/ detail_water_view
  \/ system_report \/ new_comment \/ Answer \/ Start \/ Tick

Spec == Init /\ [][Next]_vars

-----------------------------------------------------------------------------
TypeOK ==
  /\ load \in Workloads
  /\ now \in load.moments /\ answers \subseteq load.moments
  /\ worker.at \in load.moments /\ worker.at <= now /\ worker.term \in load.settings
  /\ page.at \in load.moments /\ page.at <= now
  /\ DOMAIN page.sums = DOMAIN page.ranges
  /\ \A i \in DOMAIN page.sums : page.sums[i] \subseteq answers
  /\ \A i \in DOMAIN comments : comments[i].period \in {"wk", "mo", "t"}

\* What a page means to count: a week from Thursday, 8:00, to Wednesday, 19:00,
\* but on a slider from Thursday to Tuesday, and all of a month.
Counted(a, name) ==
  CASE name \in {"water", "months"} -> TRUE
    [] name = "slider" -> Weekday(Day(a)) # THURSDAY - 1
    [] OTHER -> /\ Weekday(Day(a)) = THURSDAY => Hour(a) >= 8
                /\ Weekday(Day(a)) = THURSDAY - 1 => Hour(a) <= 19

\* No column of a page takes an answer that another has (two do on a slider set
\* over many months, and on the absenteeism form if it came in at the midnight at
\* which they meet), and on the pages by weeks or months every answer from the
\* first to the last column is in one: the ranges of get_week_date, date_bunches,
\* previous_calendar_week and get_months neither overlap nor leave gaps, and
\* those of get_date_range and get_month_day_range do not overlap but there.
SharedBy(a, name) == IF name = "months" \/ (name = "detail" /\ Hour(a) = 0) THEN 2 ELSE 1

EachAnswerOnce ==
  \A a \in answers :
    LET in == {i \in DOMAIN page.sums : a \in page.sums[i]}
    IN /\ Cardinality(in) <= SharedBy(a, page.name)
       /\ /\ page.name \in {"weekly", "system", "water", "slider", "months"}
          /\ a < page.at /\ Counted(a, page.name)
          /\ \E i, j \in DOMAIN page.ranges : page.ranges[i][1] <= a /\ a <= page.ranges[j][2]
          => in # {}

\* Two pages agree on every week that was over when the first was served: the
\* week of an answer is told by the answer, not by when it is asked for.
ByWeek(p) == p.name \in {"weekly", "curriculum", "system"}
Over(range, t) == At(Day(range[1]) + 6, 19) < t

WeeksAgree ==
  [][ByWeek(page) /\ ByWeek(page') =>
       \A i \in DOMAIN page.heads, j \in DOMAIN page'.heads :
         Day(page.heads[i][1]) = Day(page'.heads[j][1]) /\ Over(page.heads[i], page.at)
         => page.sums[i] = page'.sums[j]]_vars

\* A worker offers each week of the terms gone by and of the current one up to
\* its start, once; there is no worker only if it was started before the first
\* Thursday of the current term.
OffersTermWeeks ==
  LET offers(d) == {i \in DOMAIN worker.choices : Day(worker.choices[i][1]) = d}
      own       == {d \in TERMS[worker.term]..Day(worker.at) : Weekday(d) = THURSDAY}
      before(k) == {d \in TERMS[k]..(TERMS[k] + 83) : Weekday(d) = THURSDAY}
  IN IF Up THEN \A d \in own \cup UNION {before(k) : k \in 1..(worker.term - 1)} : Cardinality(offers(d)) = 1
           ELSE own = {}

\* The curriculum page has a goal for every week that begins in the first 12
\* weeks of a term, asked for now or chosen.
GoalPage(p) == p.name \in {"curriculum", "chosen"}

TermWeeksHaveGoals ==
  GoalPage(page) /\ (\E k \in DOMAIN TERMS : Day(page.heads[1][1]) \in TERMS[k]..(TERMS[k] + 83))
  => page.target > 0

\* The goal of a later week is never behind that of an earlier one, through the
\* terms and whichever of the pages is asked for first.
GoalsGrow ==
  [][GoalPage(page) /\ GoalPage(page') /\ page.target > 0 /\ page'.target > 0 =>
       /\ page.heads[1][1] <= page'.heads[1][1] => page.target <= page'.target
       /\ page'.heads[1][1] <= page.heads[1][1] => page'.target <= page.target]_vars

\* A comment on a month is shown with the month that it was written in, whenever
\* it is read (report_date and get_range_on_date).
CommentKeepsItsMonth ==
  \A i \in DOMAIN comments : comments[i].period = "mo" => get_range_on_date(comments[i])[1] = comments[i].date
=============================================================================
