# EduTrac: models of its SMS dialogue, polls, roster, queues and reports

EduTrac asks head teachers, teachers and school committees questions by SMS and
collects their answers.  Its logic is in two loops around one PostgreSQL
database: a cron job that carries every phone number through its *scripts* (a
script is a list of timed questions), and a messenger that sends the queued
messages to an SMS gateway.  Web workers receive the answers, register those who
write for the first time, and serve the pages on which the staff make polls and
rules, edit reporters and reschedule them.  None of the processes knows of the
others: they meet in the tables, in transactions at READ COMMITTED, where every
statement sees what was committed before it.  Most of what follows is about that.

Paths are relative to `src/edtrac_project/`.

## 1. Inventory

| Part | State | Operations | Talks to |
|---|---|---|---|
| Dialogue engine, `rapidsms_script/script` | `ScriptProgress` rows (step, status, time, num_tries), `ScriptSession` rows (open or closed) | `check_progress`: expire, giveup, resend, moveon, start, `mass_text` | outgoing queue; signals pre_change, script_progress, was_completed, was_expired |
| Answers, `script/utils/incoming.py`, `education/app.py` | the same rows, `Response`, `Blacklist` | answer, wrong answer, quit, join | poll, engine's tables |
| Receivers, `education/models/utils.py` | the same rows, contacts, groups | skip steps by role or grade, give up, reschedule, complete a registration | called by the engine inside its pass |
| Scheduling, `education/scheduling.py` | the same rows | dates of the roster, `scripts_for`, `schedule_at`, `schedule_all`, `schedule_script` | roster and groups in the settings |
| Registration, `education/models/utils.py` | contacts, their group and grade | `join`, `edtrac_autoreg` at the end of its script | scheduling |
| Staff's pages, `education/views.py`, `water_polls_views.py` | all of these | add and delete numbers, edit a reporter, reschedule | scheduling |
| Polls, `rapidsms_polls/poll` | `Poll`, contacts, `Category`, `Rule`, `Response`, `ResponseCategory` | create, start, end, edit; process an answer; reprocess all when rules change | queue, router |
| Forms, `rapidsms_xforms` | `XFormSubmission` and its values, confirmation numbers | find the form, parse, submit, edit | router |
| Incoming, `router.py` `handle_incoming` | `Message` (R, H) | one phase over the installed apps: education, script, poll, forms | apps |
| Outgoing queue, `rapidsms_httprouter/models.py`, `router.py`, `unregister/models.py`, `poll/app.py` | `Message` (P, Q, S, C), `MessageBatch` (Q, S), `Blacklist` | `mass_text` and `bulk_process`, `add_outgoing`, `respond_to_message` | called by everybody |
| Messenger, `management/commands/send_messages.py` | none between rounds | batch, chunk, individual message, count and close | gateway over HTTP |
| Reports, `education/reports.py`, `utils.py`, `views.py`, `view_helper.py`, ... | ranges computed when a worker is started; `ReportComment` | pages by week and month over the responses, goals of the curriculum, comments | polls' responses |
| The rest | | lists, exports, EAV, reversion, rapidsms core | read, or third-party |

What is hard:

* **Queries are lazy.** `to_resend`, `to_transition` and `self` in `giveup` are
  querysets: each use runs the query again, and rows may have come or gone.
* **Transactions are cut in the middle.** `Message.mass_text` is
  `commit_on_success` inside the pass's manual transaction, and commits what the
  pass has written up to there.  An exception later rolls back only the rest.
* **Rows are saved whole.** A worker reads a row, has a poll process the
  answer, and saves all columns of its copy, or inserts it if it has gone.
* **Receivers run inside the pass**, move rows the pass has just moved, or give
  them up, and can raise.
* **The gateway is outside of every transaction**, and forgets nothing.
* **A request is one transaction** that reads when it begins and shows when it
  commits; nothing it reads is locked.  A count and a create, a copy and its
  save, a query and a loop of saves can have another request between them.
* **A start of a poll is two commits**: the questions, and then the date.
* **Weeks are computed in many places**, some at each request and some when a worker
  imports the module; each cuts days and hours in its own way, and what a page
  says of a week must not depend on which page is asked, and when.

What makes each part correct:

* engine: a run is asked each question, not too often, one step at a time; it
  ends, its session is closed once, and the next run is scheduled; a pass that
  fails repeats nothing that was sent and loses nothing; only live runs get texts.
* answers: an answered question stays answered; whoever quits is out.
* scheduling: one row a connection and script, as long as the roster has dates.
* queue: what was cancelled is not sent; what is marked sent was accepted;
  duplicates come from failures only; every message leaves; a batch is closed
  when it is empty.
* roster: one row a connection and script; whoever has quit is on none; whoever
  is registered is on those of its groups, whatever runs, edits and words follow.
* polls: one response a contact where the poll says so, the good one; categories
  as the rules say, but for the staff's; an answer follows its question, and the
  question is sent once.
* forms: a submission that is not in error is complete; a confirmation number
  is of one submission.
* router: who has quit is heard by no app.
* reports: an answer counts in one week, and in the same one whenever asked for; the
  weeks offered are those of the terms, and every week of a term has a goal.

Every place where this can go wrong is a hazard in `PROJECT.json`, with its
line and the properties that watch it.

## 2. The modules

    ScriptProgress          the engine: tables, the cron pass, receivers
      EducationApp          + workers, requests, clock: a complete system
        MCEducationApp      small scripts for TLC
        EducationAppProofs  theorems
          SilentProofs      theorems about connections that never answer; the engine implements Dialogue
    Dialogue                what the engine promises of a silent connection (abstract)
    Receivers               where the receivers leave a row, by grade and role
    Outbox                  what the queue promises of a message (abstract)
    Messenger               the outgoing queue and the messenger, an implementation
      MCMessenger           small queues for TLC
      MessengerProofs       theorems
    Database                committed tables, and requests as transactions on them
      Scheduling            scheduling.py over the tables
        Roster              joins, quits, registration, the staff's pages
      Polls                 polls, answers, rules and categories
      XForms                forms by SMS
        Incoming            Roster, Polls and XForms under the router: a complete system
          MCIncoming        small workloads for TLC
      DatabaseProofs        lemmas: what composed effects drop, put and make
        IncomingProofs      theorems
          OverlapProofs     theorems about requests that do not overlap
            PollsProofs     theorems about answers
    Calendar                the weeks, months and terms of the reports (pure)
      Reporting             pages, workers, answers, comments in time: a complete system
        MCReporting         the calendar of 2014 for TLC
        ReportingProofs     theorems

Each of the four systems leaves out what the others have.  The engine and the
messenger touch in `Message.mass_text`: for the engine it is a commit and the
counter `sent`; for the messenger it is three steps (`mass_text`, `bulk_queue`,
`bulk_cancel`) whose effects others see when it commits; for a poll (`Incoming`) it
is a commit and the rows of `asked`.  The engine and the roster touch at the ends
of a run: in `EducationApp` a connection has one script, and its runs are followed
step by step; in `Roster` it has several, and a run is a row with a day, which
`Ended` deletes and replaces.  `Reporting` reads what `Polls` writes, of which it
keeps the date of a response only.

### ScriptProgress

| Variable | In the code |
|---|---|
| `db` | committed `ScriptProgress` rows, by connection and number; a `gone` row is none |
| `tx`, `held` | the pass's uncommitted rows; they are locked. `View` is what the pass reads |
| `open`, `txopen` | `ScriptSession` rows without end_time, committed and as the pass sees them |
| `sent` | for each run and step, the texts of that step queued for it |
| `runs` | rows a connection has been given (a sequence, never rolled back) |
| `blacklist` | `unregister.Blacklist` |
| `pc`, `at` | where the pass is: between which two statements, at which step of the loop |
| `list` | `to_resend_list`, `to_trans_list`, `to_start_list` |
| `todo` | what giveup's loop has read |
| `moved` | history: rows the pass has moved that no worker has written since |
| `due`, `fails` | the cron's minute; failures so far |

Each action of `Pass` is what lies between two points where another process's
commit can make a difference: between the evaluation of a queryset and the
statement that evaluates it again.  `expired`, `need_to_resend`,
`need_to_transition` and `need_to_start` are the querysets, over `View`.
`GiveUpOne`/`DeleteExpired` and `SelectEnding`/`GiveUpOne`/`DeleteEnded` are
`giveup`, called by `expire` and by `moveon` at the last step.  `Transition` and
`StartRuns` take `moveon` with the receivers and the two counting updates as one
step: rows the first update has written are locked from there on.  `mass_text`
writes, or, when there is anybody to text, commits; the text is that of the step
of *some* row of the list, as `self[0]` has no order.  `FailPass` is the
exception and the rollback, at every point.

Time is the age of a row.  All tests compare an age with an offset, so ages
saturate at `MaxAge`.  The clock moves between passes, which are short
against the offsets (seconds against hours or days).  It may move many times without
a pass: outside the hours 8 to 19 the job does nothing.

`Land` is the receivers of `script_progress`: where a connection's row ends up
when it enters a step (`edtrac_attendance_script_transition` skips by grade,
or gives up on the last step; `edtrac_autoreg_transition` by role).  It is fixed
for a connection: its grade or role does not change during a run of the model.
`Receivers` has the two loops themselves, over the polls of a script, and
`MCEducationApp` takes the landing of the run `silent` from it.

### EducationApp

`ReadProgress`, `LogResponse` and `SaveProgress` are the three moments of an
answer: the row is read, the response is recorded in the open session (without
one the handler raises), the copy is saved: as complete, as pending after an
error (education's second save), or with one more try in `edtrac_autoreg`.
The answer is one transaction, and the response it has recorded refers to its
session: a quit that deletes the session makes the answer's commit fail, so that
nothing of it is there (`Quit` drops it).
`RepeatError` is an answer nobody waits for whose text equals an earlier wrong
response: `Response...latest('date')` takes that one.  `LoseAnswer` is a worker
killed by uwsgi.  `ReadQuit` and `Quit`, `ReadSchedule` and `schedule_at` are
the requests that delete rows: Django's `delete()` collects keys and then deletes
those, waiting for locks.  `Join` takes the connection off the blacklist, and in
`edtrac_autoreg` creates a row.  `Tick` is the clock.

### Messenger

Messages, with fixed batch and recipient, go from `none` to P, Q, S or C.
`mass_text(b, s)` inserts in processing (a script's text) or queued (a poll's),
and `bulk_queue`, `bulk_cancel` are the two updates of `bulk_process`, each of
which reads the blacklist again.  `add_outgoing` is a reply,
`respond_to_message` a poll's response that queues the poll's batch again.
A round of the messenger is `PickBatch`, then `Fetch` and `Update` for each
backend of the chunk, then `EndRound`; or `Count` and `CloseBatch`;
or `send_individual`.  `Fetch` is one HTTP request: accepted, refused, or
accepted and the answer lost (the except branch queues the messages again).
The command enters transaction management (`send_messages.py:167`) but does not
make it managed, and `TRANSACTIONS_MANAGED` is not set, so each update and save
commits by itself: `Update` is seen by everybody at once, and the commit at line
141 has nothing left to commit.  `Abort` is an exception or a restart at any
point of a round: it drops the rest of the chunk, and leaves queued what the
gateway has just accepted and no update has marked.
`accepted` counts what the gateway has taken: a history variable.

### Outbox

The promise without batches, chunks, backends or blacklist: a set of messages is
submitted, delivered (one more copy each), confirmed, cancelled if no copy was
delivered; a failure loses the answer to a delivery or forgets what was taken.  What
is delivered at once is a request (`Requests`: a chunk at most, to one backend), and
the next one comes after the first is confirmed or forgotten, so that a failure puts
the messages of one request in doubt and no more.  `Messenger` maps to it by
`Queue == INSTANCE Outbox WITH ...`: a message waits from its insertion on, in
processing or queued, and is taken from the gateway's answer to the update that
marks it.

### Dialogue

For a connection that never answers: it is in one run at a time, enters the
steps in order (landing where its receiver leaves it), leaves the run at the last step
or where a rule or a receiver gives it up, and from that moment on is in the next
run; it gets one text at a time, of the run it is in.  There are no querysets,
sessions, passes or rollbacks.  `EducationApp` maps the committed rows to it
(`KeepsDialogue`): every commit in the middle of a pass is a step of each connection.

### Database, and what a request is

`db` is the committed tables, sets of records with an `id`.  A request of
`Incoming` is an entry of `open`: its kind and subject, how far it is (`place`), and
what it has written, an effect: ids deleted (`drop`), rows written (`put`), ids of
new ones (`made`).  It reads and computes its effect when it begins (a page, a
message in the education app) or in one more phase (`PollPhase`, `FormPhase`);
`Commit` applies it to what is in the tables *then*.  So a save of a copy writes all
columns over what has been committed since, a delete takes the rows that were
read, a row inserted meanwhile stays, and a row that is saved and has gone is
there again, or not (Django looks for it, and updates or inserts).  `CommitPart` is
`commit_on_success` in the middle of a request; `Rollback` is an exception or a
worker killed, at any time.  `serial` numbers the requests, and the ids of new rows
are made of it.

`history` collects what two open requests have both been about, one of them
writing it (`Meet` of their topics: `<<"person", c>>`, `<<"rules", p>>`, ...), and the notes of
committed requests that break a property by themselves:

| Note | Left by |
|---|---|
| `late` | `edit_poll`: a contact added to a poll that has started is not asked |
| `torn` | a start that failed between its commits |
| `overlooked` | a number added again, a grade changed alone, water polls without a subscriber: the scripts are not scheduled |
| `doubled` | `_addto_autoreg` makes a second row for a number that is registering |
| `recategorised` | a category added, edited or deleted: responses are not processed again |
| `edited` | `edit_response`: the staff's categories |

A property says `Alone(topic, x)` or `Undisturbed(topic, x)` where the code does not
keep it otherwise.  So each of these exclusions is a limit of the code that the
property states: without it TLC finds it violated.

### Scheduling, Roster, Polls, XForms, Incoming

* `Scheduling` is `scheduling.py`, function by function, over a roster of days;
  the effect of `schedule_at` replaces the rows of the connection and script.
* `Roster`: `Join`, `Quit` (`education/app.py`), `Ended` (the receivers at the end of a run,
  with `Registered` for `edtrac_autoreg`), and the pages as actions: `AddConnections`,
  `EditReporter`, `RescheduleScripts`, `ScheduleNow`, `SpecialScript`, `ScheduleWaterPolls`.
* `Polls`: `CreatePoll`, `StartPoll` and `MassTextCommits` (the two commits), `EndPoll`, `EditPoll`,
  `DeletePoll`; `Handle` (the poll app) with `process_response`; `ChangeRules` with
  `reprocess_responses`, the categories, `EditResponse`, `DeleteResponse`.  An answer is the set of
  its words; a rule looks for one.
* `XForms`: `find_form` and the parser, down to which segment is a command, a value, or
  a number glued to a command; `Submit`, `EditSubmission`.
* `Incoming`: `Receive` is the education and script apps, `PollPhase` and `FormPhase` the apps
  after them, `Finish` the commit if what the rows refer to is there (the foreign keys), `Fail`.
  Which answers a script takes (`Taken`) is left open while the connection has a row
  that is due, since `EducationApp` has the rest.

### Calendar and Reporting

Time is counted in hours; day 0 is a Monday.  `Calendar` has the functions that turn a
moment, a term or a form's two dates into ranges, under their names in the code; a loop
that steps by weeks or months is a sequence in closed form.  A week is named by the
Thursday that *ends* it and begins seven days before, at 8:00 (`set_thur_wed_range`),
except in `previous_calendar_week`.  Months are those of `FirstOf`, and adding one
shortens the day as `relativedelta` does.  `get_target_value` may fail, which is a value.

| Variable | In the code |
|---|---|
| `now` | the clock; `Tick` goes to the next moment of the workload |
| `answers` | the dates of the responses to a poll |
| `worker` | when the worker process was started, under which current term, and what `views.py` computes as it is imported: the weeks to choose from, the two months of the violence pages |
| `comments` | `ReportComment`: period and `report_date` |
| `page` | the page served last: headings, the ranges it counts, the answers in each, the goal |

Each page is an action: `dash_report_api`, `curriculum_progress` (a GET) and
`curriculum_chosen` (its POST), `view_stats`, `time_range_head_teachers`,
`violence_details_dash`, `detail_attd`, `detail_water_view`, `system_report`.  A page
writes nothing, so that any page can follow any other, and an action property on `page`
compares all pairs.  `Start` is uwsgi's new worker, after 1000 requests or
a failure, perhaps with the settings of another term; when the import of `views.py` raises, the
worker serves nothing (`Up`).  The sums, percentages and modes of what is in a range are left out.

## 3. What is checked

TLC, two workers.  Every passing run lists the properties below.

| Run | Instance | Shows |
|---|---|---|
| `answers` | 1 connection, 2 RESEND_MOVEON questions, 2 runs, 2 messages, 1 failure | `TypeOK`; `AnsweredStaysAnswered`: no resend, count or rollback reopens an answered question, only a wrong answer from a copy read before |
| `silent` | 2 connections starting apart, STRICT_MOVEON then RESEND_GIVEUP, one given up by its receiver on the last step, 3 runs, 1 failure | `SilentTextLimit`, `KeptOnRoster`, `SessionPerRun`, `OnlyOwnQuestions`: for users who never answer, tries, roster, sessions and skipped questions are right through rolled-back passes; `KeepsDialogue`: the refinement of `Dialogue` |
| `requests` | `edtrac_autoreg`, zero offsets, STRICT_MOVEON then WAIT_MOVEON, 3 rows, requests | `MovedOncePerPass`, `TextsReachLiveRuns` |
| `ends` | WAIT_MOVEON then STRICT_GIVEUP, 2 runs, 2 messages, 1 failure | `EveryRunEnds`, `EveryQuestionAsked`, under fairness |
| `queue` | a text to 3 connections on 2 backends in chunks of 2, poll responses and a reply, one identity with a letter, 3 quits and joins, 1 refusal, 2 failures | `TypeOK`, `SentOncePerFailure`, `OnlyQueuedIsSent`, `ClosedTextIsOut`; `QueueIsOutbox`: the refinement |
| `drain` | 2 texts and a reply, 1 quit, 1 refusal, 1 failure | `EveryMessageLeaves`, under fairness |
| `incoming` | 2 connections, 5 scripts on 3 days, 2 polls, 1 form, 24 workloads of up to 6 requests, 2 open at a time | the fourteen properties below |
| `reports` | the calendar of 2014; 1 answer and all pages at 12 hours at which weeks, columns and months change; a year of workers at 25 moments, with any term as the current one; 2 comments | the seven properties below |

The properties of `incoming`:

| Property | Says | Goes wrong if |
|---|---|---|
| `TypeOK` | domains, unique ids, references of polls | |
| `OneRowPerScript` | a connection has one row of a script | a receiver adds without deleting |
| `QuitOffRoster` | who has quit has rows of `edtrac_autoreg` only | an end of a run or a schedule puts it back |
| `SubscribedAreScheduled` | a registered reporter has a row of every script of its groups that has a date to come | a run ends, or a registration, without the next |
| `OneResponsePerContact` | in a poll of one response | the old one stays when a new one is kept |
| `KeepsGoodAnswer` | a good response is not lost to a later bad one, also if answers, edits and removals overlap (not beside a change of the rules) | any later response replaces it |
| `ClassifiedByRules` | categories and error flag are what the rules give *now*, in answers of one contact that overlap as well, but not once a message or another request was open beside a change of the rules | a default error category is not an error |
| `KeepsOverrides` | only the staff undo the staff's categories | rules processed again drop them |
| `OneDefault` | a poll has one default category at most | the old default is kept |
| `AnswersFollowQuestions` | no response before its question is out (but of contacts added late) | the poll's date is committed before its texts |
| `AskedOnce` | a contact gets a question once | a poll can be started twice |
| `CompleteSubmission` | a submission not in error has all required values, each fitting | the required fields are not looked for |
| `UniqueConfirmation` | a number is of one submission | numbers are counted by sender |
| `NothingAfterQuit` | no response or submission from a message that begins after its sender has quit | its messages go on to the next app |

A *workload* is the tables to begin with and how many requests of each kind there
may be; within one, everything interleaves.  A run with all kinds at once has too many states.
Each workload puts together the requests that can disturb the same property: registration
with quits and joins; edits of a reporter with ends of runs; each of the staff's schedules with a
quit; a poll's start, stop and edits with answers; answers with rules, edits and
categories; forms with their edits; removals with messages.  Every kind of request is in at least one.
`fail` is in one workload only (start and stop of a new poll), since a request that is rolled
back otherwise leaves nothing but its number.

The properties of `reports`:

| Property | Says | Goes wrong if |
|---|---|---|
| `TypeOK` | domains; nothing is later than now | |
| `EachAnswerOnce` | no answer is in two columns of a page (but for the pairs of months of a long slider, and for the midnight at which two columns of the absenteeism form meet), and between the first and the last column of a page by weeks or months none is left out | a week ends on the day on which the next begins |
| `WeeksAgree` | two pages agree on a week that was over when the first was served | a range keeps the hour of the request |
| `OffersTermWeeks` | the weeks to choose from are each week of the terms up to the worker's start, once; no worker comes up only before the first Thursday of the current term | the week begun is not counted |
| `TermWeeksHaveGoals` | a week that begins in the 12 of a term has a goal | the 12th week is out |
| `GoalsGrow` | no later week has an earlier goal, asked for now or chosen | the goal is taken of today |
| `CommentKeepsItsMonth` | a comment on a month is shown with that month | the reader's month is shown |

Four runs end in a violation, each a sentence of the code or its comments that
the code does not keep:

| Run | The sentence | What happens |
|---|---|---|
| `wrong_text` | "they are all supposed to be on the same step" (`managers.py:154`) | a receiver has skipped one of two rows ahead; both get one question |
| `unclosed` | "Removes ScriptProgress objects from the table, update ScriptSession, and fires the appropriate signal" (`managers.py:110`) | a row completed between the loop and the delete goes without either: session open, no next run |
| `quit` | "delete all script progress since the user has quit" (`education/app.py:30`) | it deletes the rows it has read; a pass that gives the run up meanwhile has replaced them by the next run's, which stays |
| `closed` | "No more messages in MessageBatch, status set to 'S'" (`send_messages.py:134`) | a response queued between count and save stays in a batch that is sent |

Further places where the model follows the code and the words say otherwise.  No run states them.

* "Resend message/question \<num_tries> times, then move to next step" (`script/models.py:59`):
  `moveon` does not reset `num_tries`, so a second RESEND step is expired after one text.
* "Data for a new week is accepted until Wednesday evening of the following week"
  (`education/utils.py:50`): the sliders call `previous_calendar_week` with a midnight
  (`view_helper.py:79`), and a week chosen on the curriculum page loses its hours
  (`views.py:161`).  Both leave out the Wednesday, which the other pages count.
* "Cases recorded in" a month (`admin_violence_details.html:75`): the months counted are those of the
  worker's import (`views.py:1104`), the headings those of the request.
* "split data in months" (`view_helper.py:82`): the periods are pairs of months that overlap.
* The absenteeism form's columns before the last week (`absenteeism_view_helper.py:247`) each go from 8 days before a midnight
  to 1 day before it, 7 days apart: two meet in a midnight, and an answer of that moment is in both.
* `date(2014, 12, 4)` under "Term three" (`settings/schedule.py:80`): the week of that poll begins
  12 weeks and some hours after the term, so it is in none, and the curriculum page raises.
* `report_date` "will be based on the last reporting date" (`models/report_comment.py:39`): it is, but a
  comment on a week is shown with the week it is read in (`reports.py:1610`).

**Bounds.**  Two steps give a first, a last and a transition; the order of the
pass matters from two on.  Two connections are needed where one text goes to
rows of different steps, and suffice: `mass_text` treats all rows but the first
alike.  One connection suffices where rows do not interact.  `MaxAge` 2 lies above
every finite offset (0 or 1; 2 in `unclosed`, where one rule must expire before the
other).  `MaxRuns` 2 or 3 gives a run, its successor and a rescheduling.
Two messages are needed for two answers from one copy, or an error and its
repeat; a quit beside a pass needs one.  One failure lies anywhere in any pass.  In the queue,
three messages in chunks of two make a chunk with two backends, a full and a rest chunk;
three quits and joins reach a message left in processing in a batch otherwise
out.  `TopTries` is above every limit.  In `incoming` every property that excuses two
requests at a time needs two open ones to go wrong without the excuse, and none
needs three; three days give a script with dates past, next and gone; a second connection
is there for the properties that are about several (the subscribers, the recipients,
confirmation numbers).

In `reports` each property is about one
answer, which may come at any of the moments: before, at and after 8:00 and 19:00 on the days where
weeks meet, at a midnight at which two columns of the absenteeism form meet, and on both sides of a month's end.  The year has moments before, in,
at the end of, and between the terms.  The form's dates give sliders by weeks and by months, over
ends of months of 28, 30 and 31 days.

**Fairness.**  `EducationApp`: weak fairness of the start of a pass (cron), of the
pass as a whole, of the clock, of the workers' answers as a whole (saved or
killed, `harakiri`), and of the requests under way.  None of users: no one has to
answer, quit or join.  Failures are bounded; a receiver that raised at every pass
would stop its script for ever (`check_progress` has no handling per row).
`Messenger`: weak fairness of the messenger's steps (its loop is endless, and an
exception leads back to it) and of a `mass_text` begun.

**What the drain run assumes.**  No identity with a letter and no join between
the two updates of `bulk_process` (`Letters` and `Rejoining` empty).  Both leave
messages that are neither sent nor cancelled; their batch is never closed, and
as `to_process[0]` may be that batch in every round, nothing else need be sent.

**Deadlock** is checked in all runs but `incoming`, whose workloads end.

`Reporting` has no liveness to check: a page is an answer to a request.

## 4. What is proved

By TLAPS, for every value of the constants that the named assumptions allow
(any number of connections, steps, runs, messages, any offsets, rules and
receivers that skip forward, any chunk size and number of failures; any workloads,
texts, rosters, polls and forms, and any number of requests open at a time).

`EducationAppProofs`, `IInv == TypeOK /\ KeysGiven /\ Ahead`:

* `TypeCorrect`: `Spec => []TypeOK`.
* `MovedOnce`: `Spec => []MovedOncePerPass`.  The property says nothing of a
  pass that is at another step, so it is not inductive.  `Ahead` adds that a row moved in
  this pass, if it is still there, stands beyond the step the loop is at (after
  the loop: is on a step), and `KeysGiven` that rows, moved rows and workers'
  copies have numbers already given out, so that a new row is none that was moved.
* `TextsReach`: `Spec => TextsReachLiveRuns`, an action property: only
  `mass_text` changes `sent`, for rows that its own commit writes.
* `AnswersStay`: `Spec => AnsweredStaysAnswered`, an action property.  A commit writes what was computed
  from rows read earlier, so it is not enough that no single write reopens a question.  `Firm` orders the two versions
  of the table: a row that is answered in `db` is, in `View`, answered at the same step, or on a later one, or gone.  Each
  write of the pass takes its version upwards in that order; a worker writes no row that the pass
  holds, so that both versions of the row it saves are the same.

`SilentProofs`, `TypeOK /\ KeysGiven /\ Silent`: what the engine does to those who never
answer, while no staff schedules (`Unstaffed`).  With no answer to come the only
writer of the rows is the pass, but its transaction is committed in pieces and may be rolled back at
any point, so there are always two versions of the table: `db` and what the pass sees, `View`.
`Silent` says of each that a connection has one row at most, is on the roster, and has one session if its run
has begun; of the second, that in between `giveup` has closed the sessions of rows it has still to delete
(`InSession`); and of the lists, which the pass reads once and uses after commits of its own, that they
hold what they would hold if read again (`Lists`).  From it:

* `StaysOnRoster`: `Spec => []KeptOnRoster`, `SessionsMatchRuns`: `Spec => []SessionPerRun`.
* `TextsLimited`: `Spec => []SilentTextLimit`.  `Texts`: the tries of a row, in either version, bound the texts of its step, and
  the steps ahead have had none.  A try is written before the text, in the same commit, so that a
  rollback takes back both or neither.  The hypothesis `Alike` is that receivers skip the same steps for
  everybody: if not, one connection is sent the text of another's step (the run `wrong_text`).
* `AskedItsOwn`: `Spec => []OnlyOwnQuestions`.  A receiver looks only at connections with an open session, and `Silent` says
  that a row that moves on has one.  `Settled`: the step it goes to is one it would not skip.

`SilentProofs`, its last section:

* `EngineKeepsDialogue`: `Spec => KeepsDialogue`, where nobody answers and the roster has dates ahead
  (`Unanswered`).  A commit carries whatever the pass has done to a connection since the one before, and a step of
  `Dialogue` is one thing at most, so the invariant `Follows` says how far the pass's `View` is ahead of `db`:
  not at all, or the connection's run is over and the next one, not due in this pass, has its place.
  A run that moves on is committed in the same step, as its text is; one that is given up waits for the next text
  of the pass, and nothing else happens to its connection till then.  At a rollback `View` is `db` again.

`MessengerProofs`, `IInv == TypeOK /\ Apart /\ AcceptedOK /\ OnlyQueuedIsSent /\
CountedOK /\ ClosedTextIsOut`:

* `QueueTypeCorrect`, `CancelledIsNotSent`.
* `SentOnce`: `Spec => []SentOncePerFailure`.  A round cut short between the gateway's
  answer and the update leaves a message queued that was accepted, so the bound must tell
  what the messenger knows (`Out`: sent, or just answered for) from what it does not:
  `AcceptedOK` bounds the latter by `fails`, the former by `fails + 1`.
  `Apart`: what is still to send is not what is just answered for, and is a chunk at most.
* `ClosedIsOut`: `Spec => []ClosedTextIsOut`.  `CountedOK`: once a text's batch is
  there all its messages are, so that between count and close nothing is added.
  That fails for the batches of polls, and so does the property (`closed`).
* `QueueImplementsOutbox`: `Spec => QueueIsOutbox`.  Under `IInv` a step of
  `mass_text`, a reply or a response submits, `bulk_cancel` cancels (`OnlyQueuedIsSent`: no copy
  of a message in processing), `Fetch` delivers, loses its answer or does nothing,
  `Update` confirms, `Abort` forgets, and all other steps, `EndRound` among them, leave the
  outbox alone.  That a delivery is of one of the `Requests` is `Apart` again: part of a chunk is
  finite and no larger.

`IncomingProofs`.  What a request commits was computed when it began, from tables
that have changed since, so what is known of an open request has to be of two
kinds: what stays true whatever others commit, and what was true as it began.

* `RequestsStayOK`: `Spec => []RequestsOK`.  `Wellformed` is the first kind: by its kind, which
  tables a request writes and of whom (only messages write a blacklist row, their
  sender's; only a removal deletes questions, of the removed; a request that saves a
  poll has its contacts among its topics; ...).  The invariant adds that the topics of any two open
  requests have met in `history`, and that polls are unique.  One lemma per page and per handler
  says what its effect is (`EndRunIs`, `EditPollIs`, `ReceiveIs`, ...), with `Grounded` for the second kind.
* `SubmissionsComplete`: `Spec => []CompleteSubmission`: rows of `db` and of open requests are
  `Whole`, by the lemmas on the parser that the module begins with.
* `QuittersAreNotHeard`: `Spec => NothingAfterQuit`, an action property, of messages that begin after the quit;
  one of the sender's own that is open at the quit is heard by the code and excepted.  `QuitNotHeard`: the
  sender of a message that has got beyond the education app is not blacklisted, or the
  quit was open beside it, and they have met.
* `AnswersComeAfter`: `Spec => []AnswersFollowQuestions`; excepted are contacts added to a poll that has started,
  and polls of which an edit of the contacts was open beside another request that saves the poll.  `QuestionsFirst` has to say, of every place an
  answer can still come from, that the question has gone out (`Known`: asked, or
  excused, or the contact is removed): responses, those written but not committed, the
  contacts of polls that have started, those of polls that open requests are about to save as started, and
  the contacts they add.  The last two meet at a commit, and `Wellformed`'s topics then give the excuse.
* `QuittersOffRoster`: `Spec => []QuitOffRoster`.  `QuitsClean` says the same of the rows that open
  requests are about to write, and of an open quit that its commit deletes every row its sender has by
  then.  Both are so as the request begins (`Grounded`: every page that schedules filters the
  blacklisted, or filters the rows it copies); what commits meanwhile has met it.
* `QuestionsAskedOnce`: `Spec => []AskedOnce`.  That a poll which has asked is not asked again rests on its
  `start`, which the start saves in a second commit and other pages overwrite.  `AskedByOne`: the questions that
  are out are of one start; the poll's date is set, or that start is still to set it (`Starting`); no other request
  is about to save the poll without a date, or to send its questions, unless the two have met on the
  poll's dates.  A new poll has not been asked because a deleted one leaves a tombstone (`There`).

`OverlapProofs`.  The properties that hold where no two requests are open at once about one thing, all from
`RequestsOK` and one scheme.  Of a property `P` of the tables, the invariant says that the topic is
marked in `history`, or that `P` holds of `db` and of what every open request sees, `Seen(n)`, which is what would be
there if it committed now.  A request that begins sees `P`: that is a lemma per page, by what its effect drops
and puts.  When request `n` commits, what another request `k` sees changes: if both put rows of the topic they have met
(`Wellformed` has the topics of what a request puts) and it is marked; if only `n` does, `k` now sees some of the rows
of `db`; if only `k` does, it sees some of those it saw.  `FinishSeen` says so once for all properties.

* `OneDefaultCategory`: `Spec => []OneDefault`.  `P`: one default category of a poll.  Assumed of the tables to begin
  with (`CategoriesAssumption`).
* `ConfirmationsUnique`: `Spec => []UniqueConfirmation`.  A confirmation number is one more than the largest its request
  sees, so `P` is that no two submissions of a form have one number.
* `RowsSingle`: `Spec => []OneRowPerScript`.  `P`: one row of a connection and script, but for a number that is added
  while it registers.  `emis_scripts_special` schedules everybody without a look at the roster, so the invariant
  has also that nobody is on the roster for that script as long as it may still be made
  (`NoneSpecial`; `WorkloadAssumption`: it is made once).
* `StaysScheduled`: `Spec => []SubscribedAreScheduled`; excepted are those whom the code overlooks: a number added again, a
  grade changed alone, water polls scheduled without the reporter.  `P` is `Covered`: on a given day a contact is on the roster for every
  script of its groups with a date to come, or has quit, is registering, or has gone.  It is of several tables at once (rows,
  members, grade, blacklist), so that `ScheduledOK` has for every contact, marked in history or not (`Disturbed`), that
  what is in `db` *and* what each request about it sees is `Covered`, unless the request is one that passes it
  over (`Overlooks`: the edit of a grade alone, the water polls).  `Requested` says what a request may write of other
  contacts: rows only where it has the topic `roster` (`Confined`), and a contact's own row as the
  request found it (`ContactsSaved`).  The end of a run schedules the next one in the commit that ends it, so that the two are
  one effect (`FinishSame`, `FinishScheduled`); a day that passes only takes dates away.  Assumed (`ScheduledAssumption`):
  a grade that has scripts is p3 or p6 (`models/emis_reporter.py:22` keeps two characters, and the names of the
  other groups are longer), ids of rows say whose they are, and registered contacts are on the roster to begin with.

`PollsProofs`.  What messages, edits and changes of rules do to answers and their categories while they overlap.
The rows a request deletes are those it read, so that the invariants have to say of them, of each kind of request, what they
were as it began and what has become of them since.  Assumed of the tables to begin with: there are no responses and no labels.

* `GoodAnswersStay`: `Spec => KeepsGoodAnswer`, for polls of which no change of the rules was open beside another request.  A message adds its answer after the other apps have run, so it is at first
  one that waits (`WaitsOK`: it has written nothing of the poll app's yet, but has read the rules, so that a change of them
  meets it).  `ResponsesOK` then says of the rows, written and to be written: two of one id are one answer, in error or not
  (`SameAnswer`; ids of responses are numbers of past requests or the message's own), an edit saves what is there unless the
  rules have changed meanwhile (`EditsCurrent`), and an answer takes the place only of one in error, or is a good one
  itself (`ReplacesThere`, and `ReplacesSaved` for what an edit would put back).  A message that commits leaves a good
  answer where there was one, then: it deletes none, or has put its own good one there.
* `OverridesAreKept`: `Spec => KeepsOverrides`.  `LabelsOK`: a label's id says of which request, response and category it is;
  the staff's labels are of edits (`LabelsPut`); and those that a request deletes are of rules, or of a
  response or category that goes in the same commit, or of the response it edits (`LabelsTaken`).
* `OneAnswerKept`: `Spec => []OneResponsePerContact`.  The poll app asks the poll it has read for its rule, and every save of a
  poll writes the rule again: `RulesFixed` says that all rows of a poll, there or to be written (`Source`), have one rule, as
  only its creation writes a poll that has not been there.  `ResponsesThere`: no response is of a poll yet to be made.  `OneOK`
  then has, for such a poll and a contact not marked in history, that what is there and what each open request sees is
  one response: an answer deletes the one there is, unless two default categories stop it (excluded by `DefaultsOK`); and two
  requests that put answers of one contact to one poll have met (`TwoAnswers`).
* `IncomingTypeCorrect`: `Spec => []TypeOK`.  Not only domains: no two rows of a table have one id, a member always has a
  contact, and nothing refers to a row that has gone.  `TablesOK` has to say of every open request that what it puts is `Sound`
  (rows of its tables, ids of their own) and that whom it makes a member is a contact in `db`, or is made one by it, or has been
  removed meanwhile (`BackedIn`: then the commit fails on its references); a contact goes with its connection only
  (`ContactsTaken`).  One lemma per page and handler (`EndTypes`, `MessageTypes`, `RulesTypes`, ...).  Numbers of
  responses and confirmations come from `ResponsesOK` and `NumbersOK`.  Assumed: the tables to begin with
  are of their types (`TablesAssumption`), scripts have no dates after `LastDay` (`DaysAssumption`: the bound of the clock), and
  the words near a form's keyword name forms (`NearAssumption`).
* `ResponsesFollowRules`: `Spec => []ClassifiedByRules`, for polls of which no change of the rules was open beside a message
  or another request, and no category changed; what overlaps besides is free.  The labels of a response are compared with rules that another
  request saves, and either may have been read before the other was written.  `Classified` says of a response that it is
  where the rules in `db` put it (`Agrees`), unless its poll is marked in history or the staff has edited it (`Loose`).
  Every step that changes one side has to change the other: `Judging` says that what an open message or change of rules
  puts agrees with the rules it *will* leave there; `BooksOK` that a category and a rule stay of one poll; `ScopesOK` that the
  labels a request puts are of its own response, or of those it judges; `Whole3` that a change of rules still judges
  *every* response there is, and the deletion of a poll every category of it, as others commit; `Overridden` that the
  staff's labels are of edited responses; `OneOrRecat` that two defaults, with which nothing is put anywhere, are
  marked.  TLC has found `ClassifiedByRules` true without a hypothesis on overlapping messages of one contact, and it is stated so.
  Assumed of the tables to begin with: ids of rules and categories are not those requests give (`RulesAssumption`).

`ReportingProofs`, `Inv == TimeOK /\ PageOK`:

* `ClosedWeeksStay`: `Spec => WeeksAgree`, for any calendar, terms, moments and number of answers.
  Every range of a page by week is the whole working week of its first day (`IsWeek`: lemmas on
  `set_thur_wed_range`, `get_day_range`, `get_week_date`, `date_bunches`), so weeks that begin on the
  same day are the same range.  `PageOK` adds that what the last page says of a range that was over
  when it was served still holds: an answer to come is dated later, as the clock does not go back.

* `EveryTermWeekHasItsGoal`, `LaterWeeksHaveLaterGoals`: `Spec => []TermWeeksHaveGoals` and `Spec => GoalsGrow`,
  for terms more than 12 weeks apart (`TermsApart`).  `GoalOfDay` says what `get_target_value` gives for
  any moment: the goal of its week if its day is in the first 12 weeks of a term, and nothing positive if not;
  `GoalInv` ties the page's goal to its heading in this way, for a week that is on, at 8:00, and for a chosen one,
  at midnight.
* `CommentsStay`: `Spec => []CommentKeepsItsMonth`.  The date of a comment is the first morning of a month,
  which is in that month (`MonthOfDay`: months that follow each other part the days).
* `WorkersOfferTermWeeks`: `Spec => []OffersTermWeeks`.  A worker keeps what it computed when it was started
  (`WorkerOK`).  Its list is that of the terms before and of its own, each of weeks 7 days apart (`PastWeeks`,
  `OwnWeeks`); a week is in one of the three lists once (`Once`) and in the others never (`Never`), as terms are more than
  12 weeks apart (`TermsApart`).  `TermsBeginMidweek`: the list of a term that is over goes back 12 weeks from the
  one that ends after its 84th day, so the first week of a term begun on a Thursday would be none of them.
  The terms in the settings begin on Mondays.
* `PagesCountOnce`: `Spec => []EachAnswerOnce`.  `ColumnsOK` says of the page served last that its ranges are `Fair`, whatever
  the answers (`Apart`: two have a moment in common only where they may; `Gapless`: between two of them no moment
  that the page means to count is missed), and that what came in before it is counted by every range it is in.
  A lemma for each of the pages says that its ranges are `Fair`: those by week are told by their Thursdays
  (`WeeksAreFair`), those by month by the first days of months that follow each other
  (`OwnMonths`).  The loops over months are shown to end by their bound, and the month of a step to be the one they count
  (`StepsOfSpan`, `InMonthsIs`, from the library's theorem on well-founded sets), which needs `SpansAssumption`: a span of
  a year at most, and months that go on for two more.
* `ReportsTypeCorrect`: `Spec => []TypeOK`.

The lemmas follow the actions, one each.  The properties that these theorems state are checked by TLC
too.  With TLC only: liveness (`EveryRunEnds`,
`EveryQuestionAsked`, `EveryMessageLeaves`), which rests on fairness and on ENABLED, out of the prover's reach.  Every
invariant and every action property that a passing run checks is proved.

## 5. Not modelled, and simplified

Of the engine and the queue:

* One script at a time; the pass of several scripts is a sequence of passes in
  transactions of their own.  `enabled` and the hours 8 to 19 are in the clock.
* The content of answers in `EducationApp`: right or wrong.
* A language per row: `mass_text` texts language by language, with a commit for
  each; here the list is one language.
* The open sessions of a connection are counted, from the oldest on; an answer is logged in the
  newest of them, as by `latest('start_time')`.  That within the life of one answer its session is
  closed and another opened in its place is not distinguished.
* Receivers in `giveup` whose exception is swallowed (`managers.py:121-123`): of those of
  `was_completed`, `edtrac_reschedule_script` raises on database errors only, after which the transaction
  takes no more statements and the pass fails as a whole (`FailPass`); `edtrac_autoreg` changes nothing of
  the engine, and a registration it leaves half done is not modelled.  `unclosed` has the one exception
  of `giveup` itself, a row without an open session.
* `moveon` runs its query once for the list of keys and once for the update (`managers.py:137-147`);
  `Transition` takes one set for both.
* Saving a row that has not started, after a repeated error, is left out.
* The repeated question after a wrong answer (`education/app.py:77-78`) is not
  counted in `sent`.
* Delivery reports: no message id is passed to the gateway, so that
  `mark_delivered` finds none.

Of the rest:

* A number repeated within one form's `other_nums` (`education/views.py:2283-2287`) gets two rows; `AddConnections`
  takes the numbers of a form as a set.
* `reschedule_scripts` takes any date (`education/views.py:2886`); `RescheduleScripts` takes one from today to `LastDay`.
* `edit_comment` and `delete_comment` (`education/views.py:2342-2367`), which date a saved comment anew and remove it: no
  URL reaches them.
* A step of a request reads and writes at one moment: of two statements of one page only
  the overlap with another request's commit is there, not a read on both sides of it.
  A write that waits for a lock is one that comes later.
* A contact has one connection, and goes by its name, so that `delete_connection` and
  `delete_reporter` are one action.  District, subcounty, schools and names are not there.
* The message's own row, its status and the replies are in no table of `Incoming`.
* One script made by `emis_scripts_special`, without a second use of its name.
* A rule is a word to look for; how a regular expression matches is not modelled.  Names of
  categories, colours, texts of responses and translations are left out.  Location, date and
  registration polls are not modelled: EduTrac's own polls are of text and numbers.
* Forms: constraints other than `required`, prefixes and separators, the web's ODK protocol, and the pages
  that define forms.
* `Category`'s and `Poll`'s pages that only show; `process_uncategorized`, which nobody calls; the
  forms of `rapidsms_contact` that blacklist or assign groups, which no URL reaches; the commands that
  mend old data (`reprocess_missing_group_polls`, `clear_all_scripts` and the like).
* The `monitor` app: it is not among the apps of the production settings (`settings/production.py:18`).
* Of the reports: what is done with the responses in a range (sums, percentages, modes, the layouts of pages and
  spreadsheets), exports and lists.  They keep no state, and their arithmetic is
  within a unit test's reach.  They are the larger part of the repository's lines.
  Minutes and seconds are hours; dates are naive, as in the code (no daylight saving in Uganda).
* Third-party code: rapidsms core, EAV, reversion, pagination, authentication, maps.

## 6. Plan

1. Several scripts of one connection through the engine: which run an answer goes to
   (`script/models.py:92`), in `Roster`'s tables.
2. Polls in several languages: `mass_text` and a commit for each, in a start that
   fails between them.
3. The constraints of form fields, and the pages that change a form while it is filled.
4. The reports' aggregation over schools and districts, with who counts as having reported.
