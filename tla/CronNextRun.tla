---------------------------- MODULE CronNextRun ----------------------------
(***************************************************************************)
(* calculate_next_run (job_autofill.py): the first instant after now that  *)
(* a cron schedule of six fields allows.  The API uses it for the next run *)
(* time of a job it saves, and for the preview.                            *)
(*                                                                         *)
(* The code keeps one candidate and moves it forward, field by field, past *)
(* what the schedule does not allow.  An action is one turn of its loop.   *)
(* A field is the set of values that _parse_cron_field makes of its text.  *)
(* The calendar is a parameter: days are numbered, and a day has a month,  *)
(* a day of the month and a day of the week.                               *)
(***************************************************************************)
EXTENDS Integers, FiniteSets

CONSTANTS
    Seconds, Minutes, Hours,         \* of a minute, an hour and a day
    LastDay,                         \* bound: the days of the calendar
    MonthOf(_), DayOf(_), WeekdayOf(_),
    NextMonth(_),                    \* the first day of the month after that of a day
    SearchDays,                      \* the search gives up after so many: 5 * 366
    Schedules,                       \* the schedules,
    Nows,                            \* the times they are asked at,
    Starts, Ends                     \* and the windows of a schedule that are tried

ASSUME ClockAssumption ==
    Seconds \in Nat \ {0} /\ Minutes \in Nat \ {0} /\ Hours \in Nat \ {0}

Days == 0 .. LastDay

ASSUME CalendarAssumption ==
    /\ LastDay \in Nat
    /\ \A d \in Days : /\ NextMonth(d) \in Int /\ NextMonth(d) > d
                       /\ \A e \in Days : e \in d .. NextMonth(d) - 1 => MonthOf(e) = MonthOf(d)

Instants == [day : Int, hour : 0 .. Hours - 1, minute : 0 .. Minutes - 1,
             second : 0 .. Seconds - 1]

Unbounded == [window |-> "open"]

Before(a, b) ==
    \/ a.day < b.day
    \/ a.day = b.day /\ a.hour < b.hour
    \/ a.day = b.day /\ a.hour = b.hour /\ a.minute < b.minute
    \/ a.day = b.day /\ a.hour = b.hour /\ a.minute = b.minute /\ a.second < b.second

\* anyDay, anyWeekday: the field is a wildcard.
ASSUME SchedulesAssumption ==
    \A s \in Schedules : /\ s.hours \subseteq 0 .. Hours - 1
                         /\ s.minutes \subseteq 0 .. Minutes - 1
                         /\ s.seconds \subseteq 0 .. Seconds - 1
                         /\ s.anyDay \in BOOLEAN /\ s.anyWeekday \in BOOLEAN

ASSUME TimesAssumption ==
    /\ SearchDays \in Nat
    /\ Nows \subseteq Instants
    /\ Starts \subseteq Instants \cup {Unbounded}
    /\ Ends \subseteq Instants \cup {Unbounded}
    /\ \A t \in Nows \cup (Starts \ {Unbounded}) :
         t.day >= 0 /\ t.day + 1 + SearchDays <= LastDay

VARIABLES
    schedule, now, start, end,       \* the arguments
    limit,                           \* how far the search goes
    candidate,
    result                           \* of the call, or "searching"

vars == <<schedule, now, start, end, limit, candidate, result>>

arguments == <<schedule, now, start, end, limit>>

-----------------------------------------------------------------------------
(***************************************************************************)
(* The fields of an instant, moved on with timedelta and replace.          *)
(***************************************************************************)
At(d, h, m, s) == [day |-> d, hour |-> h, minute |-> m, second |-> s]

NextDay(c) == At(c.day + 1, 0, 0, 0)

NextHour(c) == IF c.hour = Hours - 1 THEN NextDay(c) ELSE At(c.day, c.hour + 1, 0, 0)

NextMinute(c) ==
    IF c.minute = Minutes - 1 THEN NextHour(c) ELSE At(c.day, c.hour, c.minute + 1, 0)

NextSecond(c) ==
    IF c.second = Seconds - 1 THEN NextMinute(c)
    ELSE At(c.day, c.hour, c.minute, c.second + 1)

\* The next value of a field after this one, if it has one.
Later(field, value) == {v \in field : v > value}

Following(v, field, value) ==
    v \in Later(field, value) /\ \A w \in Later(field, value) : v <= w

MonthOk(c) == MonthOf(c.day) \in schedule.months

\* Both restricted: one of them is enough.
DateOk(c) ==
    CASE ~schedule.anyDay /\ ~schedule.anyWeekday ->
            DayOf(c.day) \in schedule.days \/ WeekdayOf(c.day) \in schedule.weekdays
      [] ~schedule.anyDay /\ schedule.anyWeekday -> DayOf(c.day) \in schedule.days
      [] schedule.anyDay /\ ~schedule.anyWeekday -> WeekdayOf(c.day) \in schedule.weekdays
      [] OTHER -> TRUE

-----------------------------------------------------------------------------
\* From the second after now, or from the start of the window; the search ends after
\* SearchDays, or at the end of the window.
FirstCandidate(n, s) ==
    IF s # Unbounded /\ Before(NextSecond(n), s) THEN s ELSE NextSecond(n)

Limit(c, e) ==
    LET far == [c EXCEPT !.day = @ + SearchDays]
    IN IF e # Unbounded /\ Before(e, far) THEN e ELSE far

Init ==
    /\ schedule \in Schedules
    /\ now \in Nows
    /\ start \in Starts
    /\ end \in Ends
    /\ candidate = FirstCandidate(now, start)
    /\ limit = Limit(candidate, end)
    /\ result = "searching"

Searching == result = "searching" /\ ~Before(limit, candidate)

MoveTo(c) ==
    /\ candidate' = c
    /\ UNCHANGED <<arguments, result>>

GiveUp ==
    /\ result = "searching"
    /\ Before(limit, candidate)
    /\ result' = "none"
    /\ UNCHANGED <<arguments, candidate>>

SkipMonth ==
    /\ Searching
    /\ ~MonthOk(candidate)
    /\ MoveTo(At(NextMonth(candidate.day), 0, 0, 0))

SkipDay ==
    /\ Searching
    /\ MonthOk(candidate)
    /\ ~DateOk(candidate)
    /\ MoveTo(NextDay(candidate))

OnDay == Searching /\ MonthOk(candidate) /\ DateOk(candidate)

\* Mutation: the minutes and seconds are kept.
SkipHourOnly ==
    /\ OnDay
    /\ candidate.hour \notin schedule.hours
    /\ \/ \E h \in schedule.hours : /\ Following(h, schedule.hours, candidate.hour)
                                    /\ MoveTo([candidate EXCEPT !.hour = h])
       \/ /\ Later(schedule.hours, candidate.hour) = {}
          /\ MoveTo(NextDay(candidate))

SkipHour ==
    /\ OnDay
    /\ candidate.hour \notin schedule.hours
    /\ \/ \E h \in schedule.hours : /\ Following(h, schedule.hours, candidate.hour)
                                    /\ MoveTo(At(candidate.day, h, 0, 0))
       \/ /\ Later(schedule.hours, candidate.hour) = {}
          /\ MoveTo(NextDay(candidate))

OnHour == OnDay /\ candidate.hour \in schedule.hours

SkipMinute ==
    /\ OnHour
    /\ candidate.minute \notin schedule.minutes
    /\ \/ \E m \in schedule.minutes : /\ Following(m, schedule.minutes, candidate.minute)
                                      /\ MoveTo(At(candidate.day, candidate.hour, m, 0))
       \/ /\ Later(schedule.minutes, candidate.minute) = {}
          /\ MoveTo(NextHour(candidate))

OnMinute == OnHour /\ candidate.minute \in schedule.minutes

SkipSecond ==
    /\ OnMinute
    /\ candidate.second \notin schedule.seconds
    /\ \/ \E x \in schedule.seconds : /\ Following(x, schedule.seconds, candidate.second)
                                      /\ MoveTo([candidate EXCEPT !.second = x])
       \/ /\ Later(schedule.seconds, candidate.second) = {}
          /\ MoveTo(NextMinute(candidate))

Return ==
    /\ OnMinute
    /\ candidate.second \in schedule.seconds
    /\ result' = "found"
    /\ UNCHANGED <<arguments, candidate>>

Next ==
    \/ GiveUp
    \/ SkipMonth
    \/ SkipDay
    \/ SkipHour
    \/ SkipMinute
    \/ SkipSecond
    \/ Return

Spec == Init /\ [][Next]_vars

-----------------------------------------------------------------------------
(***************************************************************************)
(* What a schedule means.                                                  *)
(***************************************************************************)
\* Of day and weekday, those that are not wildcards decide, and one is enough.
DateAllowed(s, d) ==
    \/ ~s.anyDay /\ DayOf(d) \in s.days
    \/ ~s.anyWeekday /\ WeekdayOf(d) \in s.weekdays
    \/ s.anyDay /\ s.anyWeekday

Allowed(s, t) ==
    /\ MonthOf(t.day) \in s.months
    /\ DateAllowed(s, t.day)
    /\ t.hour \in s.hours
    /\ t.minute \in s.minutes
    /\ t.second \in s.seconds

\* What the call may return: an instant after now, in the window, within the limit.
InSearch(t) ==
    /\ Before(now, t)
    /\ start # Unbounded => ~Before(t, start)
    /\ ~Before(limit, t)

Calendar == [day : Days, hour : 0 .. Hours - 1, minute : 0 .. Minutes - 1,
             second : 0 .. Seconds - 1]

\* The result is the least instant of the window after now that the schedule allows,
\* and there is none only when the window, or the years the search is given, have none:
\* however months, days, hours, minutes and seconds carry into one another
\* (calculate_next_run, job_autofill.py).
LeastAllowed ==
    /\ result = "found" => /\ Allowed(schedule, candidate)
                           /\ InSearch(candidate)
                           /\ \A t \in Calendar : InSearch(t) /\ Before(t, candidate) =>
                                ~Allowed(schedule, t)
    /\ result = "none" => \A t \in Calendar : InSearch(t) => ~Allowed(schedule, t)
=============================================================================
