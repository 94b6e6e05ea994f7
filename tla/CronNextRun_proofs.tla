------------------------- MODULE CronNextRun_proofs -------------------------
(***************************************************************************)
(* Proofs about CronNextRun, for any clock, calendar and schedules.        *)
(***************************************************************************)
EXTENDS CronNextRun, TLAPS

Results == {"searching", "found", "none"}

\* What the search may return, but for its limit.
InWindow(t) ==
    /\ Before(now, t)
    /\ start # Unbounded => ~Before(t, start)

CronTypes ==
    /\ schedule \in Schedules
    /\ now \in Instants
    /\ start \in Instants \cup {Unbounded}
    /\ candidate \in Instants /\ candidate.day >= 0
    /\ limit \in Instants /\ limit.day <= LastDay
    /\ result \in Results

\* All that the candidate has passed is not allowed.
NothingSkipped ==
    \A t \in Calendar : InWindow(t) /\ Before(t, candidate) => ~Allowed(schedule, t)

CronInv ==
    /\ CronTypes
    /\ InWindow(candidate)
    /\ NothingSkipped
    /\ result = "found" => Allowed(schedule, candidate) /\ ~Before(limit, candidate)
    /\ result = "none" => Before(limit, candidate)

-----------------------------------------------------------------------------
(***************************************************************************)
(* The order of instants.                                                  *)
(***************************************************************************)
LEMMA Parts ==
    ASSUME NEW c \in Instants
    PROVE  /\ c.day \in Int /\ c.hour \in Int /\ c.minute \in Int /\ c.second \in Int
           /\ 0 <= c.hour /\ c.hour < Hours
           /\ 0 <= c.minute /\ c.minute < Minutes
           /\ 0 <= c.second /\ c.second < Seconds
  BY ClockAssumption DEF Instants

LEMMA AtType ==
    ASSUME NEW d \in Int, NEW h \in 0 .. Hours - 1, NEW m \in 0 .. Minutes - 1,
           NEW s \in 0 .. Seconds - 1
    PROVE  /\ At(d, h, m, s) \in Instants
           /\ At(d, h, m, s).day = d /\ At(d, h, m, s).hour = h
           /\ At(d, h, m, s).minute = m /\ At(d, h, m, s).second = s
  BY DEF At, Instants

LEMMA Zeros == 0 \in 0 .. Hours - 1 /\ 0 \in 0 .. Minutes - 1 /\ 0 \in 0 .. Seconds - 1
  BY ClockAssumption

\* An instant from c on and before the next day, hour or minute shares what is above it.
LEMMA NextDayFacts ==
    ASSUME NEW c \in Instants
    PROVE  /\ NextDay(c) \in Instants /\ Before(c, NextDay(c)) /\ NextDay(c).day >= c.day
           /\ NextDay(c).day <= c.day + 1
           /\ \A t \in Instants : ~Before(t, c) /\ Before(t, NextDay(c)) => t.day = c.day
  <1>1. /\ NextDay(c) \in Instants /\ NextDay(c).day = c.day + 1
        /\ NextDay(c).hour = 0 /\ NextDay(c).minute = 0 /\ NextDay(c).second = 0
    BY Parts, Zeros, AtType DEF NextDay
  <1> HIDE DEF NextDay
  <1>2. ASSUME NEW t \in Instants, ~Before(t, c), Before(t, NextDay(c))
        PROVE  t.day = c.day
    BY <1>1, <1>2, Parts DEF Before
  <1> QED BY <1>1, <1>2, Parts DEF Before

LEMMA NextHourFacts ==
    ASSUME NEW c \in Instants
    PROVE  /\ NextHour(c) \in Instants /\ Before(c, NextHour(c)) /\ NextHour(c).day >= c.day
           /\ NextHour(c).day <= c.day + 1
           /\ \A t \in Instants : ~Before(t, c) /\ Before(t, NextHour(c)) =>
                t.day = c.day /\ t.hour = c.hour
  <1>1. CASE c.hour = Hours - 1
    <2>1. NextHour(c) = NextDay(c)
      BY <1>1 DEF NextHour
    <2>2. ASSUME NEW t \in Instants, ~Before(t, c), Before(t, NextDay(c))
          PROVE  t.day = c.day /\ t.hour = c.hour
      <3>1. t.day = c.day
        BY <2>2, NextDayFacts
      <3> QED BY <3>1, <2>2, <1>1, Parts, ClockAssumption DEF Before
    <2> QED BY <2>1, <2>2, NextDayFacts
  <1>2. CASE c.hour # Hours - 1
    <2>1. c.hour + 1 \in 0 .. Hours - 1
      BY <1>2, Parts, ClockAssumption
    <2>2. /\ NextHour(c) \in Instants /\ NextHour(c).day = c.day
          /\ NextHour(c).hour = c.hour + 1 /\ NextHour(c).minute = 0 /\ NextHour(c).second = 0
      BY <1>2, <2>1, Parts, Zeros, AtType DEF NextHour
    <2>3. ASSUME NEW t \in Instants, ~Before(t, c), Before(t, NextHour(c))
          PROVE  t.day = c.day /\ t.hour = c.hour
      BY <2>2, <2>3, Parts DEF Before
    <2> QED BY <2>2, <2>3, Parts DEF Before
  <1> QED BY <1>1, <1>2

LEMMA NextMinuteFacts ==
    ASSUME NEW c \in Instants
    PROVE  /\ NextMinute(c) \in Instants /\ Before(c, NextMinute(c))
           /\ NextMinute(c).day >= c.day /\ NextMinute(c).day <= c.day + 1
           /\ \A t \in Instants : ~Before(t, c) /\ Before(t, NextMinute(c)) =>
                t.day = c.day /\ t.hour = c.hour /\ t.minute = c.minute
  <1>1. CASE c.minute = Minutes - 1
    <2>1. NextMinute(c) = NextHour(c)
      BY <1>1 DEF NextMinute
    <2>2. ASSUME NEW t \in Instants, ~Before(t, c), Before(t, NextHour(c))
          PROVE  t.day = c.day /\ t.hour = c.hour /\ t.minute = c.minute
      <3>1. t.day = c.day /\ t.hour = c.hour
        BY <2>2, NextHourFacts
      <3> QED BY <3>1, <2>2, <1>1, Parts, ClockAssumption DEF Before
    <2> QED BY <2>1, <2>2, NextHourFacts
  <1>2. CASE c.minute # Minutes - 1
    <2>1. c.minute + 1 \in 0 .. Minutes - 1
      BY <1>2, Parts, ClockAssumption
    <2>2. /\ NextMinute(c) \in Instants /\ NextMinute(c).day = c.day
          /\ NextMinute(c).hour = c.hour /\ NextMinute(c).minute = c.minute + 1
          /\ NextMinute(c).second = 0
      <3>1. c.hour \in 0 .. Hours - 1 /\ c.day \in Int
        BY DEF Instants
      <3> QED BY <1>2, <2>1, <3>1, Zeros, AtType DEF NextMinute
    <2>3. ASSUME NEW t \in Instants, ~Before(t, c), Before(t, NextMinute(c))
          PROVE  t.day = c.day /\ t.hour = c.hour /\ t.minute = c.minute
      BY <2>2, <2>3, Parts DEF Before
    <2> QED BY <2>2, <2>3, Parts DEF Before
  <1> QED BY <1>1, <1>2

\* Nothing lies between an instant and the second after it.
LEMMA NextSecondFacts ==
    ASSUME NEW c \in Instants
    PROVE  /\ NextSecond(c) \in Instants /\ Before(c, NextSecond(c))
           /\ NextSecond(c).day >= c.day /\ NextSecond(c).day <= c.day + 1
           /\ \A t \in Instants : Before(c, t) => ~Before(t, NextSecond(c))
  <1>1. CASE c.second = Seconds - 1
    <2>1. NextSecond(c) = NextMinute(c)
      BY <1>1 DEF NextSecond
    <2>2. ASSUME NEW t \in Instants, Before(c, t), Before(t, NextMinute(c))
          PROVE  FALSE
      <3>1. ~Before(t, c)
        BY <2>2, Parts DEF Before
      <3>2. t.day = c.day /\ t.hour = c.hour /\ t.minute = c.minute
        BY <2>2, <3>1, NextMinuteFacts
      <3> QED BY <3>2, <2>2, <1>1, Parts, ClockAssumption DEF Before
    <2> QED BY <2>1, <2>2, NextMinuteFacts
  <1>2. CASE c.second # Seconds - 1
    <2>1. c.second + 1 \in 0 .. Seconds - 1
      BY <1>2, Parts, ClockAssumption
    <2>2. /\ NextSecond(c) \in Instants /\ NextSecond(c).day = c.day
          /\ NextSecond(c).hour = c.hour /\ NextSecond(c).minute = c.minute
          /\ NextSecond(c).second = c.second + 1
      <3>1. c.hour \in 0 .. Hours - 1 /\ c.day \in Int /\ c.minute \in 0 .. Minutes - 1
        BY DEF Instants
      <3> QED BY <1>2, <2>1, <3>1, AtType DEF NextSecond
    <2> QED BY <2>2, Parts DEF Before
  <1> QED BY <1>1, <1>2

\* The window begins where the search does.
LEMMA WindowMoves ==
    ASSUME CronInv, NEW c \in Instants, Before(candidate, c)
    PROVE  InWindow(c)
  <1>1. candidate \in Instants /\ now \in Instants /\ InWindow(candidate)
    BY DEF CronInv, CronTypes
  <1>2. Before(now, c)
    BY <1>1, Parts DEF InWindow, Before
  <1>3. ASSUME start # Unbounded PROVE ~Before(c, start)
    <2>1. start \in Instants /\ ~Before(candidate, start)
      BY <1>1, <1>3 DEF CronInv, CronTypes, InWindow
    <2> QED BY <1>1, <2>1, Parts DEF Before
  <1> QED BY <1>2, <1>3 DEF InWindow

-----------------------------------------------------------------------------
\* The candidate moves on past instants that are not allowed.
LEMMA MoveInv ==
    ASSUME CronInv, Searching, NEW c \in Instants, MoveTo(c), Before(candidate, c),
           c.day >= candidate.day,
           \A t \in Calendar : ~Before(t, candidate) /\ Before(t, c) => ~Allowed(schedule, t)
    PROVE  CronInv'
  <1>1. candidate' = c /\ UNCHANGED <<schedule, now, start, end, limit, result>>
    BY DEF MoveTo, arguments
  <1>2. CronTypes'
    BY <1>1, Parts DEF CronInv, CronTypes
  <1>3. InWindow(c)
    BY WindowMoves
  <1>4. NothingSkipped'
    <2>1. \A t \in Calendar : InWindow(t) /\ Before(t, c) => ~Allowed(schedule, t)
      BY DEF CronInv, NothingSkipped
    <2> QED BY <1>1, <2>1 DEF NothingSkipped, InWindow, Allowed, DateAllowed
  <1> QED BY <1>1, <1>2, <1>3, <1>4 DEF CronInv, Searching, InWindow

LEMMA CalendarInstants ==
    ASSUME NEW t \in Calendar
    PROVE  t \in Instants /\ t.day \in Days
  BY CalendarAssumption DEF Calendar, Instants, Days

\* The day the search is at is one of the calendar.
LEMMA SearchDay ==
    ASSUME CronInv, Searching
    PROVE  candidate \in Instants /\ candidate.day \in Days
  <1>1. /\ candidate \in Instants /\ candidate.day >= 0
        /\ limit \in Instants /\ limit.day <= LastDay /\ ~Before(limit, candidate)
    BY DEF CronInv, CronTypes, Searching
  <1> QED BY <1>1, Parts, CalendarAssumption DEF Before, Days

LEMMA InitInv == Init => CronInv
  <1> SUFFICES ASSUME Init PROVE CronInv
    OBVIOUS
  <1>1. /\ now \in Instants /\ now.day >= 0 /\ now.day + 1 + SearchDays <= LastDay
        /\ start \in Instants \cup {Unbounded} /\ end \in Instants \cup {Unbounded}
        /\ start # Unbounded => start \in Instants /\ start.day >= 0
                                /\ start.day + 1 + SearchDays <= LastDay
        /\ SearchDays \in Nat
    BY TimesAssumption DEF Init
  <1>2. /\ NextSecond(now) \in Instants /\ Before(now, NextSecond(now))
        /\ NextSecond(now).day >= now.day /\ NextSecond(now).day <= now.day + 1
        /\ \A t \in Instants : Before(now, t) => ~Before(t, NextSecond(now))
    BY <1>1, NextSecondFacts
  <1>3. /\ candidate \in Instants /\ candidate.day >= 0
        /\ candidate.day + SearchDays <= LastDay
        /\ InWindow(candidate)
        /\ \A t \in Instants : InWindow(t) => ~Before(t, candidate)
    <2>1. CASE start # Unbounded /\ Before(NextSecond(now), start)
      <3>1. candidate = start
        BY <2>1 DEF Init, FirstCandidate
      <3>2. Before(now, start) /\ ~Before(start, start)
        BY <1>1, <1>2, <2>1, Parts DEF Before
      <3> QED BY <2>1, <3>1, <3>2, <1>1, Parts, CalendarAssumption DEF InWindow
    <2>2. CASE ~(start # Unbounded /\ Before(NextSecond(now), start))
      <3>1. candidate = NextSecond(now)
        BY <2>2 DEF Init, FirstCandidate
      <3> QED BY <2>2, <3>1, <1>1, <1>2, Parts, CalendarAssumption DEF InWindow
    <2> QED BY <2>1, <2>2
  <1>4. limit \in Instants /\ limit.day <= LastDay
    <2> DEFINE far == [candidate EXCEPT !.day = @ + SearchDays]
    <2>1. far \in Instants /\ far.day = candidate.day + SearchDays
      BY <1>1, <1>3 DEF Instants
    <2>2. limit = IF end # Unbounded /\ Before(end, far) THEN end ELSE far
      BY DEF Init, Limit
    <2> HIDE DEF far
    <2>3. CASE end # Unbounded /\ Before(end, far)
      <3>1. end \in Instants /\ limit = end
        BY <2>2, <2>3, <1>1
      <3>2. end.day <= far.day
        BY <2>1, <2>3, <3>1, Parts DEF Before
      <3> QED BY <1>1, <1>3, <2>1, <3>1, <3>2, Parts, CalendarAssumption
    <2>4. CASE ~(end # Unbounded /\ Before(end, far))
      BY <2>1, <2>2, <2>4, <1>3
    <2> QED BY <2>3, <2>4
  <1>5. CronTypes /\ result = "searching"
    BY <1>1, <1>3, <1>4 DEF CronTypes, Init, Results
  <1>6. NothingSkipped
    BY <1>3, CalendarInstants DEF NothingSkipped
  <1> QED BY <1>3, <1>5, <1>6 DEF CronInv

LEMMA SkipMonthInv ==
    ASSUME CronInv, SkipMonth
    PROVE  CronInv'
  <1> DEFINE c == At(NextMonth(candidate.day), 0, 0, 0)
  <1>1. Searching /\ MonthOf(candidate.day) \notin schedule.months /\ MoveTo(c)
    BY DEF SkipMonth, MonthOk
  <1>2. candidate \in Instants /\ candidate.day \in Days
    BY <1>1, SearchDay
  <1>3. NextMonth(candidate.day) \in Int /\ NextMonth(candidate.day) > candidate.day
        /\ \A e \in Days : e \in candidate.day .. NextMonth(candidate.day) - 1 =>
              MonthOf(e) = MonthOf(candidate.day)
    BY <1>2, CalendarAssumption
  <1>4. c \in Instants /\ c.day = NextMonth(candidate.day)
        /\ c.hour = 0 /\ c.minute = 0 /\ c.second = 0
    BY <1>3, Zeros, AtType
  <1> HIDE DEF c
  <1>5. Before(candidate, c) /\ c.day >= candidate.day
    BY <1>2, <1>3, <1>4, Parts DEF Before
  <1>6. ASSUME NEW t \in Calendar, ~Before(t, candidate), Before(t, c)
        PROVE  ~Allowed(schedule, t)
    <2>1. t \in Instants /\ t.day \in Days
      BY CalendarInstants
    <2>2. t.day \in candidate.day .. NextMonth(candidate.day) - 1
      BY <1>2, <1>3, <1>4, <1>6, <2>1, Parts DEF Before
    <2> QED BY <1>1, <1>3, <2>1, <2>2 DEF Allowed
  <1> QED BY <1>1, <1>4, <1>5, <1>6, MoveInv

LEMMA SkipDayInv ==
    ASSUME CronInv, SkipDay
    PROVE  CronInv'
  <1>1. Searching /\ ~DateOk(candidate) /\ MoveTo(NextDay(candidate))
    BY DEF SkipDay
  <1>2. candidate \in Instants /\ candidate.day \in Days
    BY <1>1, SearchDay
  <1>3. ~DateAllowed(schedule, candidate.day)
    <2>1. schedule.anyDay \in BOOLEAN /\ schedule.anyWeekday \in BOOLEAN
      BY SchedulesAssumption DEF CronInv, CronTypes
    <2> QED BY <1>1, <2>1 DEF DateOk, DateAllowed
  <1>4. ASSUME NEW t \in Calendar, ~Before(t, candidate), Before(t, NextDay(candidate))
        PROVE  ~Allowed(schedule, t)
    <2>1. t.day = candidate.day
      BY <1>2, <1>4, NextDayFacts, CalendarInstants
    <2> QED BY <1>3, <2>1 DEF Allowed
  <1> QED BY <1>1, <1>2, <1>4, NextDayFacts, MoveInv

LEMMA SkipHourInv ==
    ASSUME CronInv, SkipHour
    PROVE  CronInv'
  <1>1. Searching /\ candidate.hour \notin schedule.hours
    BY DEF SkipHour, OnDay
  <1>2. candidate \in Instants /\ schedule.hours \subseteq 0 .. Hours - 1
    BY <1>1, SearchDay, SchedulesAssumption DEF CronInv, CronTypes
  <1>3. ASSUME NEW h \in schedule.hours, Following(h, schedule.hours, candidate.hour),
               MoveTo(At(candidate.day, h, 0, 0))
        PROVE  CronInv'
    <2> DEFINE c == At(candidate.day, h, 0, 0)
    <2>1. h \in 0 .. Hours - 1 /\ h > candidate.hour
          /\ \A w \in schedule.hours : w > candidate.hour => h <= w
      BY <1>2, <1>3 DEF Following, Later
    <2>2. c \in Instants /\ c.day = candidate.day /\ c.hour = h /\ c.minute = 0 /\ c.second = 0
      BY <1>2, <2>1, Parts, Zeros, AtType
    <2> HIDE DEF c
    <2>3. Before(candidate, c) /\ c.day >= candidate.day
      BY <1>2, <2>1, <2>2, Parts DEF Before
    <2>4. ASSUME NEW t \in Calendar, ~Before(t, candidate), Before(t, c)
          PROVE  ~Allowed(schedule, t)
      <3>1. t \in Instants
        BY CalendarInstants
      <3>2. t.hour >= candidate.hour /\ t.hour < h /\ t.hour \in Int
        BY <1>2, <2>1, <2>2, <2>4, <3>1, Parts DEF Before
      <3>3. t.hour \notin schedule.hours
        BY <1>1, <1>2, <2>1, <3>2, Parts
      <3> QED BY <3>3 DEF Allowed
    <2> QED BY <1>1, <1>3, <2>2, <2>3, <2>4, MoveInv DEF c
  <1>4. ASSUME Later(schedule.hours, candidate.hour) = {}, MoveTo(NextDay(candidate))
        PROVE  CronInv'
    <2>1. ASSUME NEW t \in Calendar, ~Before(t, candidate), Before(t, NextDay(candidate))
          PROVE  ~Allowed(schedule, t)
      <3>1. t \in Instants /\ t.day = candidate.day
        BY <1>2, <2>1, NextDayFacts, CalendarInstants
      <3>2. t.hour >= candidate.hour /\ t.hour \in Int
        BY <1>2, <2>1, <3>1, Parts DEF Before
      <3>3. t.hour \notin schedule.hours
        BY <1>1, <1>2, <1>4, <3>2, Parts DEF Later
      <3> QED BY <3>3 DEF Allowed
    <2> QED BY <1>1, <1>2, <1>4, <2>1, NextDayFacts, MoveInv
  <1> QED BY <1>3, <1>4 DEF SkipHour

LEMMA SkipMinuteInv ==
    ASSUME CronInv, SkipMinute
    PROVE  CronInv'
  <1>1. Searching /\ candidate.minute \notin schedule.minutes
    BY DEF SkipMinute, OnHour, OnDay
  <1>2. candidate \in Instants /\ schedule.minutes \subseteq 0 .. Minutes - 1
        /\ candidate.hour \in 0 .. Hours - 1
    BY <1>1, SearchDay, SchedulesAssumption DEF CronInv, CronTypes, Instants
  <1>3. ASSUME NEW m \in schedule.minutes, Following(m, schedule.minutes, candidate.minute),
               MoveTo(At(candidate.day, candidate.hour, m, 0))
        PROVE  CronInv'
    <2> DEFINE c == At(candidate.day, candidate.hour, m, 0)
    <2>1. m \in 0 .. Minutes - 1 /\ m > candidate.minute
          /\ \A w \in schedule.minutes : w > candidate.minute => m <= w
      BY <1>2, <1>3 DEF Following, Later
    <2>2. c \in Instants /\ c.day = candidate.day /\ c.hour = candidate.hour
          /\ c.minute = m /\ c.second = 0
      BY <1>2, <2>1, Parts, Zeros, AtType
    <2> HIDE DEF c
    <2>3. Before(candidate, c) /\ c.day >= candidate.day
      BY <1>2, <2>1, <2>2, Parts DEF Before
    <2>4. ASSUME NEW t \in Calendar, ~Before(t, candidate), Before(t, c)
          PROVE  ~Allowed(schedule, t)
      <3>1. t \in Instants
        BY CalendarInstants
      <3>2. t.minute >= candidate.minute /\ t.minute < m /\ t.minute \in Int
        BY <1>2, <2>1, <2>2, <2>4, <3>1, Parts DEF Before
      <3>3. t.minute \notin schedule.minutes
        BY <1>1, <1>2, <2>1, <3>2, Parts
      <3> QED BY <3>3 DEF Allowed
    <2> QED BY <1>1, <1>3, <2>2, <2>3, <2>4, MoveInv DEF c
  <1>4. ASSUME Later(schedule.minutes, candidate.minute) = {}, MoveTo(NextHour(candidate))
        PROVE  CronInv'
    <2>1. ASSUME NEW t \in Calendar, ~Before(t, candidate), Before(t, NextHour(candidate))
          PROVE  ~Allowed(schedule, t)
      <3>1. t \in Instants /\ t.day = candidate.day /\ t.hour = candidate.hour
        BY <1>2, <2>1, NextHourFacts, CalendarInstants
      <3>2. t.minute >= candidate.minute /\ t.minute \in Int
        BY <1>2, <2>1, <3>1, Parts DEF Before
      <3>3. t.minute \notin schedule.minutes
        BY <1>1, <1>2, <1>4, <3>2, Parts DEF Later
      <3> QED BY <3>3 DEF Allowed
    <2> QED BY <1>1, <1>2, <1>4, <2>1, NextHourFacts, MoveInv
  <1> QED BY <1>3, <1>4 DEF SkipMinute

LEMMA SkipSecondInv ==
    ASSUME CronInv, SkipSecond
    PROVE  CronInv'
  <1>1. Searching /\ candidate.second \notin schedule.seconds
    BY DEF SkipSecond, OnMinute, OnHour, OnDay
  <1>2. candidate \in Instants /\ schedule.seconds \subseteq 0 .. Seconds - 1
    BY <1>1, SearchDay, SchedulesAssumption DEF CronInv, CronTypes
  <1>3. ASSUME NEW x \in schedule.seconds, Following(x, schedule.seconds, candidate.second),
               MoveTo([candidate EXCEPT !.second = x])
        PROVE  CronInv'
    <2> DEFINE c == [candidate EXCEPT !.second = x]
    <2>1. x \in 0 .. Seconds - 1 /\ x > candidate.second
          /\ \A w \in schedule.seconds : w > candidate.second => x <= w
      BY <1>2, <1>3 DEF Following, Later
    <2>2. c \in Instants /\ c.day = candidate.day /\ c.hour = candidate.hour
          /\ c.minute = candidate.minute /\ c.second = x
      BY <1>2, <2>1 DEF Instants
    <2> HIDE DEF c
    <2>3. Before(candidate, c) /\ c.day >= candidate.day
      BY <1>2, <2>1, <2>2, Parts DEF Before
    <2>4. ASSUME NEW t \in Calendar, ~Before(t, candidate), Before(t, c)
          PROVE  ~Allowed(schedule, t)
      <3>1. t \in Instants
        BY CalendarInstants
      <3>2. t.second >= candidate.second /\ t.second < x /\ t.second \in Int
        BY <1>2, <2>1, <2>2, <2>4, <3>1, Parts DEF Before
      <3>3. t.second \notin schedule.seconds
        BY <1>1, <1>2, <2>1, <3>2, Parts
      <3> QED BY <3>3 DEF Allowed
    <2> QED BY <1>1, <1>3, <2>2, <2>3, <2>4, MoveInv DEF c
  <1>4. ASSUME Later(schedule.seconds, candidate.second) = {}, MoveTo(NextMinute(candidate))
        PROVE  CronInv'
    <2>1. ASSUME NEW t \in Calendar, ~Before(t, candidate), Before(t, NextMinute(candidate))
          PROVE  ~Allowed(schedule, t)
      <3>1. t \in Instants /\ t.day = candidate.day /\ t.hour = candidate.hour
            /\ t.minute = candidate.minute
        BY <1>2, <2>1, NextMinuteFacts, CalendarInstants
      <3>2. t.second >= candidate.second /\ t.second \in Int
        BY <1>2, <2>1, <3>1, Parts DEF Before
      <3>3. t.second \notin schedule.seconds
        BY <1>1, <1>2, <1>4, <3>2, Parts DEF Later
      <3> QED BY <3>3 DEF Allowed
    <2> QED BY <1>1, <1>2, <1>4, <2>1, NextMinuteFacts, MoveInv
  <1> QED BY <1>3, <1>4 DEF SkipSecond

LEMMA EndInv ==
    ASSUME CronInv, GiveUp \/ Return
    PROVE  CronInv'
  <1>1. UNCHANGED <<schedule, now, start, end, limit, candidate>>
    BY DEF GiveUp, Return, arguments
  <1>2. \/ result' = "none" /\ Before(limit, candidate)
        \/ result' = "found" /\ ~Before(limit, candidate) /\ Allowed(schedule, candidate)
    <2>1. schedule.anyDay \in BOOLEAN /\ schedule.anyWeekday \in BOOLEAN
      BY SchedulesAssumption DEF CronInv, CronTypes
    <2>2. OnMinute => ~Before(limit, candidate) /\ MonthOf(candidate.day) \in schedule.months
                      /\ DateOk(candidate) /\ candidate.hour \in schedule.hours
                      /\ candidate.minute \in schedule.minutes
      BY DEF OnMinute, OnHour, OnDay, Searching, MonthOk
    <2>3. DateOk(candidate) => DateAllowed(schedule, candidate.day)
      BY <2>1 DEF DateOk, DateAllowed
    <2> QED BY <2>2, <2>3 DEF GiveUp, Return, Allowed
  <1>3. CronTypes'
    BY <1>1, <1>2 DEF CronInv, CronTypes, Results
  <1>4. InWindow(candidate)' /\ NothingSkipped'
    BY <1>1 DEF CronInv, InWindow, NothingSkipped, Allowed, DateAllowed
  <1>5. Allowed(schedule, candidate)' <=> Allowed(schedule, candidate)
    BY <1>1 DEF Allowed, DateAllowed
  <1> QED BY <1>1, <1>2, <1>3, <1>4, <1>5 DEF CronInv

LEMMA StepInv == CronInv /\ [Next]_vars => CronInv'
  <1> SUFFICES ASSUME CronInv, [Next]_vars PROVE CronInv'
    OBVIOUS
  <1>1. CASE Next
    BY <1>1, SkipMonthInv, SkipDayInv, SkipHourInv, SkipMinuteInv, SkipSecondInv, EndInv
       DEF Next
  <1>2. CASE UNCHANGED vars
    BY <1>2 DEF vars, CronInv, CronTypes, InWindow, NothingSkipped, Allowed, DateAllowed
  <1> QED BY <1>1, <1>2

-----------------------------------------------------------------------------
\* The search keeps its types and its window, and has passed nothing it may return.
THEOREM CronInvariant == Spec => []CronInv
<1>1. QED
  BY InitInv, StepInv, PTL DEF Spec

\* The result is the least allowed instant after now, on any calendar and clock; and
\* there is none only if there is none within the limit.
THEOREM NextRunIsLeast == Spec => []LeastAllowed
<1>1. CronInv => LeastAllowed
  <2> SUFFICES ASSUME CronInv PROVE LeastAllowed
    OBVIOUS
  <2>1. ASSUME result = "found"
        PROVE  /\ Allowed(schedule, candidate)
               /\ InSearch(candidate)
               /\ \A t \in Calendar : InSearch(t) /\ Before(t, candidate) =>
                    ~Allowed(schedule, t)
    BY <2>1 DEF CronInv, NothingSkipped, InWindow, InSearch
  <2>2. ASSUME result = "none", NEW t \in Calendar, InSearch(t)
        PROVE  ~Allowed(schedule, t)
    <3>1. /\ t \in Instants /\ limit \in Instants /\ candidate \in Instants
          /\ Before(limit, candidate) /\ ~Before(limit, t)
      BY <2>2, CalendarInstants DEF CronInv, CronTypes, InSearch
    <3>2. Before(t, candidate)
      BY <3>1, Parts DEF Before
    <3> QED BY <2>2, <3>2 DEF CronInv, NothingSkipped, InWindow, InSearch
  <2> QED BY <2>1, <2>2 DEF LeastAllowed
<1>2. QED
  BY <1>1, CronInvariant, PTL
=============================================================================
