--------------------------- MODULE MCCronNextRun ---------------------------
(* A small calendar for CronNextRun: years of three months, the second of which has a *)
(* third day every other year; minutes, hours and days of two.                        *)
EXTENDS CronNextRun, Sequences

\* The days of two years, over and over.
Cycle == << <<1, 1>>, <<1, 2>>, <<2, 1>>, <<2, 2>>, <<3, 1>>,
            <<1, 1>>, <<1, 2>>, <<2, 1>>, <<2, 2>>, <<2, 3>>, <<3, 1>> >>

InCycle(d) == Cycle[(d % Len(Cycle)) + 1]

CalendarMonth(d) == InCycle(d)[1]

DayOfMonth(d) == InCycle(d)[2]

DayOfWeek(d) == d % 2

FirstOfNextMonth(d) ==
    CHOOSE e \in d + 1 .. d + 3 : /\ DayOfMonth(e) = 1
                                  /\ \A f \in d + 1 .. e - 1 : DayOfMonth(f) # 1

Texts(values) == (SUBSET values) \ {{}}

\* Wildcards, and sets of values.
SmallSchedules ==
    {[seconds |-> s, minutes |-> m, hours |-> h, months |-> mo,
      days |-> d[2], anyDay |-> d[1], weekdays |-> w[2], anyWeekday |-> w[1]] :
        s \in {{0}, {1}}, m \in {{1}, {0, 1}}, h \in Texts(0 .. 1), mo \in Texts(1 .. 3),
        d \in ({FALSE} \X Texts(1 .. 3)) \cup {<<TRUE, 1 .. 3>>},
        w \in ({FALSE} \X {{0}, {1}}) \cup {<<TRUE, 0 .. 1>>}}

SmallNows == {At(0, 0, 0, 0), At(2, 1, 1, 1), At(4, 1, 0, 1)}

SmallStarts == {Unbounded, At(3, 0, 1, 0)}

SmallEnds == {Unbounded, At(6, 1, 0, 0)}
=============================================================================
