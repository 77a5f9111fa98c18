------------------------------ MODULE Schedule ------------------------------
(***************************************************************************)
(* Cron expressions and the daily timer (schedule/schedule.go,             *)
(* schedule/daily.go): parsing the five fields, the loop of Next, which    *)
(* moves a local time forward until every field matches, and NextDaily,    *)
(* which the log, event and backup maintenance timers run on.              *)
(*                                                                         *)
(* Time is counted in minutes of a small calendar.  A zone has one change  *)
(* of its offset, so that an hour of the local clock is missing or comes   *)
(* twice; Date converts a local time the way the time package does.        *)
(***************************************************************************)
EXTENDS Integers, FiniteSets

CONSTANTS
  HourMinutes,  \* minutes in an hour
  DayHours,     \* hours in a day
  WeekDays,     \* days in a week
  MonthDays,    \* days in a month
  YearMonths,   \* months in a year
  LimitDays,    \* how far Next looks: five years in the code
  Zones,        \* zones: [before, after, at], two offsets and the instant between them
  Crons,        \* expressions: every, a count and a unit or <<>>, and five fields, sets of
                \* list entries
  Word,         \* the width of a duration, in bits
  Moments,      \* the instants Next may be asked for
  DailyTimes,   \* times of day of a maintenance timer, in minutes
  MaxFires      \* bound: runs of a daily timer followed

VARIABLES
  schZone,    \* the zone of the host
  schFields,  \* the parsed expression
  schAfter,   \* the argument of Next
  schAt,      \* t: the time the loop has reached
  schPc,      \* "next" in the loop of Next, "done" after it
  schFired,   \* the instants the daily timer ran at, last first
  schDaily    \* its time of day

schVars == <<schZone, schFields, schAfter, schAt, schPc, schFired, schDaily>>

DayMinutes == HourMinutes * DayHours
NoRun == -1   \* the zero time

-----------------------------------------------------------------------------
(* The local clock. *)

Offset(z, u) == IF u < z.at THEN z.before ELSE z.after

Day(z, u) == (u + Offset(z, u)) \div DayMinutes
Clock(z, u) == (u + Offset(z, u)) % DayMinutes
Hour(z, u) == Clock(z, u) \div HourMinutes
Minute(z, u) == Clock(z, u) % HourMinutes

\* time.Date: the offset of the local time read as if it were UTC, corrected once when the
\* instant it gives is on the other side of the change.
Date(z, local) ==
  LET guess == Offset(z, local)
      utc == local - guess
  IN IF (local < z.at) = (utc < z.at) \/ guess = 0 THEN utc ELSE local - Offset(z, utc)

\* AddDate(0, 0, n): the same clock n days on.
AddDays(z, u, n) == Date(z, (Day(z, u) + n) * DayMinutes + Clock(z, u))

-----------------------------------------------------------------------------
(* Parsing.  A list entry is [base, from, to, step]; base "any" is a star. *)

EntryEnd(e, high) ==
  CASE e.base = "any" -> high
    [] e.base = "range" -> e.to
    [] OTHER -> IF e.step > 1 THEN high ELSE e.from

EntryFits(e, low, high) ==
  \/ e.base = "any"
  \/ e.from >= low /\ EntryEnd(e, high) <= high /\ e.from <= EntryEnd(e, high)

EntryValues(e, low, high) ==
  LET first == IF e.base = "any" THEN low ELSE e.from
  IN {v \in first..EntryEnd(e, high) : (v - first) % e.step = 0}

\* parseField: only a lone star leaves the field open; a star with a step is a list.
ParseField(entries, low, high) ==
  IF entries = {} THEN [any |-> TRUE, values |-> {}]
  ELSE [any |-> FALSE, values |-> UNION {EntryValues(e, low, high) : e \in entries}]

\* The fields of an interval stay as Go makes them, which is matching nothing.
NoField == [any |-> FALSE, values |-> {}]

\* parseInterval: the product of the count and the unit is a signed integer of the machine.
Interval(every) ==
  LET wrapped == (every[1] * every[2]) % 2^Word
  IN IF wrapped >= 2^(Word - 1) THEN wrapped - 2^Word ELSE wrapped

CronFits(c) ==
  /\ \A e \in c.minute : EntryFits(e, 0, HourMinutes - 1)
  /\ \A e \in c.hour : EntryFits(e, 0, DayHours - 1)
  /\ \A e \in c.day : EntryFits(e, 1, MonthDays)
  /\ \A e \in c.month : EntryFits(e, 1, YearMonths)
  /\ \A e \in c.weekday : EntryFits(e, 0, WeekDays)

\* Sunday is both the first weekday and the one past the last.
Sundays(f) ==
  IF WeekDays \in f.values THEN [f EXCEPT !.values = (@ \ {WeekDays}) \union {0}] ELSE f

ParseCron(c) ==
  IF c.every # <<>>
  THEN [every |-> Interval(c.every), minute |-> NoField, hour |-> NoField,
        day |-> NoField, month |-> NoField, weekday |-> NoField]
  ELSE [every |-> 0,
        minute |-> ParseField(c.minute, 0, HourMinutes - 1),
        hour |-> ParseField(c.hour, 0, DayHours - 1),
        day |-> ParseField(c.day, 1, MonthDays),
        month |-> ParseField(c.month, 1, YearMonths),
        weekday |-> Sundays(ParseField(c.weekday, 0, WeekDays))]

FieldHas(f, v) == f.any \/ v \in f.values

-----------------------------------------------------------------------------
(* What an instant has to match. *)

MonthMatches(f, z, u) == FieldHas(f.month, ((Day(z, u) \div MonthDays) % YearMonths) + 1)

DayMatches(f, z, u) ==
  LET day == FieldHas(f.day, (Day(z, u) % MonthDays) + 1)
      weekday == FieldHas(f.weekday, Day(z, u) % WeekDays)
  IN IF f.day.any \/ f.weekday.any THEN day /\ weekday ELSE day \/ weekday

HourMatches(f, z, u) == FieldHas(f.hour, Hour(z, u))
MinuteMatches(f, z, u) == FieldHas(f.minute, Minute(z, u))

Limit == AddDays(schZone, schAfter, LimitDays)

-----------------------------------------------------------------------------
(* Next, one action per turn of its loop. *)

SchLoop == schPc = "next" /\ schFields.every <= 0 /\ schAt < Limit

\* The start of the day without the day added (mutant).
DayAgain(z, u) == Date(z, Day(z, u) * DayMinutes)

\* The start of the next day.
DayAfter(z, u) == AddDays(z, Date(z, Day(z, u) * DayMinutes), 1)

\* An hour added where the hour is not entered from its start (mutant).
HourLater(z, u) == u + HourMinutes

\* An hour past the start of this one.
HourAfter(z, u) == Date(z, Day(z, u) * DayMinutes + Hour(z, u) * HourMinutes) + HourMinutes

SchTurn(u) ==
  schAt' = u /\ UNCHANGED <<schZone, schFields, schAfter, schPc, schFired, schDaily>>

SchReturn(u) ==
  /\ schPc' = "done" /\ schAt' = u
  /\ UNCHANGED <<schZone, schFields, schAfter, schFired, schDaily>>

OnDay == MonthMatches(schFields, schZone, schAt) /\ DayMatches(schFields, schZone, schAt)
OnHour == OnDay /\ HourMatches(schFields, schZone, schAt)

SkipDay == SchLoop /\ ~OnDay /\ SchTurn(DayAfter(schZone, schAt))

SkipHour == SchLoop /\ OnDay /\ ~OnHour /\ SchTurn(HourAfter(schZone, schAt))

SkipMinute ==
  /\ SchLoop /\ OnHour
  /\ ~MinuteMatches(schFields, schZone, schAt)
  /\ SchTurn(schAt + 1)

NextFound ==
  /\ SchLoop /\ OnHour
  /\ MinuteMatches(schFields, schZone, schAt)
  /\ SchReturn(schAt)

NextGivesUp ==
  schPc = "next" /\ schFields.every <= 0 /\ schAt >= Limit /\ SchReturn(NoRun)

NextEvery ==
  schPc = "next" /\ schFields.every > 0 /\ SchReturn(schAfter + schFields.every)

\* The supervisor asks again from the run it found.
NextAgain ==
  /\ schPc = "done" /\ schAt \in Moments
  /\ schPc' = "next" /\ schAfter' = schAt /\ schAt' = schAt + 1
  /\ UNCHANGED <<schZone, schFields, schFired, schDaily>>

-----------------------------------------------------------------------------
(* The daily timer. *)

NextDaily(z, at, now) ==
  LET next == Date(z, Day(z, now) * DayMinutes + at)
  IN IF next > now THEN next ELSE AddDays(z, next, 1)

DailyRun ==
  /\ schPc = "daily" /\ Cardinality(schFired) < MaxFires
  /\ schFired' = schFired \union {NextDaily(schZone, schDaily, schAt)}
  /\ schAt' = NextDaily(schZone, schDaily, schAt)
  /\ UNCHANGED <<schZone, schFields, schAfter, schPc, schDaily>>

SchInit ==
  /\ schZone \in Zones
  /\ schFields \in {ParseCron(c) : c \in {d \in Crons : CronFits(d)}}
  /\ schAfter \in Moments
  /\ schDaily \in DailyTimes
  /\ schFired = {}
  /\ \/ schPc = "next" /\ schAt = schAfter + 1 /\ schDaily = CHOOSE d \in DailyTimes : TRUE
     \/ /\ schPc = "daily" /\ schAt = schAfter
        /\ schFields = ParseCron(CHOOSE c \in Crons : CronFits(c))

SchNext ==
  SkipDay \/ SkipHour \/ SkipMinute \/ NextFound \/ NextGivesUp \/ NextEvery
  \/ NextAgain \/ DailyRun

SchSpec == SchInit /\ [][SchNext]_schVars

-----------------------------------------------------------------------------
(* Properties. *)

CronRuns(f, z, u) ==
  IF f.every > 0 THEN u = schAfter + f.every ELSE
  MonthMatches(f, z, u) /\ DayMatches(f, z, u) /\ HourMatches(f, z, u) /\ MinuteMatches(f, z, u)

\* The minutes of the local clock that a zone leaves out, and those it has twice.  Of two Date
\* takes the later east of Greenwich and the earlier west of it, and a minute left out it moves
\* on in the east and back in the west: what follows holds but for the zones each claim names.
Eastern(z) == z.before >= 0 /\ z.after >= 0
LeftOut(z) == (z.at + z.before)..(z.at + z.after - 1)
TwiceOver(z) == (z.at + z.after)..(z.at + z.before - 1)
Turned(z) == LeftOut(z) \union TwiceOver(z)
Midnight(minutes) == \E m \in minutes : m % DayMinutes = 0

\* "Next returns the first run time strictly after after": skipping whole days and hours
\* through a change of the clock passes over no minute the expression names, unless a zone in
\* the east turns its clock over midnight.
NextIsFirst ==
  schPc = "done" /\ ~(Eastern(schZone) /\ Midnight(Turned(schZone))) =>
    /\ schAt = NoRun => ~\E u \in (schAfter + 1)..(Limit - 1) : CronRuns(schFields, schZone, u)
    /\ schAt # NoRun => /\ CronRuns(schFields, schZone, schAt)
                        /\ \A u \in (schAfter + 1)..(schAt - 1) : ~CronRuns(schFields, schZone, u)

\* A turn that skips a day or an hour lands later than it started, in the east and wherever in
\* the west no hour comes twice and no midnight is left out: one that lands where it started,
\* or before, is taken again and again, and Next never comes out of its loop.
NextClimbs ==
  SchLoop /\ (Eastern(schZone) \/ (TwiceOver(schZone) = {} /\ ~Midnight(LeftOut(schZone)))) =>
    /\ ~OnDay => DayAfter(schZone, schAt) > schAt
    /\ OnDay /\ ~OnHour => HourAfter(schZone, schAt) > schAt

\* A daily timer runs once on every local day, in the west unless the clock goes forward and
\* in the east unless it goes forward to midnight.
OnceADay ==
  (IF Eastern(schZone) THEN ~Midnight({m + 1 : m \in LeftOut(schZone)}) ELSE LeftOut(schZone) = {}) =>
    \A u, v \in schFired : u < v =>
      /\ Day(schZone, u) < Day(schZone, v)
      /\ \A d \in (Day(schZone, u) + 1)..(Day(schZone, v) - 1) :
           \E w \in schFired : Day(schZone, w) = d

\* Cron and the daily timers keep their times: the first match and none passed over, always
\* forward, and one run a day, in the zones the three claims name.
TimersKept == NextIsFirst /\ NextClimbs /\ OnceADay

\* "A zero time means the schedule could not be satisfied within five years": Next returns
\* whatever the expression is, if the processor runs its loop.
SchFairSpec == SchSpec /\ WF_schVars(SchNext)
NextReturns == schPc = "next" ~> schPc = "done"
=============================================================================
