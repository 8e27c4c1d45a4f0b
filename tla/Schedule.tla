------------------------------ MODULE Schedule ------------------------------
(***************************************************************************)
(* When an automation is due (core/automations.py): the next occurrence of *)
(* a schedule after a given time, in the daemon's zone or in the zone the  *)
(* schedule names, and the record that carries it from run to run.         *)
(*                                                                         *)
(* Time is counted in minutes.  An instant is a minute of UTC; a wall time *)
(* is the same count on the clocks of the zone, with the fold that tells   *)
(* the second of two equal ones.  The calendar is scaled down by the       *)
(* constants and keeps what the algorithm can trip over: weeks and months  *)
(* that divide nothing evenly, a leap day, an hour that is skipped and one *)
(* that is repeated.                                                       *)
(***************************************************************************)
EXTENDS Integers, Sequences, FiniteSets

CONSTANTS
  Schedules,  \* the schedules an automation may have
  Hour,       \* minutes of an hour
  Day,        \* hours of a day
  Week,       \* days of a week
  Months,     \* the months of the calendar in order: [month, days]
  YearDays,   \* days the search for a cron time covers: those of a leap year
  Spring, Autumn,  \* the instants at which the zone gains and loses an hour
  MaxTime     \* bound: minutes

ASSUME ScheduleAssumption ==
  /\ {Hour, Day, Week} \subseteq Nat \ {0} /\ {YearDays, MaxTime} \subseteq Nat
  /\ Months \in Seq([month : Nat \ {0}, days : Nat \ {0}])
  /\ {Spring, Autumn} \subseteq Nat /\ Spring + Hour < Autumn

VARIABLES
  now,
  status,    \* of the record: "active" or "paused"
  schedule,  \* of the record
  marked,    \* the time next was computed from
  next       \* next_run_at, an instant

vars == <<now, status, schedule, marked, next>>

-----------------------------------------------------------------------------
(* The calendar.                                                           *)

DayLength  == Hour * Day
DayOf(w)   == w \div DayLength
Minute(w)  == w % Hour
HourOf(w)  == (w \div Hour) % Day
Weekday(w) == DayOf(w) % Week
At(w, h, m) == DayOf(w) * DayLength + h * Hour + m   \* replace(hour, minute)

\* The number of days before the k-th month of the calendar.
Before[k \in 1..(Len(Months) + 1)] == IF k = 1 THEN 0 ELSE Before[k - 1] + Months[k - 1].days
MonthAt(w)    == CHOOSE k \in 1..Len(Months) : Before[k] <= DayOf(w) /\ DayOf(w) < Before[k + 1]
Month(w)      == Months[MonthAt(w)].month
DayOfMonth(w) == DayOf(w) - Before[MonthAt(w)] + 1

(* The zone.                                                               *)

Offset(t) == IF Spring <= t /\ t < Autumn THEN Hour ELSE 0
Wall(t)   == t + Offset(t)                           \* astimezone
Fold(t)   == IF Autumn <= t /\ t < Autumn + Hour THEN 1 ELSE 0

Skipped(w)  == Spring <= w /\ w < Spring + Hour
Repeated(w) == Autumn <= w /\ w < Autumn + Hour
(* Mutant: the offset is looked up as if the wall time were an instant. *)
InstantOfWall(w, fold) == w - Offset(w)

(* The instant of a wall time.  Of two the fold tells which; a skipped one *)
(* counts with the offset before the change, and with a fold the one after.*)
Instant(w, fold) ==
  IF fold = 0
  THEN IF Spring + Hour <= w /\ w < Autumn + Hour THEN w - Hour ELSE w
  ELSE IF Spring <= w /\ w < Autumn THEN w - Hour ELSE w
-----------------------------------------------------------------------------
(* The schedules: "every n minutes", "daily h:m", "weekly d h:m" and five- *)
(* field cron, in the zone the schedule names or in the daemon's.          *)

Every(n, zoned)        == [kind |-> "every", zoned |-> zoned, minutes |-> n]
Daily(h, m, zoned)     == [kind |-> "daily", zoned |-> zoned, hour |-> h, minute |-> m]
Weekly(d, h, m, zoned) == [kind |-> "weekly", zoned |-> zoned, weekday |-> d, hour |-> h, minute |-> m]

(* _cron_field: "*", a step, or a list of values; the last weekday is the  *)
(* first one as well.                                                      *)
Star         == [type |-> "star"]
Step(n)      == [type |-> "step", n |-> n]
Listed(vs)   == [type |-> "list", values |-> vs]
CronField(f, minimum, maximum, sunday) ==
  LET values == CASE f.type = "star" -> minimum..maximum
                  [] f.type = "step" -> {v \in minimum..maximum : (v - minimum) % f.n = 0}
                  [] f.type = "list" -> f.values \cap minimum..maximum
  IN {IF v = sunday THEN 0 ELSE v : v \in values}

Never == -1
Cron(minute, hour, day, month, weekday, zoned) ==
  [kind |-> "cron", zoned |-> zoned,
   minute |-> CronField(minute, 0, Hour - 1, Never), hour |-> CronField(hour, 0, Day - 1, Never),
   day |-> CronField(day, 1, YearDays, Never), month |-> CronField(month, 1, Len(Months), Never),
   weekday |-> CronField(weekday, 0, Week, Week)]

(* What _parse_schedule accepts. *)
Timetables ==
       [kind : {"every"}, zoned : BOOLEAN, minutes : 1..DayLength]
  \cup [kind : {"daily"}, zoned : BOOLEAN, hour : 0..(Day - 1), minute : 0..(Hour - 1)]
  \cup [kind : {"weekly"}, zoned : BOOLEAN, weekday : 0..(Week - 1), hour : 0..(Day - 1), minute : 0..(Hour - 1)]
  \cup [kind : {"cron"}, zoned : BOOLEAN, minute : SUBSET (0..(Hour - 1)), hour : SUBSET (0..(Day - 1)),
        day : SUBSET (1..YearDays), month : SUBSET (1..Len(Months)), weekday : SUBSET (0..(Week - 1))]

ASSUME TimetableAssumption == Schedules \subseteq Timetables

(* _cron_matches: every field has to match. *)
CronMatches(s, w) ==
  /\ Minute(w) \in s.minute /\ HourOf(w) \in s.hour
  /\ DayOfMonth(w) \in s.day /\ Month(w) \in s.month /\ Weekday(w) \in s.weekday

-----------------------------------------------------------------------------
(* next_scheduled_at.  Sums are wall times without a fold; replace() keeps *)
(* the fold of the base.                                                   *)

Sum(w) == [wall |-> w, fold |-> 0]

(* Mutant: the time of today counts although it is now. *)
NextDailyNow(s, base) ==
  LET candidate == At(base.wall, s.hour, s.minute)
  IN IF candidate < base.wall THEN Sum(candidate + DayLength) ELSE [base EXCEPT !.wall = candidate]

NextDaily(s, base) ==
  LET candidate == At(base.wall, s.hour, s.minute)
  IN IF candidate <= base.wall THEN Sum(candidate + DayLength) ELSE [base EXCEPT !.wall = candidate]

NextWeekly(s, base) ==
  LET today     == At(base.wall, s.hour, s.minute)
      candidate == today + ((s.weekday - Weekday(today)) % Week) * DayLength
  IN Sum(IF candidate <= base.wall THEN candidate + Week * DayLength ELSE candidate)

(* The search stops after a year. *)
NextCron(s, base) ==
  LET found == {w \in (base.wall + 1)..(base.wall + YearDays * DayLength) : CronMatches(s, w)}
  IN Sum(IF found = {} THEN Never ELSE CHOOSE w \in found : \A v \in found : w <= v)

NextWall(s, t) ==
  LET base == [wall |-> Wall(t), fold |-> IF s.zoned THEN Fold(t) ELSE 0]
  IN CASE s.kind = "every"  -> Sum(base.wall + s.minutes)
       [] s.kind = "daily"  -> NextDaily(s, base)
       [] s.kind = "weekly" -> NextWeekly(s, base)
       [] s.kind = "cron"   -> NextCron(s, base)

(* The daemon's zone is the offset it has now. *)
NextScheduledAt(s, t) ==
  LET d == NextWall(s, t)
  IN IF d.wall = Never THEN Never
     ELSE IF s.zoned THEN Instant(d.wall, d.fold) ELSE d.wall - Offset(t)

-----------------------------------------------------------------------------
(* The record: create, update, resume, is_due and mark_run.  A schedule    *)
(* without a next time is refused, and at mark_run an error: the record    *)
(* stays due.                                                              *)

NextRunAt == [s \in Schedules |-> [t \in 0..MaxTime |-> NextScheduledAt(s, t)]]

Computed(s) == NextRunAt[s][now] # Never /\ next' = NextRunAt[s][now] /\ marked' = now

Init ==
  /\ now \in 0..MaxTime /\ status = "active" /\ marked = now
  /\ schedule \in {s \in Schedules : NextRunAt[s][now] # Never}
  /\ next = NextRunAt[schedule][now]

Due == status = "active" /\ next <= now

MarkRun    == Due /\ Computed(schedule) /\ UNCHANGED <<now, status, schedule>>
Reschedule ==
  /\ schedule' \in Schedules \ {schedule} /\ status' \in {"active", "paused"}
  /\ Computed(schedule') /\ UNCHANGED now
Pause      == status = "active" /\ status' = "paused" /\ UNCHANGED <<now, schedule, marked, next>>
Resume     == status' = "active" /\ Computed(schedule) /\ UNCHANGED <<now, schedule>>
TimePasses == now < MaxTime /\ now' = now + 1 /\ UNCHANGED <<status, schedule, marked, next>>

Next == MarkRun \/ Reschedule \/ Pause \/ Resume \/ TimePasses
Spec == Init /\ [][Next]_vars

-----------------------------------------------------------------------------

(* What a schedule says of an instant, read off the clocks of the zone. *)
Matches(s, t) ==
  LET w == Wall(t) IN
  CASE s.kind = "every"  -> t = marked + s.minutes
    [] s.kind = "daily"  -> HourOf(w) = s.hour /\ Minute(w) = s.minute
    [] s.kind = "weekly" -> Weekday(w) = s.weekday /\ HourOf(w) = s.hour /\ Minute(w) = s.minute
    [] s.kind = "cron"   -> CronMatches(s, w)

(* The clocks give no trouble: they do not change in between, or the       *)
(* schedule counts in wall time, starts outside the repeated hour and does *)
(* not fall into the skipped one.                                          *)
Regular ==
  \/ Fold(marked) = 0 /\ \A t \in marked..next : Offset(t) = Offset(marked)
  \/ /\ schedule.zoned /\ schedule.kind # "every"
     /\ ~Repeated(Wall(marked)) /\ ~Skipped(NextWall(schedule, marked).wall)

(* The time a record waits for is the first one after the time it was      *)
(* computed at that its schedule names: over the ends of days, weeks,      *)
(* months and leap years and over the changes of the clocks.               *)
NextIsFirst ==
  Regular => /\ marked < next /\ Matches(schedule, next)
             /\ \A t \in (marked + 1)..(next - 1) : ~Matches(schedule, t)

(* An automation that was marked is not due again, whatever the clocks do, *)
(* but in the second of two equal hours.                                   *)
MarkedIsAhead == [][MarkRun /\ Fold(now) = 0 => next' > now]_vars
=============================================================================
