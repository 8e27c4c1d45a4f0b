---------------------------- MODULE ScheduleProofs ----------------------------
(***************************************************************************)
(* Theorems about Schedule for any calendar, any hour that is skipped and  *)
(* repeated, and any schedules _parse_schedule accepts.                    *)
(*                                                                         *)
(* Three steps: what next_scheduled_at finds on the clocks is the first    *)
(* wall time after its base that the schedule names (WallFirst); an        *)
(* instant and its wall time keep their order where the clocks give no     *)
(* trouble (Shown, Steady), and the result is ahead whatever they do       *)
(* (Ahead); the record carries what next_scheduled_at said (Timed).        *)
(***************************************************************************)
EXTENDS Schedule, WellFoundedInduction, TLAPS

-----------------------------------------------------------------------------
(* The calendar.                                                           *)

(* A number by its quotient and remainder, *)
LEMMA DivMod ==
  ASSUME NEW a \in Int, NEW n \in Nat \ {0}
  PROVE  /\ a \div n \in Int /\ a % n \in 0..(n - 1)
         /\ a = n * (a \div n) + (a % n)
         /\ a \in Nat => a \div n \in Nat
  <1>1. n \in Nat /\ n > 0
    OBVIOUS
  <1>2. a \div n \in Int /\ a % n \in 0..(n - 1) /\ (a \in Nat => a \div n \in Nat)
    OBVIOUS
  <1>3. a % n = a - n * (a \div n)
    BY <1>1
  <1>4. PICK p : p = n * (a \div n)
    OBVIOUS
  <1>5. p \in Int
    BY <1>2, <1>4
  <1>6. a = p + (a % n)
    BY <1>2, <1>3, <1>4, <1>5
  <1> QED
    BY <1>2, <1>4, <1>6

(* which are the only ones. *)
LEMMA DivModOnly ==
  ASSUME NEW n \in Nat \ {0}, NEW q \in Int, NEW r \in 0..(n - 1), NEW a, a = n * q + r
  PROVE  a \div n = q /\ a % n = r
  <1>1. a \in Int
    OBVIOUS
  <1>2. PICK p, t : p = a \div n /\ t = a % n
    OBVIOUS
  <1>3. p \in Int /\ t \in 0..(n - 1) /\ n * q + r = n * p + t
    BY <1>1, <1>2, DivMod
  <1>4. q = p /\ r = t
    BY <1>3
  <1> QED
    BY <1>2, <1>4

(* Products keep sums and order. *)
LEMMA Times ==
  ASSUME NEW n \in Nat, NEW a \in Int, NEW b \in Int
  PROVE  /\ n * a \in Int /\ n * (a + b) = n * a + n * b /\ n * (a - b) = n * a - n * b
         /\ a <= b => n * a <= n * b
         /\ a \in Nat => n * a \in Nat
  OBVIOUS

(* What the assumption says of the clocks. *)
LEMMA ClockAssumption ==
  /\ Hour \in Nat \ {0} /\ Day \in Nat \ {0} /\ Week \in Nat \ {0} /\ DayLength \in Nat \ {0}
  /\ DayLength = Hour * Day
  <1>1. Hour \in Nat \ {0} /\ Day \in Nat \ {0} /\ Week \in Nat \ {0}
    BY ScheduleAssumption
  <1>2. Hour * Day \in Nat /\ Hour * Day >= Hour * 1 /\ Hour * 1 = Hour
    BY <1>1, Times
  <1> QED
    BY <1>1, <1>2 DEF DayLength

(* A time of the day, and what the clocks show at it. *)
LEMMA ClockOf ==
  ASSUME NEW d \in Nat, NEW h \in 0..(Day - 1), NEW m \in 0..(Hour - 1), NEW w, w = d * DayLength + h * Hour + m
  PROVE  w \in Nat /\ DayOf(w) = d /\ HourOf(w) = h /\ Minute(w) = m
  <1>1. PICK k : k = d * Day + h
    OBVIOUS
  <1>2. d * Day \in Nat /\ h * Hour \in Nat /\ d * DayLength \in Nat /\ k \in Nat /\ w \in Nat
    BY <1>1, ClockAssumption
  <1>3. w = Hour * k + m
    <2>1. Hour * k = Hour * (Day * d) + Hour * h
      BY <1>1, <1>2, ClockAssumption
    <2>2. Hour * (Day * d) = d * DayLength
      BY ClockAssumption
    <2> QED
      BY <1>2, <2>1, <2>2, ClockAssumption
  <1>4. w \div Hour = k /\ w % Hour = m
    BY <1>2, <1>3, DivModOnly, ClockAssumption
  <1>5. k % Day = h
    BY <1>1, <1>2, DivModOnly, ClockAssumption
  <1>6. h * Hour + m \in 0..(DayLength - 1)
    <2>1. Hour * h <= Hour * (Day - 1)
      BY ClockAssumption, Times
    <2>2. Hour * (Day - 1) = DayLength - Hour
      BY ClockAssumption
    <2> QED
      BY <1>2, <2>1, <2>2, ClockAssumption
  <1>7. w \div DayLength = d
    <2>1. PICK r \in 0..(DayLength - 1) : r = h * Hour + m
      BY <1>6
    <2>2. w = DayLength * d + r
      BY <1>2, <2>1, ClockAssumption
    <2> QED
      BY <2>1, <2>2, DivModOnly, ClockAssumption
  <1> QED
    BY <1>2, <1>4, <1>5, <1>7 DEF DayOf, HourOf, Minute

(* Every time is one of a day. *)
LEMMA ClockIs ==
  ASSUME NEW w \in Nat
  PROVE  /\ DayOf(w) \in Nat /\ HourOf(w) \in 0..(Day - 1) /\ Minute(w) \in 0..(Hour - 1)
         /\ w = DayOf(w) * DayLength + HourOf(w) * Hour + Minute(w)
  <1>1. PICK k, m : k = w \div Hour /\ m = w % Hour
    OBVIOUS
  <1>2. k \in Nat /\ m \in 0..(Hour - 1) /\ w = Hour * k + m
    <2>1. w \in Int /\ Hour \in Nat \ {0}
      BY ClockAssumption
    <2>2. /\ w \div Hour \in Nat /\ w % Hour \in 0..(Hour - 1)
          /\ w = Hour * (w \div Hour) + (w % Hour)
      BY <2>1, DivMod
    <2> QED
      BY <1>1, <2>2
  <1>3. PICK d, h : d = k \div Day /\ h = k % Day
    OBVIOUS
  <1>4. d \in Nat /\ h \in 0..(Day - 1) /\ k = Day * d + h
    <2>1. k \in Int /\ Day \in Nat \ {0}
      BY <1>2, ClockAssumption
    <2>2. /\ k \div Day \in Nat /\ k % Day \in 0..(Day - 1)
          /\ k = Day * (k \div Day) + (k % Day)
      BY <1>2, <2>1, DivMod
    <2> QED
      BY <1>3, <2>2
  <1>5. w = d * DayLength + h * Hour + m
    <2>1. Hour * k = Hour * (Day * d) + Hour * h
      BY <1>4, ClockAssumption
    <2>2. Hour * (Day * d) = d * DayLength
      BY <1>4, ClockAssumption
    <2>3. Hour * h = h * Hour /\ Hour * h \in Int /\ d * DayLength \in Int
      BY <1>4, ClockAssumption
    <2> QED
      BY <1>2, <2>1, <2>2, <2>3
  <1>6. DayOf(w) = d /\ HourOf(w) = h /\ Minute(w) = m
    BY <1>2, <1>4, <1>5, ClockOf
  <1> QED
    BY <1>2, <1>4, <1>5, <1>6

-----------------------------------------------------------------------------
(* The schedules.                                                          *)

(* A schedule names a wall time. *)
Named(s, w) ==
  \/ s.kind = "daily" /\ HourOf(w) = s.hour /\ Minute(w) = s.minute
  \/ s.kind = "weekly" /\ Weekday(w) = s.weekday /\ HourOf(w) = s.hour /\ Minute(w) = s.minute
  \/ s.kind = "cron" /\ CronMatches(s, w)

(* w is the first wall time after b that schedule s names. *)
FirstAfter(s, b, w) ==
  w \in Nat /\ b < w /\ Named(s, w) /\ \A v \in Nat : b < v /\ v < w => ~Named(s, v)

(* A day begins and ends around each of its times. *)
LEMMA DayAround ==
  ASSUME NEW b \in Nat
  PROVE  DayOf(b) \in Nat /\ DayOf(b) * DayLength <= b /\ b < DayOf(b) * DayLength + DayLength
  <1>1. b \in Int /\ DayLength \in Nat \ {0}
    BY ClockAssumption
  <1>2. /\ b \div DayLength \in Nat /\ b % DayLength \in 0..(DayLength - 1)
        /\ b = DayLength * (b \div DayLength) + (b % DayLength)
    BY <1>1, DivMod
  <1>3. PICK d, r : d = b \div DayLength /\ r = b % DayLength
    OBVIOUS
  <1>4. d \in Nat /\ r \in 0..(DayLength - 1) /\ b = DayLength * d + r /\ DayLength * d = d * DayLength
        /\ d * DayLength \in Nat
    BY <1>1, <1>2, <1>3
  <1> QED
    BY <1>1, <1>3, <1>4 DEF DayOf

(* The times after b at which the clocks show the same as at c, which is   *)
(* on the day d of b: days later, and every day.                           *)
Days(b, h, m, c, d) ==
  /\ c \in Nat /\ d \in Nat /\ DayOf(c) = d
  /\ \A j \in Nat : /\ c + j * DayLength \in Nat /\ DayOf(c + j * DayLength) = d + j
                    /\ HourOf(c + j * DayLength) = h /\ Minute(c + j * DayLength) = m
                    /\ j > 0 => c + j * DayLength > b
  /\ \A v \in Nat : b < v /\ HourOf(v) = h /\ Minute(v) = m =>
       \E j \in Nat : v = c + j * DayLength /\ DayOf(v) = d + j

(* They are such days. *)
LEMMA TimesAfter ==
  ASSUME NEW b \in Nat, NEW h \in 0..(Day - 1), NEW m \in 0..(Hour - 1), NEW c, NEW d,
         c = At(b, h, m), d = DayOf(b)
  PROVE  Days(b, h, m, c, d)
  <1>0. PICK k : k = h * Hour + m
    OBVIOUS
  <1>1. d \in Nat /\ d * DayLength <= b /\ b < d * DayLength + DayLength
    BY DayAround
  <1>2. DayLength \in Nat \ {0} /\ d * DayLength \in Nat /\ k \in Nat
    BY <1>0, <1>1, ClockAssumption
  <1>3. c = d * DayLength + k
    BY <1>0, <1>2, ClockAssumption DEF At
  <1>4. ASSUME NEW j \in Nat, NEW w, w = (d + j) * DayLength + k
        PROVE  /\ w \in Nat /\ w = c + j * DayLength
               /\ DayOf(w) = d + j /\ HourOf(w) = h /\ Minute(w) = m
               /\ j > 0 => w > b
    <2>1. /\ (d + j) * DayLength = d * DayLength + j * DayLength /\ j * DayLength \in Nat
          /\ j > 0 => j * DayLength >= DayLength
      BY <1>1, <1>2
    <2>2. PICK e \in Nat : e = d + j
      BY <1>1
    <2>3. w = e * DayLength + h * Hour + m
      BY <1>0, <1>2, <1>4, <2>1, <2>2, ClockAssumption
    <2>4. w \in Nat /\ DayOf(w) = e /\ HourOf(w) = h /\ Minute(w) = m
      BY <2>3, ClockOf
    <2> QED
      BY <1>1, <1>2, <1>3, <1>4, <2>1, <2>2, <2>4
  <1>5. ASSUME NEW v \in Nat, b < v, HourOf(v) = h, Minute(v) = m
        PROVE  \E j \in Nat : v = c + j * DayLength /\ DayOf(v) = d + j
    <2>1. PICK e : e = DayOf(v)
      OBVIOUS
    <2>2. e \in Nat /\ v < e * DayLength + DayLength /\ v = e * DayLength + h * Hour + m
      BY <1>5, <2>1, DayAround, ClockIs
    <2>3. e >= d
      <3>1. SUFFICES ASSUME e < d PROVE FALSE
        BY <1>1, <2>2
      <3>2. (e + 1) * DayLength <= d * DayLength /\ (e + 1) * DayLength = e * DayLength + DayLength
        BY <1>1, <1>2, <2>2, <3>1
      <3>3. e * DayLength \in Nat
        BY <1>2, <2>2
      <3> QED
        BY <1>1, <1>2, <1>5, <2>2, <3>2, <3>3
    <2>4. PICK j \in Nat : e = d + j
      <3>1. e - d \in Nat /\ e = d + (e - d)
        BY <1>1, <2>2, <2>3
      <3> QED
        BY <3>1
    <2>5. e * DayLength = d * DayLength + j * DayLength /\ j * DayLength \in Nat /\ h * Hour \in Nat
      BY <1>1, <1>2, <2>4, ClockAssumption
    <2>6. v = c + j * DayLength
      BY <1>0, <1>2, <1>3, <2>2, <2>5
    <2> QED
      BY <2>1, <2>4, <2>6
  <1>6. c \in Nat /\ DayOf(c) = d
    <2>1. PICK w : w = (d + 0) * DayLength + k
      OBVIOUS
    <2>2. w \in Nat /\ DayOf(w) = d + 0
      BY <1>4, <2>1
    <2>3. w = c /\ d + 0 = d
      BY <1>1, <1>2, <1>3, <2>1
    <2> QED
      BY <2>2, <2>3
  <1>7. ASSUME NEW j \in Nat
        PROVE  /\ c + j * DayLength \in Nat /\ DayOf(c + j * DayLength) = d + j
               /\ HourOf(c + j * DayLength) = h /\ Minute(c + j * DayLength) = m
               /\ j > 0 => c + j * DayLength > b
    <2>1. PICK w : w = (d + j) * DayLength + k
      OBVIOUS
    <2> QED
      BY <1>4, <2>1
  <1> QED
    BY <1>1, <1>5, <1>6, <1>7 DEF Days

(* The daily time is the first one: today's, or when that is not ahead     *)
(* tomorrow's.                                                             *)
LEMMA DailyFirst ==
  ASSUME NEW s, s.kind = "daily", s.hour \in 0..(Day - 1), s.minute \in 0..(Hour - 1),
         NEW b \in Nat, NEW base, base.wall = b, DOMAIN base = {"wall", "fold"}, NEW d, d = NextDaily(s, base)
  PROVE  FirstAfter(s, b, d.wall) /\ d.fold \in {0, base.fold}
  <1>1. PICK h \in 0..(Day - 1), m \in 0..(Hour - 1) : h = s.hour /\ m = s.minute
    OBVIOUS
  <1>2. PICK c, e : c = At(b, h, m) /\ e = DayOf(b)
    OBVIOUS
  <1>3. Days(b, h, m, c, e)
    BY <1>2, TimesAfter
  <1>4. DayLength \in Nat \ {0} /\ c \in Nat
    BY <1>3, ClockAssumption DEF Days
  <1>5. ASSUME NEW i \in {0, 1}, NEW w, w = c + i * DayLength, w > b, i = 1 => c <= b
        PROVE  FirstAfter(s, b, w)
    <2>1. w \in Nat /\ HourOf(w) = h /\ Minute(w) = m
      BY <1>3, <1>5 DEF Days
    <2>2. ASSUME NEW v \in Nat, b < v, v < w, HourOf(v) = h, Minute(v) = m PROVE FALSE
      <3>1. PICK j \in Nat : v = c + j * DayLength
        BY <1>3, <2>2 DEF Days
      <3>2. j * DayLength \in Nat /\ (j = 0 => j * DayLength = 0) /\ (j > 0 => j * DayLength >= DayLength)
        BY <1>4
      <3>3. (i = 0 => i * DayLength = 0) /\ (i = 1 => i * DayLength = DayLength)
        BY <1>4
      <3> QED
        BY <1>4, <1>5, <2>2, <3>1, <3>2, <3>3
    <2>3. ASSUME NEW v \in Nat, b < v, v < w PROVE ~Named(s, v)
      BY <1>1, <2>2, <2>3 DEF Named
    <2> QED
      BY <1>1, <1>5, <2>1, <2>3 DEF FirstAfter, Named
  <1>6. CASE c <= b
    <2>1. d.wall = c + DayLength /\ d.fold = 0
      BY <1>1, <1>2, <1>6 DEF NextDaily, Sum
    <2>2. d.wall = c + 1 * DayLength /\ d.wall > b
      BY <1>3, <1>4, <2>1 DEF Days
    <2> QED
      BY <1>5, <1>6, <2>1, <2>2
  <1>7. CASE ~(c <= b)
    <2>1. d.wall = c /\ d.fold = base.fold
      BY <1>1, <1>2, <1>7 DEF NextDaily
    <2>2. d.wall = c + 0 * DayLength /\ d.wall > b
      BY <1>4, <1>7, <2>1
    <2> QED
      BY <1>5, <2>1, <2>2
  <1> QED
    BY <1>6, <1>7

(* The weekday wd is x days after the day d, and every week again. *)
Weekdays(d, wd, x) ==
  /\ x \in 0..(Week - 1) /\ (d + x) % Week = wd /\ (d + (x + Week)) % Week = wd
  /\ \A j \in Nat : (d + j) % Week = wd => j = x \/ j >= x + Week

(* x is that many days. *)
LEMMA WeekdaysAfter ==
  ASSUME NEW d \in Nat, NEW wd \in 0..(Week - 1)
  PROVE  Weekdays(d, wd, (wd - (d % Week)) % Week)
  <1>0. PICK x : x = (wd - (d % Week)) % Week
    OBVIOUS
  <1>1. Week \in Nat \ {0}
    BY ClockAssumption
  <1>2. PICK q \in Int, r \in 0..(Week - 1) : r = d % Week /\ d = Week * q + r
    <2>1. d \div Week \in Int /\ d % Week \in 0..(Week - 1) /\ d = Week * (d \div Week) + (d % Week)
      BY <1>1, DivMod
    <2> QED
      BY <2>1
  <1>3. PICK p \in Int : x \in 0..(Week - 1) /\ wd - r = Week * p + x
    <2>0. wd - r \in Int
      BY <1>1, <1>2
    <2>1. PICK a \in Int : a = wd - r
      BY <2>0
    <2>2. a \div Week \in Int /\ a % Week \in 0..(Week - 1) /\ a = Week * (a \div Week) + (a % Week)
      BY <1>1, DivMod
    <2>3. x = a % Week
      BY <1>0, <1>2, <2>1
    <2> QED
      BY <2>1, <2>2, <2>3
  <1>4. PICK z \in Int : z = q - p
    OBVIOUS
  <1>5. /\ Week * z = Week * q - Week * p /\ Week * (z + 1) = Week * z + Week * 1 /\ Week * 1 = Week
        /\ Week * q \in Int /\ Week * p \in Int
    BY <1>1, <1>4, Times
  <1>6. (d + x) % Week = wd /\ (d + (x + Week)) % Week = wd
    <2>1. PICK Q \in Int, P \in Int, Z \in Int : Q = Week * q /\ P = Week * p /\ Z = Week * z
      BY <1>5
    <2>2. d = Q + r /\ wd - r = P + x /\ Z = Q - P
      BY <1>2, <1>3, <1>5, <2>1
    <2>3. PICK a, c : a = d + x /\ c = d + (x + Week)
      OBVIOUS
    <2>4. a = Z + wd /\ c = (Z + Week) + wd
      <3>1. d \in Int /\ x \in Int /\ r \in Int /\ wd \in Int /\ Week \in Int
        BY <1>1, <1>3
      <3>2. d + x = Z + wd
        BY <2>2, <3>1
      <3> QED
        BY <2>3, <3>1, <3>2
    <2>5. a = Week * z + wd /\ c = Week * (z + 1) + wd /\ z + 1 \in Int
      BY <1>5, <2>1, <2>4
    <2>6. a % Week = wd /\ c % Week = wd
      BY <1>1, <2>5, DivModOnly
    <2> QED
      BY <2>3, <2>6
  <1>7. ASSUME NEW j \in Nat, (d + j) % Week = wd PROVE j = x \/ j >= x + Week
    <2>1. PICK a \in Nat : a = d + j
      OBVIOUS
    <2>2. a \div Week \in Int /\ a % Week \in 0..(Week - 1) /\ a = Week * (a \div Week) + (a % Week)
      BY <1>1, DivMod
    <2>3. PICK u \in Int : u = a \div Week /\ a = Week * u + wd
      BY <1>7, <2>1, <2>2
    <2>4. PICK y \in Int : y = u - z
      OBVIOUS
    <2>5. Week * y = Week * u - Week * z /\ Week * y \in Int /\ Week * u \in Int /\ Week * z \in Int
      BY <1>1, <2>4, Times
    <2>6. j = Week * y + x
      <3>1. PICK Q \in Int, P \in Int, Z \in Int, U \in Int, Y \in Int :
                   Q = Week * q /\ P = Week * p /\ Z = Week * z /\ U = Week * u /\ Y = Week * y
        BY <1>5, <2>5
      <3>2. d = Q + r /\ wd - r = P + x /\ Z = Q - P /\ Y = U - Z /\ d + j = U + wd
        BY <1>2, <1>3, <1>5, <2>1, <2>3, <2>5, <3>1
      <3>3. j = Y + x
        BY <1>2, <1>3, <3>2
      <3> QED
        BY <3>1, <3>3
    <2>7. (y <= -1 => Week * y <= Week * (-1)) /\ (y >= 1 => Week * y >= Week * 1)
      BY <1>1, Times
    <2>8. Week * (-1) = 0 - Week /\ Week * 1 = Week /\ (y = 0 => Week * y = 0)
      BY <1>1
    <2>9. ~(y <= -1)
      BY <1>1, <1>3, <2>5, <2>6, <2>7, <2>8
    <2> QED
      BY <1>1, <1>3, <2>5, <2>6, <2>7, <2>8, <2>9
  <1> QED
    BY <1>0, <1>3, <1>6, <1>7 DEF Weekdays

(* The weekly time is the first one: the next such weekday's, or when that *)
(* is today and not ahead the one a week later.                            *)
LEMMA WeeklyFirst ==
  ASSUME NEW s, s.kind = "weekly", s.weekday \in 0..(Week - 1), s.hour \in 0..(Day - 1), s.minute \in 0..(Hour - 1),
         NEW b \in Nat, NEW base, base.wall = b, NEW d, d = NextWeekly(s, base)
  PROVE  FirstAfter(s, b, d.wall) /\ d.fold = 0
  <1>1. PICK wd \in 0..(Week - 1), h \in 0..(Day - 1), m \in 0..(Hour - 1) :
               wd = s.weekday /\ h = s.hour /\ m = s.minute
    OBVIOUS
  <1>2. PICK c, e : c = At(b, h, m) /\ e = DayOf(b)
    OBVIOUS
  <1>3. Days(b, h, m, c, e)
    BY <1>2, TimesAfter
  <1>4. DayLength \in Nat \ {0} /\ Week \in Nat \ {0} /\ c \in Nat /\ e \in Nat /\ DayOf(c) = e
    BY <1>3, ClockAssumption DEF Days
  <1>5. PICK x : x = (wd - (e % Week)) % Week
    OBVIOUS
  <1>6. /\ x \in 0..(Week - 1) /\ (e + x) % Week = wd /\ (e + (x + Week)) % Week = wd
        /\ \A j \in Nat : (e + j) % Week = wd => j = x \/ j >= x + Week
    <2>1. Weekdays(e, wd, x)
      BY <1>4, <1>5, WeekdaysAfter, Zenon
    <2> QED
      BY <2>1 DEF Weekdays
  <1>7. PICK today, candidate : today = c /\ candidate = c + x * DayLength
    OBVIOUS
  <1>8. d.wall = (IF candidate <= b THEN candidate + Week * DayLength ELSE candidate) /\ d.fold = 0
    BY <1>1, <1>2, <1>4, <1>5, <1>7 DEF NextWeekly, Weekday, Sum
  <1>9. /\ x \in Nat /\ x + Week \in Nat /\ x * DayLength \in Nat /\ Week * DayLength \in Nat
        /\ (x + Week) * DayLength = x * DayLength + Week * DayLength
    BY <1>4, <1>6
  <1>10. ASSUME NEW i \in {x, x + Week}, NEW w, w = c + i * DayLength, w > b,
                i = x + Week => c + x * DayLength <= b
         PROVE  FirstAfter(s, b, w)
    <2>1. i \in Nat /\ (e + i) % Week = wd
      BY <1>6, <1>9
    <2>2. w \in Nat /\ HourOf(w) = h /\ Minute(w) = m /\ Weekday(w) = wd
      BY <1>3, <1>10, <2>1 DEF Days, Weekday
    <2>3. ASSUME NEW v \in Nat, b < v, v < w, HourOf(v) = h, Minute(v) = m, Weekday(v) = wd PROVE FALSE
      <3>1. PICK j \in Nat : v = c + j * DayLength /\ DayOf(v) = e + j
        BY <1>3, <2>3 DEF Days
      <3>2. j = x \/ j >= x + Week
        BY <1>6, <2>3, <3>1 DEF Weekday
      <3>3. j * DayLength \in Nat /\ i * DayLength \in Nat /\ (j >= i => j * DayLength >= i * DayLength)
        BY <1>4, <2>1
      <3>4. j >= i => v >= w
        BY <1>4, <1>10, <3>1, <3>3
      <3>5. ~(j >= i)
        BY <2>2, <2>3, <3>4
      <3>6. j = x /\ i = x + Week
        BY <1>4, <1>6, <1>9, <1>10, <3>2, <3>5
      <3> QED
        BY <1>4, <1>9, <1>10, <2>3, <3>1, <3>6
    <2>4. ASSUME NEW v \in Nat, b < v, v < w PROVE ~Named(s, v)
      BY <1>1, <2>3, <2>4 DEF Named
    <2> QED
      BY <1>1, <1>10, <2>2, <2>4 DEF FirstAfter, Named
  <1>11. CASE candidate <= b
    <2>1. d.wall = candidate + Week * DayLength
      BY <1>8, <1>11
    <2>2. d.wall = c + (x + Week) * DayLength
      BY <1>4, <1>7, <1>9, <2>1
    <2>3. d.wall > b
      BY <1>3, <1>4, <1>6, <1>9, <2>2 DEF Days
    <2> QED
      BY <1>7, <1>8, <1>10, <1>11, <2>2, <2>3
  <1>12. CASE ~(candidate <= b)
    <2>1. d.wall = c + x * DayLength /\ d.wall > b /\ x # x + Week
      BY <1>4, <1>7, <1>8, <1>9, <1>12
    <2> QED
      BY <1>8, <1>10, <2>1
  <1> QED
    BY <1>11, <1>12

(* A set of numbers that is not empty has a first. *)
LEMMA Earliest ==
  ASSUME NEW W \in SUBSET Nat, W # {}
  PROVE  \E w \in W : \A v \in W : w <= v
  <1> DEFINE R == OpToRel(<, Nat)
  <1>1. IsWellFoundedOn(R, Nat)
    BY NatLessThanWellFounded, Zenon
  <1>2. \A v, w \in Nat : v < w => <<v, w>> \in R
    BY Zenon DEF OpToRel
  <1> HIDE DEF R
  <1>3. PICK w \in W : \A v \in W : ~(<<v, w>> \in R)
    BY <1>1, WFMin
  <1>4. ASSUME NEW v \in W PROVE w <= v
    <2>1. v \in Nat /\ w \in Nat /\ ~(v < w)
      BY <1>2, <1>3
    <2> QED
      BY <2>1
  <1> QED
    BY <1>4

(* The cron time is the first one, when the search finds any. *)
LEMMA CronFirst ==
  ASSUME NEW s, s.kind = "cron", NEW b \in Nat, NEW base, base.wall = b, NEW d, d = NextCron(s, base), d.wall # Never
  PROVE  FirstAfter(s, b, d.wall) /\ d.fold = 0
  <1>1. PICK last : last = b + YearDays * DayLength
    OBVIOUS
  <1>2. last \in Nat
    <2>1. YearDays \in Nat /\ DayLength \in Nat
      BY ScheduleAssumption, ClockAssumption
    <2> QED
      BY <1>1, <2>1
  <1>3. PICK found : found = {w \in (b + 1)..last : CronMatches(s, w)}
    OBVIOUS
  <1>4. d = Sum(IF found = {} THEN Never ELSE CHOOSE w \in found : \A v \in found : w <= v)
    BY <1>1, <1>3 DEF NextCron
  <1>5. found # {} /\ d.wall = (CHOOSE w \in found : \A v \in found : w <= v) /\ d.fold = 0
    BY <1>4 DEF Sum
  <1>6. found \in SUBSET Nat
    BY <1>2, <1>3
  <1>7. \E w \in found : \A v \in found : w <= v
    BY <1>5, <1>6, Earliest
  <1>8. d.wall \in found /\ \A v \in found : d.wall <= v
    BY <1>5, <1>7
  <1>9. PICK w : w = d.wall
    OBVIOUS
  <1>10. w \in Nat /\ b < w /\ w <= last /\ CronMatches(s, w)
    BY <1>2, <1>3, <1>8, <1>9
  <1>11. ASSUME NEW v \in Nat, b < v, v < w, CronMatches(s, v) PROVE FALSE
    <2>1. v \in found
      BY <1>2, <1>3, <1>10, <1>11
    <2> QED
      BY <1>8, <1>9, <1>10, <1>11, <2>1
  <1> QED
    BY <1>5, <1>9, <1>10, <1>11 DEF FirstAfter, Named

(* What next_scheduled_at finds on the clocks is the first time after the  *)
(* base that the schedule names.                                           *)
LEMMA WallFirst ==
  ASSUME NEW s \in Timetables, s.kind # "every", NEW t \in Nat, NEW d, d = NextWall(s, t), d.wall # Never
  PROVE  /\ FirstAfter(s, Wall(t), d.wall)
         /\ d.fold \in {0, IF s.zoned THEN Fold(t) ELSE 0}
  <1>1. PICK b, base : base = [wall |-> Wall(t), fold |-> IF s.zoned THEN Fold(t) ELSE 0] /\ b = Wall(t)
    OBVIOUS
  <1>2. b \in Nat /\ base.wall = b /\ DOMAIN base = {"wall", "fold"} /\ base.fold = IF s.zoned THEN Fold(t) ELSE 0
    BY <1>1, ClockAssumption DEF Wall, Offset
  <1>3. CASE s.kind = "daily"
    <2>1. s.hour \in 0..(Day - 1) /\ s.minute \in 0..(Hour - 1)
      BY <1>3 DEF Timetables
    <2>2. d = NextDaily(s, base)
      BY <1>1, <1>3 DEF NextWall
    <2> QED
      BY <1>1, <1>2, <1>3, <2>1, <2>2, DailyFirst
  <1>4. CASE s.kind = "weekly"
    <2>1. s.weekday \in 0..(Week - 1) /\ s.hour \in 0..(Day - 1) /\ s.minute \in 0..(Hour - 1)
      BY <1>4 DEF Timetables
    <2>2. d = NextWeekly(s, base)
      BY <1>1, <1>4 DEF NextWall
    <2> QED
      BY <1>1, <1>2, <1>4, <2>1, <2>2, WeeklyFirst
  <1>5. CASE s.kind = "cron"
    <2>1. d = NextCron(s, base)
      BY <1>1, <1>5 DEF NextWall
    <2> QED
      BY <1>1, <1>2, <1>5, <2>1, CronFirst
  <1>6. s.kind \in {"every", "daily", "weekly", "cron"}
    BY DEF Timetables
  <1> QED
    BY <1>3, <1>4, <1>5, <1>6

-----------------------------------------------------------------------------
(* The zone.                                                               *)

(* What the assumption says of the zone. *)
LEMMA ZoneAssumption ==
  /\ Hour \in Nat /\ Hour > 0 /\ Spring \in Nat /\ Autumn \in Nat /\ Spring + Hour < Autumn
  BY ScheduleAssumption

(* A wall time after that of t lies after t, unless t is in the second of  *)
(* two equal hours.                                                        *)
LEMMA Later ==
  ASSUME NEW t \in Nat, NEW w \in Nat, Wall(t) < w, Fold(t) = 0
  PROVE  Instant(w, 0) \in Nat /\ t < Instant(w, 0)
  BY ZoneAssumption DEF Wall, Offset, Fold, Instant

(* Only then does its own fold tell. *)
LEMMA Folded ==
  ASSUME NEW t \in Nat, ~Repeated(Wall(t))
  PROVE  Fold(t) = 0
  BY ZoneAssumption DEF Wall, Offset, Fold, Repeated

(* The clocks of the instant show the wall time again, and what they show  *)
(* before lies before, where the wall time exists and t is in neither of   *)
(* two equal hours.                                                        *)
LEMMA Shown ==
  ASSUME NEW t \in Nat, NEW w \in Nat, Wall(t) < w, ~Repeated(Wall(t)), ~Skipped(w)
  PROVE  /\ Wall(Instant(w, 0)) = w
         /\ \A u \in Nat : t < u /\ u < Instant(w, 0) => Wall(t) < Wall(u) /\ Wall(u) < w
  <1>1. Wall(Instant(w, 0)) = w
    BY ZoneAssumption DEF Wall, Offset, Repeated, Skipped, Instant
  <1>2. ASSUME NEW u \in Nat, t < u, u < Instant(w, 0) PROVE Wall(t) < Wall(u) /\ Wall(u) < w
    BY <1>2, ZoneAssumption DEF Wall, Offset, Repeated, Skipped, Instant
  <1> QED
    BY <1>1, <1>2

(* So they do where the offset stays what it was at t. *)
LEMMA Steady ==
  ASSUME NEW t \in Nat, NEW w \in Nat, Wall(t) < w, NEW i \in Nat, i \in {Instant(w, 0), w - Offset(t)},
         t < i, \A u \in t..i : Offset(u) = Offset(t)
  PROVE  /\ Wall(i) = w
         /\ \A u \in Nat : t < u /\ u < i => Wall(t) < Wall(u) /\ Wall(u) < w
  <1>1. Offset(i) = Offset(t) /\ Offset(t) \in Nat
    BY ZoneAssumption DEF Offset
  <1>2. i = w - Offset(t)
    BY <1>1, ZoneAssumption DEF Wall, Offset, Instant
  <1>3. ASSUME NEW u \in Nat, t < u, u < i PROVE Wall(t) < Wall(u) /\ Wall(u) < w
    <2>1. Offset(u) = Offset(t)
      BY <1>3
    <2> QED
      BY <1>1, <1>2, <1>3, <2>1 DEF Wall
  <1> QED
    BY <1>1, <1>2, <1>3 DEF Wall

-----------------------------------------------------------------------------
(* next_scheduled_at.                                                      *)

(* It is the instant of a wall time that lies after that of t, and is the  *)
(* first one the schedule names.                                           *)
Found(s, t, d, i) ==
  /\ d = NextWall(s, t) /\ d.wall \in Nat /\ Wall(t) < d.wall
  /\ d.fold \in {0, IF s.zoned THEN Fold(t) ELSE 0}
  /\ i = (IF s.zoned THEN Instant(d.wall, d.fold) ELSE d.wall - Offset(t))
  /\ s.kind = "every" => s.minutes \in Nat \ {0} /\ d.wall = Wall(t) + s.minutes
  /\ s.kind # "every" => FirstAfter(s, Wall(t), d.wall)

(* Such a wall time there is, unless there is no next time at all. *)
LEMMA NextFound ==
  ASSUME NEW s \in Timetables, NEW t \in Nat, NextScheduledAt(s, t) # Never
  PROVE  \E d : Found(s, t, d, NextScheduledAt(s, t))
  <1>1. PICK d : d = NextWall(s, t)
    OBVIOUS
  <1>2. d.wall # Never /\ NextScheduledAt(s, t) = IF s.zoned THEN Instant(d.wall, d.fold) ELSE d.wall - Offset(t)
    BY <1>1 DEF NextScheduledAt
  <1>3. CASE s.kind = "every"
    <2>1. s.minutes \in 1..DayLength
      BY <1>3 DEF Timetables
    <2>2. d.wall = Wall(t) + s.minutes /\ d.fold = 0
      BY <1>1, <1>3 DEF NextWall, Sum
    <2>3. s.minutes \in Nat \ {0} /\ Wall(t) \in Nat
      BY <2>1, ZoneAssumption, ClockAssumption DEF Wall, Offset
    <2>4. d.wall \in Nat /\ Wall(t) < d.wall
      BY <2>2, <2>3
    <2> QED
      BY <1>1, <1>2, <1>3, <2>2, <2>3, <2>4 DEF Found
  <1>4. CASE s.kind # "every"
    <2>1. FirstAfter(s, Wall(t), d.wall) /\ d.fold \in {0, IF s.zoned THEN Fold(t) ELSE 0}
      BY <1>1, <1>2, <1>4, WallFirst
    <2>2. d.wall \in Nat /\ Wall(t) < d.wall
      BY <2>1 DEF FirstAfter
    <2> QED
      BY <1>1, <1>2, <1>4, <2>1, <2>2 DEF Found
  <1> QED
    BY <1>3, <1>4

(* It is ahead, but in the second of two equal hours. *)
LEMMA Ahead ==
  ASSUME NEW s, NEW t \in Nat, NEW d, NEW i, Found(s, t, d, i), Fold(t) = 0
  PROVE  i \in Nat /\ t < i /\ i \in {Instant(d.wall, 0), d.wall - Offset(t)}
  <1>1. d.wall \in Nat /\ Wall(t) < d.wall /\ d.fold = 0
    BY DEF Found
  <1>2. CASE s.zoned
    <2>1. i = Instant(d.wall, 0)
      BY <1>1, <1>2 DEF Found
    <2> QED
      BY <1>1, <2>1, Later
  <1>3. CASE ~s.zoned
    <2>1. i = d.wall - Offset(t)
      BY <1>1, <1>3 DEF Found
    <2>2. Offset(t) \in Nat
      BY ZoneAssumption DEF Offset
    <2> QED
      BY <1>1, <2>1, <2>2 DEF Wall
  <1> QED
    BY <1>2, <1>3

-----------------------------------------------------------------------------
(* The record.                                                             *)

(* next_run_at is what next_scheduled_at said at the time it was computed. *)
Timed ==
  /\ now \in 0..MaxTime /\ marked \in 0..MaxTime
  /\ schedule \in Schedules
  /\ next = NextRunAt[schedule][marked] /\ next # Never

(* next_run_at is read off a table of the results. *)
LEMMA NextRunAtIs ==
  ASSUME NEW s \in Schedules, NEW t \in 0..MaxTime
  PROVE  NextRunAt[s][t] = NextScheduledAt(s, t)
  BY DEF NextRunAt

(* It holds of a record that was just created, *)
LEMMA TimedInit == Init => Timed
  BY DEF Init, Timed

(* and every step keeps it: what computes the time anew notes when. *)
LEMMA TimedNext == Timed /\ [Next]_vars => Timed'
  <1> SUFFICES ASSUME Timed, [Next]_vars PROVE Timed'
    OBVIOUS
  <1>1. CASE MarkRun
    BY <1>1 DEF Timed, MarkRun, Computed, NextRunAt
  <1>2. CASE Reschedule
    <2>1. schedule' \in Schedules /\ now' = now /\ marked' = now
          /\ next' = NextRunAt[schedule'][now] /\ next' # Never
      BY <1>2 DEF Reschedule, Computed
    <2>2. NextRunAt' = NextRunAt
      BY DEF NextRunAt
    <2> QED
      BY <2>1, <2>2 DEF Timed
  <1>3. CASE Pause
    BY <1>3 DEF Timed, Pause, NextRunAt
  <1>4. CASE Resume
    BY <1>4 DEF Timed, Resume, Computed, NextRunAt
  <1>5. CASE TimePasses
    <2>1. MaxTime \in Nat
      BY ScheduleAssumption
    <2> QED
      BY <1>5, <2>1 DEF Timed, TimePasses, NextRunAt
  <1>6. CASE UNCHANGED vars
    BY <1>6 DEF Timed, vars, NextRunAt
  <1> QED
    BY <1>1, <1>2, <1>3, <1>4, <1>5, <1>6 DEF Next

(* So it always holds. *)
LEMMA TimedAlways == Spec => []Timed
  BY TimedInit, TimedNext, PTL DEF Spec

(* What the zone shows at u is named by the schedule. *)
LEMMA MatchesIsNamed ==
  ASSUME NEW s \in Timetables, s.kind # "every", NEW u
  PROVE  Matches(s, u) <=> Named(s, Wall(u))
  BY DEF Matches, Named, Timetables

(* A record that is timed waits for the first occurrence. *)
LEMMA FirstHolds == Timed => NextIsFirst
  <1> SUFFICES ASSUME Timed, Regular
               PROVE  /\ marked < next /\ Matches(schedule, next)
                      /\ \A u \in (marked + 1)..(next - 1) : ~Matches(schedule, u)
    BY DEF NextIsFirst
  <1>1. schedule \in Timetables /\ marked \in Nat
    BY TimetableAssumption, ScheduleAssumption DEF Timed
  <1>2. next = NextScheduledAt(schedule, marked) /\ next # Never
    BY NextRunAtIs DEF Timed
  <1>3. PICK d : Found(schedule, marked, d, next)
    BY <1>1, <1>2, NextFound
  <1>4. d.wall \in Nat /\ Wall(marked) < d.wall /\ d = NextWall(schedule, marked)
    BY <1>3 DEF Found
  <1>5. Fold(marked) = 0
    BY <1>1, Folded DEF Regular
  <1>6. next \in Nat /\ marked < next /\ next \in {Instant(d.wall, 0), d.wall - Offset(marked)}
    BY <1>1, <1>3, <1>5, Ahead
  <1>7. /\ Wall(next) = d.wall
        /\ \A u \in Nat : marked < u /\ u < next => Wall(marked) < Wall(u) /\ Wall(u) < d.wall
    <2>1. CASE \A u \in marked..next : Offset(u) = Offset(marked)
      BY <1>1, <1>4, <1>6, <2>1, Steady
    <2>2. CASE schedule.zoned /\ ~Repeated(Wall(marked)) /\ ~Skipped(d.wall)
      <3>1. next = Instant(d.wall, 0)
        BY <1>3, <1>5, <2>2 DEF Found
      <3> QED
        BY <1>1, <1>4, <2>2, <3>1, Shown
    <2> QED
      BY <1>4, <2>1, <2>2 DEF Regular
  <1>8. CASE schedule.kind = "every"
    <2>1. \A u \in marked..next : Offset(u) = Offset(marked)
      BY <1>8 DEF Regular
    <2>2. Offset(next) = Offset(marked) /\ Offset(marked) \in Nat
      BY <1>1, <1>6, <2>1, ZoneAssumption DEF Offset
    <2>3. schedule.minutes \in Nat /\ next = marked + schedule.minutes
      BY <1>1, <1>3, <1>6, <1>7, <1>8, <2>2 DEF Found, Wall
    <2>4. \A u : Matches(schedule, u) <=> u = marked + schedule.minutes
      BY <1>8 DEF Matches
    <2> QED
      BY <1>1, <1>6, <2>3, <2>4
  <1>9. CASE schedule.kind # "every"
    <2>1. FirstAfter(schedule, Wall(marked), d.wall)
      BY <1>3, <1>9 DEF Found
    <2>2. Matches(schedule, next)
      BY <1>1, <1>7, <1>9, <2>1, MatchesIsNamed DEF FirstAfter
    <2>3. ASSUME NEW u \in (marked + 1)..(next - 1) PROVE ~Matches(schedule, u)
      <3>1. u \in Nat /\ marked < u /\ u < next
        BY <1>1, <1>6, <2>3
      <3>2. Wall(u) \in Nat /\ Wall(marked) < Wall(u) /\ Wall(u) < d.wall
        BY <1>7, <3>1, ZoneAssumption DEF Wall, Offset
      <3> QED
        BY <1>1, <1>9, <2>1, <3>2, MatchesIsNamed DEF FirstAfter
    <2> QED
      BY <1>6, <2>2, <2>3
  <1> QED
    BY <1>8, <1>9

(* The time a record waits for is the first one after the time it was      *)
(* computed at that its schedule names (next_scheduled_at,                 *)
(* automations.py), over the ends of days, weeks, months and years and,    *)
(* where the clocks give no trouble, over their changes.                   *)
THEOREM NextIsFirstAlways == Spec => []NextIsFirst
  BY TimedAlways, FirstHolds, PTL

(* An automation that mark_run has marked is not due again (is_due,        *)
(* automations.py), whatever the clocks do, but in the second of two equal *)
(* hours.                                                                  *)
THEOREM MarkedStaysAhead == Spec => MarkedIsAhead
  <1>1. Timed /\ [Next]_vars => [MarkRun /\ Fold(now) = 0 => next' > now]_vars
    <2> SUFFICES ASSUME Timed, MarkRun, Fold(now) = 0 PROVE next' > now
      OBVIOUS
    <2>1. schedule \in Timetables /\ now \in Nat
      BY TimetableAssumption, ScheduleAssumption DEF Timed
    <2>2. next' = NextScheduledAt(schedule, now) /\ NextScheduledAt(schedule, now) # Never
      BY NextRunAtIs DEF Timed, MarkRun, Computed
    <2>3. PICK d : Found(schedule, now, d, NextScheduledAt(schedule, now))
      BY <2>1, <2>2, NextFound
    <2> QED
      BY <2>1, <2>2, <2>3, Ahead
  <1> QED
    BY <1>1, TimedAlways, PTL DEF Spec, MarkedIsAhead
=============================================================================
