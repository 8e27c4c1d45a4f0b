---------------------------- MODULE MCSchedule ----------------------------
(* A calendar of two-minute hours, three-hour days and two-month years,    *)
(* of which every other one has a leap day.                                *)
EXTENDS Schedule

MCMonths == [k \in 1..16 |-> [month |-> 2 - (k % 2), days |-> IF k % 2 = 1 \/ k % 4 = 0 THEN 3 ELSE 2]]

MCSchedules == UNION {
  {Every(1, z), Every(3, z), Daily(0, 1, z), Daily(2, 0, z), Weekly(2, 0, 0, z), Weekly(0, 2, 1, z),
   Cron(Listed({0}), Star, Star, Star, Star, z),                    \* every hour
   Cron(Listed({1}), Listed({1}), Step(2), Star, Star, z),          \* odd days of the month
   Cron(Listed({0}), Listed({0}), Listed({3}), Listed({2}), Star, z),  \* the leap day
   Cron(Star, Listed({2}), Star, Listed({2}), Listed({Week}), z)}   \* weekday 7 of a month
  : z \in BOOLEAN}
===========================================================================
