--------------------------- MODULE MCTriggerChain ---------------------------
(***************************************************************************)
(* Instance of TriggerChain for TLC: days of four ticks, weeks of three    *)
(* days, a year of three months of unequal length in which every day of a  *)
(* month occurs more than once, as in the real calendar, and zones whose   *)
(* offset moves by one tick either way, or not, at any instant.            *)
(***************************************************************************)
EXTENDS TriggerChain

MonthsOfUnequalLength == <<3, 2, 3>>

Zones == [base : {1}, shift : {-1, 0, 1}, at : 0 .. 20]

Times == 0 .. DayLength - 1

Dailies  == [type : {"daily_time"}, zone : Zones, time : Times]
Weeklies == [type : {"weekly_time"}, zone : Zones, time : Times, day : 1 .. WeekLength]
Monthlies == [type : {"monthly_time"}, zone : Zones, time : Times, day : 1 .. 3]
Intervals == [type : {"interval"}, start : {NULL} \cup 0 .. 5,
              end : {NULL} \cup 4 .. 9, step : 1 .. 3]
Onces == [type : {"once_at"}, at : 0 .. 5]

AllTriggers == Dailies \cup Weeklies \cup Monthlies \cup Intervals \cup Onces
=============================================================================
