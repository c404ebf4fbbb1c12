------------------------------- MODULE NextRun -------------------------------
(***************************************************************************)
(* compute_next_run_at and the calendar searches it calls                  *)
(* (src-tauri/src/scheduler/mod.rs): from a trigger and an instant, the    *)
(* next instant the trigger fires, or NULL when it never fires again.      *)
(*                                                                         *)
(* Instants are natural numbers (UTC).  A zone has at most one transition: *)
(* its offset is zone.base before the instant zone.at and zone.base +      *)
(* zone.shift from then on, so shift > 0 skips local times and shift < 0   *)
(* repeats them; shift = 0 is a fixed offset.  A day has DayLength local   *)
(* ticks, a week WeekLength days, and the months of a year the lengths in  *)
(* the sequence MonthLengths.                                              *)
(***************************************************************************)
EXTENDS Integers, Sequences

CONSTANTS DayLength,     \* local ticks in a day
          WeekLength,    \* days in a week
          MonthLengths,  \* days in each month of a year
          NULL           \* no such instant (None)

MinOf(S) == CHOOSE x \in S : \A y \in S : x <= y

-----------------------------------------------------------------------------
(* Local time.                                                             *)

OffsetAt(zone, u) == IF u < zone.at THEN zone.base ELSE zone.base + zone.shift

LocalTime(zone, u) == u + OffsetAt(zone, u)

LocalDate(zone, u) == LocalTime(zone, u) \div DayLength

(* from_local_datetime: the instants whose local time is the given one.    *)
(* None, Single and Ambiguous are the cardinalities 0, 1 and 2.            *)
FromLocal(zone, local) ==
  {u \in {local - zone.base, local - (zone.base + zone.shift)} :
     LocalTime(zone, u) = local}

(* The month of a date and the day within it, counted from 1.              *)
DaysBefore == [m \in 1 .. Len(MonthLengths) + 1 |->
                 LET before[k \in 1 .. m] ==
                       IF k = 1 THEN 0 ELSE before[k-1] + MonthLengths[k-1]
                 IN  before[m]]

YearLength == DaysBefore[Len(MonthLengths) + 1]

DayOfMonth(date) ==
  LET dayOfYear == date % YearLength
      month == CHOOSE m \in 1 .. Len(MonthLengths) :
                 /\ DaysBefore[m] <= dayOfYear
                 /\ dayOfYear < DaysBefore[m+1]
  IN  dayOfYear - DaysBefore[month] + 1

DayOfWeek(date) == (date % WeekLength) + 1

-----------------------------------------------------------------------------
(* The calendar triggers.                                                  *)

DateMatches(trigger, date) ==
  \/ trigger.type = "daily_time"
  \/ trigger.type = "weekly_time"  /\ DayOfWeek(date) = trigger.day
  \/ trigger.type = "monthly_time" /\ DayOfMonth(date) = trigger.day

(* How many days the search looks ahead: a week for a daily trigger, a     *)
(* little more than a year for the others.                                 *)
LookAhead(trigger) ==
  IF trigger.type = "daily_time" THEN WeekLength ELSE YearLength + 1

(* Faulty variant: a local time that occurs twice is given up.             *)
CandidatesUnambiguous(trigger, date, after) ==
  LET instants == FromLocal(trigger.zone, date * DayLength + trigger.time)
  IN  IF DateMatches(trigger, date) /\ \A u, v \in instants : u = v
      THEN {u \in instants : u > after}
      ELSE {}

(* The instants of a date at which the trigger fires, after "after".       *)
Candidates(trigger, date, after) ==
  IF DateMatches(trigger, date)
  THEN {u \in FromLocal(trigger.zone, date * DayLength + trigger.time) : u > after}
  ELSE {}

(* Faulty variant: the search starts tomorrow.                             *)
NextCalendarRunTomorrow(trigger, after) ==
  LET today == LocalDate(trigger.zone, after)
      dates == {d \in today + 1 .. today + LookAhead(trigger) :
                  Candidates(trigger, d, after) # {}}
  IN  IF dates = {} THEN NULL
      ELSE MinOf(Candidates(trigger, MinOf(dates), after))

(* The first date, from the local date of "after" on, that has a candidate *)
(* instant, and the earlier of its candidates.  When there is none within  *)
(* the look-ahead the code returns an error, here NULL; TriggerChain shows *)
(* that this never happens.                                                *)
NextCalendarRun(trigger, after) ==
  LET today == LocalDate(trigger.zone, after)
      dates == {d \in today .. today + LookAhead(trigger) :
                  Candidates(trigger, d, after) # {}}
  IN  IF dates = {} THEN NULL
      ELSE MinOf(Candidates(trigger, MinOf(dates), after))

-----------------------------------------------------------------------------
(* The other triggers.                                                     *)

(* Faulty variant: the end is excluded.                                    *)
NextIntervalRunBeforeEnd(trigger, after) ==
  LET next == IF trigger.start # NULL /\ after < trigger.start
              THEN trigger.start
              ELSE after + trigger.step
  IN  IF trigger.end # NULL /\ next >= trigger.end THEN NULL ELSE next

NextIntervalRun(trigger, after) ==
  LET next == IF trigger.start # NULL /\ after < trigger.start
              THEN trigger.start
              ELSE after + trigger.step
  IN  IF trigger.end # NULL /\ next > trigger.end THEN NULL ELSE next

NextOnceRun(trigger, after) ==
  IF after >= trigger.at THEN NULL ELSE trigger.at

NextRunAt(trigger, after) ==
  CASE trigger.type = "interval" -> NextIntervalRun(trigger, after)
    [] trigger.type = "once_at"  -> NextOnceRun(trigger, after)
    [] OTHER                     -> NextCalendarRun(trigger, after)

=============================================================================
