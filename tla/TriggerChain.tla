---------------------------- MODULE TriggerChain ----------------------------
(***************************************************************************)
(* The slots a trigger produces one after the other, as claim_due_jobs     *)
(* walks through them: the first search starts from the instant of a sync, *)
(* every further one from the slot that was just claimed.  The results are *)
(* compared with what the trigger means: the local dates and times on the  *)
(* wall of its zone, and the grid of an interval.                          *)
(***************************************************************************)
EXTENDS NextRun

CONSTANTS Triggers,   \* the triggers explored
          LastAfter   \* bound: searches start no later than this

CalendarTypes == {"daily_time", "weekly_time", "monthly_time"}

(* A year is at least two weeks long, as far as the search looks ahead.     *)
ASSUME CalendarAssumption ==
  /\ DayLength \in Nat \ {0}
  /\ WeekLength \in Nat \ {0, 1}
  /\ YearLength \in Nat \ {0} /\ 2 * WeekLength <= YearLength + 1
  /\ NULL \notin Int /\ LastAfter \in Nat

(* No zone moves its clock by more than a day.                             *)
Zone == [base : Int, shift : -DayLength .. DayLength, at : Int]

(* The day of a monthly trigger is one that two dates of a year have.       *)
ASSUME TriggersAssumption ==
  \A t \in Triggers :
    /\ t.type \in CalendarTypes \cup {"interval", "once_at"}
    /\ t.type \in CalendarTypes => t.zone \in Zone /\ t.time \in 0 .. DayLength - 1
    /\ t.type = "weekly_time" => t.day \in 1 .. WeekLength
    /\ t.type = "monthly_time" =>
         \E a, b \in 0 .. YearLength - 1 :
           a # b /\ DayOfMonth(a) = t.day /\ DayOfMonth(b) = t.day
    /\ t.type = "interval" =>
         {t.start, t.end} \subseteq Nat \cup {NULL} /\ t.step \in Nat \ {0}
    /\ t.type = "once_at" => t.at \in Nat

VARIABLES trigger,  \* the trigger of the job
          slot      \* the instant the next search starts from

chain == <<trigger, slot>>

Init == trigger \in Triggers /\ slot \in 0 .. LastAfter

(* The slot is claimed and next_run_at moves on.                           *)
ClaimSlot ==
  /\ slot <= LastAfter
  /\ NextRunAt(trigger, slot) # NULL
  /\ slot' = NextRunAt(trigger, slot)
  /\ UNCHANGED trigger

Next == ClaimSlot

Spec == Init /\ [][Next]_chain

-----------------------------------------------------------------------------
Calendar == trigger.type \in CalendarTypes

(* The wall clock of the zone shows a local time the trigger names.        *)
OnTheWall(u) ==
  /\ DateMatches(trigger, LocalDate(trigger.zone, u))
  /\ LocalTime(trigger.zone, u) % DayLength = trigger.time

(* A calendar trigger always fires again, and the search finds the first   *)
(* instant at which the wall clock shows its time on a matching date, in   *)
(* spite of local times that are skipped or repeated.  A date before the   *)
(* present one, which returns when a transition turns the clock back       *)
(* across midnight, does not count.                                        *)
CalendarRunIsEarliest ==
  Calendar =>
    LET next == NextRunAt(trigger, slot)
    IN  /\ next # NULL
        /\ next > slot /\ OnTheWall(next)
        /\ \A u \in slot + 1 .. next - 1 :
             OnTheWall(u) => LocalDate(trigger.zone, u) < LocalDate(trigger.zone, slot)

(* From a slot of its grid, or from before its start, an interval goes to  *)
(* the next point of the grid start, start + step, ... up to its end: the  *)
(* time a run takes does not make it drift.                                *)
OnGrid(u) == /\ u >= trigger.start
             /\ (u - trigger.start) % trigger.step = 0
             /\ trigger.end # NULL => u <= trigger.end

IntervalRunIsEarliest ==
  (trigger.type = "interval" /\ trigger.start # NULL) =>
    ((slot < trigger.start \/ OnGrid(slot)) =>
       LET next == NextRunAt(trigger, slot)
           horizon == slot + trigger.start + trigger.step
       IN  IF \E u \in slot + 1 .. horizon : OnGrid(u)
           THEN next # NULL /\ next > slot /\ OnGrid(next)
                /\ \A u \in slot + 1 .. next - 1 : ~ OnGrid(u)
           ELSE next = NULL)

(* From slot to slot a daily trigger moves on by one local day, unless a   *)
(* transition repeats its local time (the day has two slots) or skips it   *)
(* (the day has none).                                                     *)
DailyOncePerDay ==
  [][ (trigger.type = "daily_time" /\ OnTheWall(slot)) =>
        LET zone == trigger.zone
            today == LocalDate(zone, slot)
            next == LocalDate(zone, slot')
            instants(d) == FromLocal(zone, d * DayLength + trigger.time)
        IN  \/ next = today /\ instants(today) = {slot, slot'}
            \/ /\ next > today
               /\ \A d \in today + 1 .. next - 1 : instants(d) = {} ]_chain

=============================================================================
