------------------------- MODULE TriggerChainProofs -------------------------
(***************************************************************************)
(* NextRun and TriggerChain: the next slot of a trigger is the earliest    *)
(* instant that it means, proved for days, weeks and years of any length,  *)
(* any zone with one transition of a day at most, and any instant.         *)
(*                                                                         *)
(* The wall clock can go back only at the transition, and by no more than  *)
(* a day, so that an instant whose local time is a day later is later      *)
(* (DayLaterIsLater): the first date with a candidate has the earliest     *)
(* one.  Of two local times a day apart only one can be skipped            *)
(* (OneIsSkipped), and the look-ahead contains two matching dates.         *)
(***************************************************************************)
EXTENDS TriggerChain, WellFoundedInduction, TLAPS

-----------------------------------------------------------------------------
(* Division *)

(* What the provers know of quotient and remainder...                       *)
LEMMA DivMod ==
  ASSUME NEW n \in Nat \ {0}, NEW x \in Int
  PROVE  x \div n \in Int /\ x % n \in 0 .. n - 1 /\ x = n * (x \div n) + (x % n)
OBVIOUS

(* ... of multiples...                                                     *)
LEMMA Multiples ==
  ASSUME NEW n \in Nat \ {0}, NEW p \in Int, NEW q \in Int, p < q
  PROVE  n * p \in Int /\ n * q \in Int /\ n * p + n <= n * q
<1>1. n * (q - p) >= n
  OBVIOUS
<1>2. n * (q - p) = n * q - n * p
  OBVIOUS
<1>3. n * q \in Int /\ n * p \in Int
  OBVIOUS
<1> QED
  BY <1>1, <1>2, <1>3

(* ... and that the two are the only ones.                                 *)
LEMMA DivModUnique ==
  ASSUME NEW n \in Nat \ {0}, NEW q \in Int, NEW r \in 0 .. n - 1
  PROVE  (n * q + r) \div n = q /\ (n * q + r) % n = r
<1> DEFINE x == n * q + r
           p == x \div n
           s == x % n
<1>1. x \in Int
  OBVIOUS
<1>2. p \in Int /\ s \in 0 .. n - 1 /\ x = n * p + s
  BY <1>1, DivMod
<1>3. n * q \in Int /\ n * p \in Int /\ x = n * q + r
  BY <1>2
<1>4. p < q => n * p + n <= n * q
  BY <1>2, Multiples
<1>5. q < p => n * q + n <= n * p
  BY <1>2, Multiples
<1> HIDE DEF x, p, s
<1>6. p = q
  BY <1>2, <1>3, <1>4, <1>5
<1> QED
  BY <1>2, <1>3, <1>6 DEF x, p, s

(* n consecutive numbers have all remainders.                              *)
LEMMA RemainderOccurs ==
  ASSUME NEW n \in Nat \ {0}, NEW x \in Int, NEW r \in 0 .. n - 1
  PROVE  \E d \in Int : x <= d /\ d < x + n /\ d % n = r
<1> DEFINE q == x \div n
           s == x % n
<1>1. q \in Int /\ s \in 0 .. n - 1 /\ x = n * q + s
  BY DivMod
<1> HIDE DEF q, s
<1>2. n * q \in Int /\ n * (q + 1) = n * q + n
  BY <1>1
<1>3. CASE r >= s
  <2>1. n * q + r \in Int /\ x <= n * q + r /\ n * q + r < x + n
    BY <1>1, <1>2, <1>3
  <2> QED
    BY <1>1, <2>1, DivModUnique
<1>4. CASE r < s
  <2>1. n * (q + 1) + r \in Int /\ x <= n * (q + 1) + r /\ n * (q + 1) + r < x + n
    BY <1>1, <1>2, <1>4
  <2>2. q + 1 \in Int
    BY <1>1
  <2> QED
    BY <2>1, <2>2, DivModUnique
<1> QED
  BY <1>1, <1>3, <1>4

-----------------------------------------------------------------------------
(* MinOf *)

(* A set of integers that are no less than m has a least one.               *)
LEMMA MinOfIsLeast ==
  ASSUME NEW m \in Int, NEW S, S \subseteq Int, S # {}, \A x \in S : m <= x
  PROVE  MinOf(S) \in S /\ \A x \in S : MinOf(S) <= x
<1> DEFINE T == {x - m : x \in S}
<1>1. T \subseteq Nat /\ T # {}
  <2>1. \A x \in S : x - m \in Nat
    OBVIOUS
  <2> QED
    BY <2>1
<1>2. PICK y \in T : \A z \in T : ~(<<z, y>> \in OpToRel(<, Nat))
  <2> HIDE DEF T
  <2> QED
    BY <1>1, NatLessThanWellFounded, WFMin
<1>3. ASSUME NEW z \in T
      PROVE  y <= z
  <2>1. z \in Nat /\ y \in Nat /\ <<z, y>> \in Nat \X Nat
    BY <1>1
  <2>2. ~(z < y)
    BY <1>2, <2>1 DEF OpToRel
  <2> QED
    BY <2>1, <2>2
<1>4. y + m \in S /\ \A x \in S : y + m <= x
  BY <1>3
<1> QED
  BY <1>4 DEF MinOf

-----------------------------------------------------------------------------
(* The wall clock *)

(* The clock shows integers.                                               *)
LEMMA ClockTyped ==
  ASSUME NEW zone \in Zone, NEW u \in Int
  PROVE  /\ zone.base \in Int /\ zone.at \in Int
         /\ zone.shift \in Int /\ -DayLength <= zone.shift /\ zone.shift <= DayLength
         /\ DayLength \in Int /\ 0 < DayLength
         /\ LocalTime(zone, u) = u + zone.base + (IF u < zone.at THEN 0 ELSE zone.shift)
         /\ LocalTime(zone, u) \in Int /\ LocalDate(zone, u) \in Int
<1>1. /\ zone.base \in Int /\ zone.at \in Int
      /\ zone.shift \in Int /\ -DayLength <= zone.shift /\ zone.shift <= DayLength
      /\ DayLength \in Int /\ 0 < DayLength
  BY CalendarAssumption DEF Zone
<1>2. LocalTime(zone, u) = u + zone.base + (IF u < zone.at THEN 0 ELSE zone.shift)
  BY <1>1 DEF LocalTime, OffsetAt
<1>3. LocalTime(zone, u) \in Int
  BY <1>1, <1>2
<1>4. LocalDate(zone, u) \in Int
  BY <1>3, CalendarAssumption, DivMod DEF LocalDate
<1> QED
  BY <1>1, <1>2, <1>3, <1>4

(* The clock goes back by no more than a day: what shows a day later is later. *)
LEMMA DayLaterIsLater ==
  ASSUME NEW zone \in Zone, NEW u \in Int, NEW v \in Int,
         LocalTime(zone, u) + DayLength <= LocalTime(zone, v)
  PROVE  u < v
BY ClockTyped

(* from_local_datetime yields the instants that show the local time.        *)
LEMMA FromLocalIs ==
  ASSUME NEW zone \in Zone, NEW local \in Int
  PROVE  \A u : u \in FromLocal(zone, local) <=> u \in Int /\ LocalTime(zone, u) = local
<1> TAKE u
<1>1. CASE u \in Int
  BY <1>1, ClockTyped DEF FromLocal
<1>2. CASE u \notin Int
  <2>1. zone.base \in Int /\ zone.shift \in Int
    BY DEF Zone
  <2> QED
    BY <1>2, <2>1 DEF FromLocal
<1> QED
  BY <1>1, <1>2

(* A local time that is still to come and is not skipped has an instant ahead. *)
LEMMA ComesAgain ==
  ASSUME NEW zone \in Zone, NEW after \in Int, NEW local \in Int,
         LocalTime(zone, after) < local, FromLocal(zone, local) # {}
  PROVE  \E u \in FromLocal(zone, local) : u > after
<1>1. PICK u \in Int : LocalTime(zone, u) = local
  BY FromLocalIs
<1>2. CASE u > after
  BY <1>1, <1>2, FromLocalIs
<1>3. CASE u <= after
  <2> DEFINE v == local - (zone.base + zone.shift)
  <2>1. v \in Int
    BY ClockTyped
  <2>2. u < zone.at /\ zone.at <= after
    BY <1>1, <1>3, ClockTyped
  <2>3. v > after /\ v >= zone.at
    BY <2>2, ClockTyped
  <2>4. LocalTime(zone, v) = local
    BY <2>1, <2>3, ClockTyped
  <2> QED
    BY <2>1, <2>3, <2>4, FromLocalIs
<1> QED
  BY <1>1, <1>2, <1>3, ClockTyped

(* Of two local times a day apart or more one is not skipped.              *)
LEMMA OneIsSkipped ==
  ASSUME NEW zone \in Zone, NEW local \in Int, NEW later \in Int,
         local + DayLength <= later, FromLocal(zone, local) = {}
  PROVE  FromLocal(zone, later) # {}
<1> DEFINE u == local - zone.base
           v == later - (zone.base + zone.shift)
<1>1. /\ zone.base \in Int /\ zone.at \in Int /\ zone.shift \in Int
      /\ zone.shift <= DayLength /\ DayLength \in Int
  BY CalendarAssumption DEF Zone
<1>2. u \in Int /\ v \in Int
  BY <1>1
<1>3. zone.at <= u
  <2>1. u < zone.at => LocalTime(zone, u) = local
    BY <1>1, <1>2, ClockTyped
  <2>2. LocalTime(zone, u) # local
    BY <1>2, FromLocalIs
  <2> QED
    BY <1>1, <1>2, <2>1, <2>2
<1>4. v >= zone.at
  BY <1>1, <1>3
<1>5. LocalTime(zone, v) = later
  BY <1>1, <1>2, <1>4, ClockTyped
<1> QED
  BY <1>2, <1>5, FromLocalIs

(* The wall clock shows a time of a date.                                  *)
LEMMA WallClock ==
  ASSUME NEW zone \in Zone, NEW u \in Int, NEW date \in Int, NEW time \in 0 .. DayLength - 1
  PROVE  /\ date * DayLength + time \in Int
         /\ LocalTime(zone, u) = date * DayLength + time
              <=> LocalDate(zone, u) = date /\ LocalTime(zone, u) % DayLength = time
<1> DEFINE local == LocalTime(zone, u)
<1>1. local \in Int /\ DayLength \in Nat \ {0}
  BY ClockTyped, CalendarAssumption
<1> HIDE DEF local
<1>2. /\ local \div DayLength \in Int /\ local % DayLength \in 0 .. DayLength - 1
      /\ local = DayLength * (local \div DayLength) + (local % DayLength)
  BY <1>1, DivMod
<1>3. (DayLength * date + time) \div DayLength = date
      /\ (DayLength * date + time) % DayLength = time
  BY <1>1, DivModUnique
<1>4. date * DayLength = DayLength * date /\ date * DayLength \in Int
  BY <1>1
<1>5. date * DayLength + time \in Int
  BY <1>4
<1>6. local = date * DayLength + time
        <=> local \div DayLength = date /\ local % DayLength = time
  BY <1>2, <1>3, <1>4
<1> QED
  BY <1>5, <1>6 DEF LocalDate, local

-----------------------------------------------------------------------------
(* The calendar search *)

IsCalendar(t) == t \in Triggers /\ t.type \in CalendarTypes

(* Candidates are the instants ahead that show the time of a matching date.   *)
LEMMA CandidatesAre ==
  ASSUME NEW t, IsCalendar(t), NEW date \in Int, NEW after \in Int, NEW u
  PROVE  u \in Candidates(t, date, after)
           <=> /\ u \in Int /\ DateMatches(t, date)
               /\ LocalTime(t.zone, u) = date * DayLength + t.time /\ u > after
<1>1. t.zone \in Zone /\ t.time \in 0 .. DayLength - 1
  BY TriggersAssumption DEF IsCalendar
<1>2. date * DayLength + t.time \in Int
  BY <1>1, WallClock
<1> QED
  BY <1>1, <1>2, FromLocalIs DEF Candidates

(* A day of the month depends on the day of the year.                      *)
LEMMA DayOfMonthRepeats ==
  ASSUME NEW a \in 0 .. YearLength - 1, NEW date \in Int, date % YearLength = a
  PROVE  DayOfMonth(date) = DayOfMonth(a)
<1>1. a % YearLength = a
  <2>1. YearLength \in Nat \ {0} /\ a = YearLength * 0 + a
    BY CalendarAssumption
  <2> QED
    BY <2>1, DivModUnique
<1> QED
  BY <1>1 DEF DayOfMonth

(* The look-ahead has two dates of the trigger.                            *)
LEMMA TwoDates ==
  ASSUME NEW t, IsCalendar(t), NEW today \in Int
  PROVE  \E d, e \in today + 1 .. today + LookAhead(t) :
           d < e /\ DateMatches(t, d) /\ DateMatches(t, e)
<1>1. CASE t.type = "daily_time"
  <2>1. WeekLength \in Int /\ 2 <= WeekLength
    BY CalendarAssumption
  <2>2. today + 1 \in today + 1 .. today + WeekLength
        /\ today + 2 \in today + 1 .. today + WeekLength /\ today + 1 < today + 2
    BY <2>1
  <2> QED
    BY <1>1, <2>2 DEF LookAhead, DateMatches
<1>2. CASE t.type = "weekly_time"
  <2> DEFINE r == t.day - 1
  <2>1. /\ WeekLength \in Nat \ {0} /\ r \in 0 .. WeekLength - 1 /\ t.day = r + 1
        /\ YearLength \in Int /\ 2 * WeekLength <= YearLength + 1
    BY <1>2, TriggersAssumption, CalendarAssumption DEF IsCalendar
  <2> DEFINE first == today + 1
             second == first + WeekLength
  <2>2. first \in Int /\ second \in Int
    BY <2>1
  <2>3. PICK d \in Int : first <= d /\ d < second /\ d % WeekLength = r
    BY <2>1, <2>2, RemainderOccurs
  <2>4. PICK e \in Int : second <= e /\ e < second + WeekLength /\ e % WeekLength = r
    BY <2>1, <2>2, RemainderOccurs
  <2>5. d < e /\ {d, e} \subseteq today + 1 .. today + (YearLength + 1)
    BY <2>1, <2>3, <2>4
  <2> HIDE DEF first, second
  <2> QED
    BY <1>2, <2>1, <2>3, <2>4, <2>5 DEF LookAhead, DateMatches, DayOfWeek
<1>3. CASE t.type = "monthly_time"
  <2>1. PICK a, b \in 0 .. YearLength - 1 :
          a # b /\ DayOfMonth(a) = t.day /\ DayOfMonth(b) = t.day
    BY <1>3, TriggersAssumption DEF IsCalendar
  <2>2. YearLength \in Nat \ {0}
    BY CalendarAssumption
  <2> DEFINE first == today + 1
  <2>3. first \in Int
    OBVIOUS
  <2>4. PICK d \in Int : first <= d /\ d < first + YearLength /\ d % YearLength = a
    BY <2>2, <2>3, RemainderOccurs
  <2>5. PICK e \in Int : first <= e /\ e < first + YearLength /\ e % YearLength = b
    BY <2>2, <2>3, RemainderOccurs
  <2>6. DayOfMonth(d) = t.day /\ DayOfMonth(e) = t.day
    BY <2>1, <2>4, <2>5, DayOfMonthRepeats
  <2>7. d # e /\ {d, e} \subseteq today + 1 .. today + (YearLength + 1)
    BY <2>1, <2>2, <2>4, <2>5
  <2>8. d < e \/ e < d
    BY <2>7
  <2> QED
    BY <1>3, <2>6, <2>7, <2>8 DEF LookAhead, DateMatches
<1> QED
  BY <1>1, <1>2, <1>3 DEF IsCalendar, CalendarTypes

(* What the search finds: the least candidate of the first date that has any.  *)
LEMMA SearchFinds ==
  ASSUME NEW t, IsCalendar(t), NEW after \in Int
  PROVE  LET next == NextCalendarRun(t, after)
             today == LocalDate(t.zone, after)
         IN  \E date \in Int :
               /\ today <= date /\ next \in Candidates(t, date, after)
               /\ \A u \in Candidates(t, date, after) : next <= u
               /\ \A d \in today .. date - 1 : Candidates(t, d, after) = {}
<1> DEFINE today == LocalDate(t.zone, after)
           local(d) == d * DayLength + t.time
           dates == {d \in today .. today + LookAhead(t) : Candidates(t, d, after) # {}}
           date == MinOf(dates)
           found == Candidates(t, date, after)
<1>1. t.zone \in Zone /\ t.time \in 0 .. DayLength - 1
  BY TriggersAssumption DEF IsCalendar
<1>2. today \in Int /\ LocalTime(t.zone, after) \in Int /\ DayLength \in Nat \ {0}
  BY <1>1, ClockTyped, CalendarAssumption
<1>3. \A d \in Int : local(d) \in Int
  BY <1>1, WallClock
<1>4. LocalTime(t.zone, after) < DayLength * today + DayLength
  <2> DEFINE now == LocalTime(t.zone, after)
  <2>1. now \in Int /\ today = now \div DayLength
    BY <1>2 DEF LocalDate
  <2> HIDE DEF now
  <2>2. now % DayLength \in 0 .. DayLength - 1 /\ now = DayLength * (now \div DayLength) + (now % DayLength)
    BY <1>2, <2>1, DivMod
  <2>3. DayLength * (now \div DayLength) \in Int
    BY <1>2, <2>1
  <2>4. now < DayLength * (now \div DayLength) + DayLength
    BY <1>2, <2>1, <2>2, <2>3
  <2> QED
    BY <2>1, <2>4 DEF now
<1>5. \A d \in Int : today < d => LocalTime(t.zone, after) < local(d)
  <2> TAKE d \in Int
  <2> SUFFICES ASSUME today < d PROVE LocalTime(t.zone, after) < local(d)
    OBVIOUS
  <2>1. DayLength * today + DayLength <= DayLength * d /\ DayLength * d \in Int
    BY <1>2, Multiples
  <2>2. DayLength * d = d * DayLength /\ DayLength * today \in Int
    BY <1>2
  <2> QED
    BY <1>1, <1>2, <1>4, <2>1, <2>2
<1>6. \A d, e \in Int : d < e => local(d) + DayLength <= local(e)
  <2> TAKE d, e \in Int
  <2> SUFFICES ASSUME d < e PROVE local(d) + DayLength <= local(e)
    OBVIOUS
  <2>1. DayLength * d + DayLength <= DayLength * e /\ DayLength * d \in Int /\ DayLength * e \in Int
    BY <1>2, Multiples
  <2>2. DayLength * d = d * DayLength /\ DayLength * e = e * DayLength
    BY <1>2
  <2> QED
    BY <1>1, <1>2, <2>1, <2>2
<1>7. dates # {}
  <2>1. PICK d, e \in today + 1 .. today + LookAhead(t) :
          d < e /\ DateMatches(t, d) /\ DateMatches(t, e)
    BY <1>2, TwoDates
  <2>2. LookAhead(t) \in Int
    BY CalendarAssumption DEF LookAhead
  <2>3. {d, e} \subseteq Int /\ today < d /\ today < e /\ {d, e} \subseteq today .. today + LookAhead(t)
    BY <1>2, <2>1, <2>2
  <2>4. PICK x \in {d, e} : FromLocal(t.zone, local(x)) # {}
    BY <1>1, <1>3, <1>6, <2>1, <2>3, OneIsSkipped
  <2>5. x \in Int /\ local(x) \in Int /\ LocalTime(t.zone, after) < local(x)
    BY <1>3, <1>5, <2>3
  <2>6. \E u \in FromLocal(t.zone, local(x)) : u > after
    BY <1>1, <2>4, <2>5, ComesAgain
  <2>7. Candidates(t, x, after) # {}
    BY <2>1, <2>6 DEF Candidates
  <2> QED
    BY <2>3, <2>7
<1>8. date \in dates /\ \A d \in dates : date <= d
  <2>1. dates \subseteq Int /\ \A d \in dates : today <= d
    BY <1>2, CalendarAssumption DEF LookAhead
  <2> HIDE DEF dates
  <2> QED
    BY <1>2, <1>7, <2>1, MinOfIsLeast
<1>9. date \in Int /\ today <= date /\ date <= today + LookAhead(t) /\ found # {}
      /\ LookAhead(t) \in Int
  <2>1. LookAhead(t) \in Int
    BY CalendarAssumption DEF LookAhead
  <2> QED
    BY <1>2, <1>8, <2>1
<1>10. MinOf(found) \in found /\ \A u \in found : MinOf(found) <= u
  <2> HIDE DEF date
  <2>1. \A u \in found : u \in Int /\ u > after
    BY <1>9, CandidatesAre
  <2>2. found \subseteq Int /\ \A u \in found : after <= u
    BY <2>1
  <2> HIDE DEF found
  <2> QED
    BY <1>9, <2>2, MinOfIsLeast
<1>11. \A d \in today .. date - 1 : Candidates(t, d, after) = {}
  <2> TAKE d \in today .. date - 1
  <2>1. d \in today .. today + LookAhead(t) /\ ~(date <= d)
    BY <1>2, <1>9
  <2> QED
    BY <1>8, <2>1
<1>12. NextCalendarRun(t, after) = MinOf(found)
  BY <1>7 DEF NextCalendarRun
<1> HIDE DEF date, found
<1> QED
  BY <1>9, <1>10, <1>11, <1>12 DEF found

-----------------------------------------------------------------------------
(* The chain of slots *)

(* The next run of a trigger lies ahead.                                   *)
LEMMA NextRunIsAhead ==
  ASSUME NEW t \in Triggers, NEW after \in Nat, NextRunAt(t, after) # NULL
  PROVE  NextRunAt(t, after) \in Nat /\ NextRunAt(t, after) > after
<1>1. CASE t.type = "interval"
  <2>1. {t.start, t.end} \subseteq Nat \cup {NULL} /\ t.step \in Nat \ {0}
    BY <1>1, TriggersAssumption
  <2> QED
    BY <1>1, <2>1 DEF NextRunAt, NextIntervalRun
<1>2. CASE t.type = "once_at"
  <2>1. t.at \in Nat
    BY <1>2, TriggersAssumption
  <2> QED
    BY <1>2, <2>1 DEF NextRunAt, NextOnceRun
<1>3. CASE t.type \in CalendarTypes
  <2>1. IsCalendar(t) /\ NextRunAt(t, after) = NextCalendarRun(t, after)
    BY <1>3 DEF IsCalendar, CalendarTypes, NextRunAt
  <2>2. PICK date \in Int : NextCalendarRun(t, after) \in Candidates(t, date, after)
    BY <2>1, SearchFinds
  <2>3. NextCalendarRun(t, after) \in Int /\ NextCalendarRun(t, after) > after
    BY <2>1, <2>2, CandidatesAre
  <2> QED
    BY <2>1, <2>3
<1> QED
  BY <1>1, <1>2, <1>3, TriggersAssumption

ChainInv == trigger \in Triggers /\ slot \in Nat

(* Instants of the chain are numbers, as every next run lies ahead.         *)
LEMMA ChainInductive ==
  /\ Init => ChainInv
  /\ ChainInv /\ [Next]_chain => ChainInv'
<1>1. Init => ChainInv
  BY CalendarAssumption DEF Init, ChainInv
<1>2. ASSUME ChainInv, [Next]_chain
      PROVE  ChainInv'
  <2>1. CASE ClaimSlot
    BY <1>2, <2>1, NextRunIsAhead DEF ClaimSlot, ChainInv
  <2>2. CASE UNCHANGED chain
    BY <1>2, <2>2 DEF chain, ChainInv
  <2> QED
    BY <1>2, <2>1, <2>2 DEF Next
<1> QED
  BY <1>1, <1>2

(* The local time of an instant on the wall is that of its date.            *)
LEMMA OnTheWallIs ==
  ASSUME ChainInv, Calendar, NEW u \in Int
  PROVE  LET date == LocalDate(trigger.zone, u) IN
         /\ date \in Int
         /\ OnTheWall(u) <=> /\ DateMatches(trigger, date)
                             /\ LocalTime(trigger.zone, u) = date * DayLength + trigger.time
<1>1. trigger.zone \in Zone /\ trigger.time \in 0 .. DayLength - 1
  BY TriggersAssumption DEF ChainInv, Calendar
<1>2. LocalDate(trigger.zone, u) \in Int
  BY <1>1, ClockTyped
<1> QED
  BY <1>1, <1>2, WallClock DEF OnTheWall

(* An instant on the wall, of a later date than another, is later.          *)
LEMMA LaterDateIsLater ==
  ASSUME ChainInv, Calendar, NEW u \in Int, NEW v \in Int, NEW d \in Int, NEW e \in Int, d < e,
         LocalTime(trigger.zone, u) = d * DayLength + trigger.time,
         LocalTime(trigger.zone, v) = e * DayLength + trigger.time
  PROVE  u < v
<1>1. trigger.zone \in Zone /\ trigger.time \in 0 .. DayLength - 1 /\ DayLength \in Nat \ {0}
  BY TriggersAssumption, CalendarAssumption DEF ChainInv, Calendar
<1>2. DayLength * d + DayLength <= DayLength * e /\ DayLength * d \in Int /\ DayLength * e \in Int
  BY <1>1, Multiples
<1>3. DayLength * d = d * DayLength /\ DayLength * e = e * DayLength
  BY <1>1
<1>4. LocalTime(trigger.zone, u) + DayLength <= LocalTime(trigger.zone, v)
  BY <1>1, <1>2, <1>3
<1> QED
  BY <1>1, <1>4, DayLaterIsLater

(* What the search finds is the earliest instant that the trigger means.     *)
LEMMA CalendarStep == ChainInv => CalendarRunIsEarliest
<1> SUFFICES ASSUME ChainInv, Calendar PROVE CalendarRunIsEarliest
  BY DEF CalendarRunIsEarliest
<1> DEFINE next == NextCalendarRun(trigger, slot)
           today == LocalDate(trigger.zone, slot)
<1>1. IsCalendar(trigger) /\ slot \in Int /\ NextRunAt(trigger, slot) = next
  BY DEF ChainInv, Calendar, IsCalendar, CalendarTypes, NextRunAt
<1>2. PICK date \in Int :
        /\ today <= date /\ next \in Candidates(trigger, date, slot)
        /\ \A u \in Candidates(trigger, date, slot) : next <= u
        /\ \A d \in today .. date - 1 : Candidates(trigger, d, slot) = {}
  BY <1>1, SearchFinds
<1> HIDE DEF next
<1>3. /\ next \in Int /\ next > slot /\ DateMatches(trigger, date)
      /\ LocalTime(trigger.zone, next) = date * DayLength + trigger.time
  BY <1>1, <1>2, CandidatesAre
<1>4. trigger.zone \in Zone /\ trigger.time \in 0 .. DayLength - 1 /\ today \in Int
  BY <1>1, TriggersAssumption, ClockTyped DEF IsCalendar
<1>5. LocalDate(trigger.zone, next) = date
      /\ LocalTime(trigger.zone, next) % DayLength = trigger.time
  BY <1>3, <1>4, WallClock
<1>6. OnTheWall(next)
  BY <1>3, <1>5 DEF OnTheWall
<1>7. ASSUME NEW u \in slot + 1 .. next - 1, OnTheWall(u)
      PROVE  LocalDate(trigger.zone, u) < today
  <2> DEFINE e == LocalDate(trigger.zone, u)
  <2>1. u \in Int /\ u > slot /\ u < next
    BY <1>1, <1>3
  <2>2. /\ e \in Int /\ DateMatches(trigger, e)
        /\ LocalTime(trigger.zone, u) = e * DayLength + trigger.time
    BY <1>7, <2>1, OnTheWallIs
  <2> HIDE DEF e
  <2>3. u \in Candidates(trigger, e, slot)
    BY <1>1, <2>1, <2>2, CandidatesAre
  <2>4. e # date
    BY <1>2, <1>3, <2>1, <2>3
  <2>5. ~(date < e)
    BY <1>3, <2>1, <2>2, LaterDateIsLater
  <2>6. e \notin today .. date - 1
    BY <1>2, <2>3
  <2> QED
    BY <1>4, <2>2, <2>4, <2>5, <2>6 DEF e
<1> QED
  BY <1>1, <1>3, <1>6, <1>7, CalendarAssumption DEF CalendarRunIsEarliest

(* A calendar trigger always fires again, at the first instant at which the   *)
(* wall clock shows its time on a date that it names, present or to come, for   *)
(* any zone and any instant: compute_next_calendar_run_at finds it within its  *)
(* look-ahead.                                                             *)
THEOREM CalendarRight == Spec => []CalendarRunIsEarliest
  BY ChainInductive, CalendarStep, PTL DEF Spec

-----------------------------------------------------------------------------
(* Intervals *)

(* From a point of a grid, n further is the next one.                       *)
LEMMA NextOnGrid ==
  ASSUME NEW n \in Nat \ {0}, NEW x \in Int, x % n = 0
  PROVE  (x + n) % n = 0 /\ \A r \in 1 .. n - 1 : (x + r) % n # 0
<1> DEFINE q == x \div n
<1>1. q \in Int /\ x = n * q + 0
  BY DivMod
<1> HIDE DEF q
<1>2. x + n = n * (q + 1) + 0 /\ q + 1 \in Int /\ 0 \in 0 .. n - 1
  BY <1>1
<1>3. (x + n) % n = 0
  <2>1. (n * (q + 1) + 0) % n = 0
    BY <1>2, DivModUnique
  <2> QED
    BY <1>2, <2>1
<1>4. ASSUME NEW r \in 1 .. n - 1
      PROVE  (x + r) % n # 0
  <2>1. x + r = n * q + r /\ r \in 0 .. n - 1
    BY <1>1
  <2>2. (n * q + r) % n = r
    BY <1>1, <2>1, DivModUnique
  <2> QED
    BY <2>1, <2>2
<1> QED
  BY <1>3, <1>4

(* So is what an interval yields.                                          *)
LEMMA IntervalStep == ChainInv => IntervalRunIsEarliest
<1> SUFFICES ASSUME ChainInv, trigger.type = "interval", trigger.start # NULL,
                    slot < trigger.start \/ OnGrid(slot)
             PROVE  LET next == NextRunAt(trigger, slot)
                        horizon == slot + trigger.start + trigger.step
                    IN  IF \E u \in slot + 1 .. horizon : OnGrid(u)
                        THEN next # NULL /\ next > slot /\ OnGrid(next)
                             /\ \A u \in slot + 1 .. next - 1 : ~ OnGrid(u)
                        ELSE next = NULL
  BY DEF IntervalRunIsEarliest
<1> DEFINE start == trigger.start
           step == trigger.step
           point == IF slot < start THEN start ELSE slot + step
           horizon == slot + start + step
<1>1. /\ start \in Nat /\ step \in Nat \ {0} /\ slot \in Nat
      /\ trigger.end \in Nat \cup {NULL}
  BY TriggersAssumption DEF ChainInv
<1>2. point \in slot + 1 .. horizon /\ point >= start
  BY <1>1
<1>3. (point - start) % step = 0 /\ \A u \in slot + 1 .. point - 1 : ~OnGrid(u)
  <2>1. CASE slot < start
    <3>1. point - start = step * 0 + 0 /\ 0 \in 0 .. step - 1 /\ 0 \in Int
      BY <1>1, <2>1
    <3>2. (step * 0 + 0) % step = 0
      BY <1>1, <3>1, DivModUnique
    <3>3. \A u \in slot + 1 .. point - 1 : ~(u >= start)
      BY <1>1, <2>1
    <3> QED
      BY <3>1, <3>2, <3>3 DEF OnGrid
  <2>2. CASE ~(slot < start)
    <3> DEFINE x == slot - start
    <3>1. x \in Int /\ x % step = 0 /\ point = slot + step
      BY <1>1, <2>2 DEF OnGrid
    <3>2. (x + step) % step = 0 /\ \A r \in 1 .. step - 1 : (x + r) % step # 0
      BY <1>1, <3>1, NextOnGrid
    <3>3. point - start = x + step
      BY <1>1, <3>1
    <3>4. ASSUME NEW u \in slot + 1 .. point - 1
          PROVE  (u - start) % step # 0
      <4>1. u - slot \in 1 .. step - 1 /\ u - start = x + (u - slot)
        BY <1>1, <3>1
      <4> QED
        BY <3>2, <4>1
    <3> QED
      BY <3>2, <3>3, <3>4 DEF OnGrid
  <2> QED
    BY <2>1, <2>2
<1>4. NextRunAt(trigger, slot) =
        IF trigger.end # NULL /\ point > trigger.end THEN NULL ELSE point
  BY DEF NextRunAt, NextIntervalRun
<1> HIDE DEF point, horizon
<1>5. CASE trigger.end # NULL /\ point > trigger.end
  <2>1. ASSUME NEW u \in slot + 1 .. horizon, OnGrid(u)
        PROVE  FALSE
    <3>1. u <= trigger.end /\ trigger.end \in Nat /\ point \in Int /\ u \in Int
      BY <1>1, <1>2, <1>5, <2>1 DEF OnGrid
    <3>2. u \in slot + 1 .. point - 1
      BY <1>1, <1>5, <2>1, <3>1
    <3> QED
      BY <1>3, <2>1, <3>2
  <2> QED
    BY <1>4, <1>5, <2>1 DEF horizon
<1>6. CASE ~(trigger.end # NULL /\ point > trigger.end)
  <2>1. point \in Int /\ point > slot /\ (trigger.end # NULL => point <= trigger.end)
    BY <1>1, <1>2, <1>6
  <2>2. OnGrid(point)
    BY <1>2, <1>3, <2>1 DEF OnGrid
  <2>3. point # NULL
    BY <2>1, CalendarAssumption
  <2> QED
    BY <1>2, <1>3, <1>4, <1>6, <2>1, <2>2, <2>3 DEF horizon
<1> QED
  BY <1>5, <1>6

(* From its grid, or from before its start, an interval goes to the next point *)
(* of the grid, or to none behind its end: compute_next_interval_run_at does    *)
(* not drift.                                                              *)
THEOREM IntervalRight == Spec => []IntervalRunIsEarliest
  BY ChainInductive, IntervalStep, PTL DEF Spec

-----------------------------------------------------------------------------
(* Days *)

(* The next slot is of this day or of the next one that has the local time.   *)
LEMMA DailyStep ==
  ASSUME ChainInv, ClaimSlot, trigger.type = "daily_time", OnTheWall(slot)
  PROVE  LET zone == trigger.zone
             today == LocalDate(zone, slot)
             next == LocalDate(zone, slot')
             instants(d) == FromLocal(zone, d * DayLength + trigger.time)
         IN  \/ next = today /\ instants(today) = {slot, slot'}
             \/ /\ next > today
                /\ \A d \in today + 1 .. next - 1 : instants(d) = {}
<1> DEFINE zone == trigger.zone
           today == LocalDate(zone, slot)
           local(d) == d * DayLength + trigger.time
<1>1. Calendar /\ IsCalendar(trigger) /\ slot \in Int /\ slot' = NextCalendarRun(trigger, slot)
  BY DEF ChainInv, ClaimSlot, Calendar, IsCalendar, CalendarTypes, NextRunAt
<1>2. PICK date \in Int :
        /\ today <= date /\ slot' \in Candidates(trigger, date, slot)
        /\ \A d \in today .. date - 1 : Candidates(trigger, d, slot) = {}
  BY <1>1, SearchFinds
<1>3. slot' \in Int /\ slot' > slot /\ LocalTime(zone, slot') = local(date)
  BY <1>1, <1>2, CandidatesAre
<1>4. zone \in Zone /\ trigger.time \in 0 .. DayLength - 1
  BY <1>1, TriggersAssumption DEF IsCalendar
<1>5. LocalDate(zone, slot') = date
  BY <1>3, <1>4, WallClock
<1>6. today \in Int /\ LocalTime(zone, slot) = local(today)
  BY <1>1, OnTheWallIs
<1>7. \A d \in Int : local(d) \in Int
  BY <1>4, WallClock
<1>8. CASE date = today
  <2>1. {slot, slot'} \subseteq FromLocal(zone, local(today))
    BY <1>1, <1>3, <1>4, <1>6, <1>7, <1>8, FromLocalIs
  <2>2. slot # slot'
    BY <1>1, <1>3
  <2>3. FromLocal(zone, local(today)) = {slot, slot'}
    BY <2>1, <2>2 DEF FromLocal
  <2> QED
    BY <1>5, <1>8, <2>3
<1>9. CASE date # today
  <2>1. date > today
    BY <1>2, <1>6, <1>9
  <2>2. ASSUME NEW d \in today + 1 .. date - 1, NEW u \in FromLocal(zone, local(d))
        PROVE  FALSE
    <3>1. d \in Int /\ today < d /\ d \in today .. date - 1
      BY <1>6, <2>2
    <3>2. u \in Int /\ LocalTime(zone, u) = local(d)
      BY <1>4, <1>7, <2>2, <3>1, FromLocalIs
    <3>3. slot < u
      BY <1>1, <1>6, <3>1, <3>2, LaterDateIsLater
    <3>4. u \in Candidates(trigger, d, slot)
      BY <1>1, <3>1, <3>2, <3>3, CandidatesAre DEF DateMatches
    <3> QED
      BY <1>2, <3>1, <3>4
  <2> QED
    BY <1>5, <2>1, <2>2
<1> QED
  BY <1>8, <1>9

(* A daily trigger runs once a local day; twice, or not at all, only on a day   *)
(* whose transition repeats, or skips, its time.                            *)
THEOREM DailyRight == Spec => DailyOncePerDay
<1>1. ASSUME ChainInv, [Next]_chain
      PROVE  [ (trigger.type = "daily_time" /\ OnTheWall(slot)) =>
        LET zone == trigger.zone
            today == LocalDate(zone, slot)
            next == LocalDate(zone, slot')
            instants(d) == FromLocal(zone, d * DayLength + trigger.time)
        IN  \/ next = today /\ instants(today) = {slot, slot'}
            \/ /\ next > today
               /\ \A d \in today + 1 .. next - 1 : instants(d) = {} ]_chain
  BY <1>1, DailyStep DEF Next
<1> QED
  BY <1>1, ChainInductive, PTL DEF Spec, DailyOncePerDay

=============================================================================
