-------------------------- MODULE DueWindow_proofs --------------------------
(***************************************************************************)
(* Proofs about DueWindow, for any length of day, week and window, any     *)
(* zones, settings and number of changes, from DueAssumption: nobody is    *)
(* due too early or on a wrong date, and no date is missed that a tick met *)
(* and whose window closes on its day.                                     *)
(***************************************************************************)
EXTENDS DueWindow, TLAPS

USE DueAssumption DEF DueAssumption

(* Quotient and remainder.                                                  *)
LEMMA Division ==
  ASSUME NEW w \in Int
  PROVE  /\ w \div DayLength \in Int /\ w % DayLength \in 0..(DayLength - 1)
         /\ DayLength * (w \div DayLength) \in Int
         /\ w % DayLength = w - DayLength * (w \div DayLength)
<1>1. w \div DayLength \in Int /\ w % DayLength \in 0..(DayLength - 1)
  OBVIOUS
<1>2. DayLength * (w \div DayLength) \in Int
  BY <1>1
<1>3. w % DayLength = w - DayLength * (w \div DayLength)
  OBVIOUS
<1>4. QED
  BY <1>1, <1>2, <1>3, Zenon

LEMMA Multiples ==
  ASSUME NEW p \in Int, NEW q \in Int, p < q
  PROVE  DayLength * p + DayLength <= DayLength * q
OBVIOUS

(* Quotient and remainder are the only ones of their kind.                  *)
LEMMA Unique ==
  ASSUME NEW x \in Int, NEW q \in Int, NEW r \in 0..(DayLength - 1),
         r = x - DayLength * q
  PROVE  x \div DayLength = q /\ x % DayLength = r
<1> DEFINE p == x \div DayLength
           t == x % DayLength
<1>1. /\ p \in Int /\ t \in 0..(DayLength - 1)
      /\ DayLength * p \in Int /\ t = x - DayLength * p
  BY Division
<1>2. DayLength * q \in Int
  OBVIOUS
<1> HIDE DEF p, t
<1>3. ~(p < q)
  BY <1>1, <1>2, Multiples
<1>4. ~(q < p)
  BY <1>1, <1>2, Multiples
<1>5. p = q
  BY <1>1, <1>3, <1>4
<1>6. t = r
  BY <1>1, <1>5
<1>7. QED
  BY <1>5, <1>6 DEF p, t

-----------------------------------------------------------------------------
(* Wall clocks.                                                             *)

(* Wall-clock times are integers, and each has its date and time of day.    *)
LEMMA Calendar ==
  ASSUME TypeOK, NEW u \in Int
  PROVE  /\ Wall(timezone, u) \in Int
         /\ DateShown(u) \in Int /\ DayLength * DateShown(u) \in Int
         /\ TimeShown(u) \in 0..(DayLength - 1)
         /\ TimeShown(u) = Wall(timezone, u) - DayLength * DateShown(u)
<1>1. Wall(timezone, u) \in Int
  BY DEF TypeOK, Wall, Offset
<1>2. QED
  BY <1>1, Division DEF DateShown, TimeShown

LEMMA TimeIsOfDay ==
  ASSUME TypeOK
  PROVE  time \in SendTimes /\ time \in 0..(DayLength - 1)
<1>1. sendTime \in SendTimes \cup {None} /\ streamTime \in SendTimes
  BY DEF TypeOK
<1>2. time \in SendTimes
  BY <1>1 DEF time
<1>3. QED
  BY <1>2

(* A wall-clock time between two midnights is of the day between them.      *)
LEMMA OfDay ==
  ASSUME TypeOK, NEW t \in Int, NEW u \in Int,
         DayLength * t <= Wall(timezone, u),
         Wall(timezone, u) < DayLength * t + DayLength
  PROVE  /\ DateShown(u) = t
         /\ TimeShown(u) = Wall(timezone, u) - DayLength * t
<1> DEFINE m == DayLength * t
           w == Wall(timezone, u)
<1>1. w \in Int /\ m \in Int
  BY Calendar
<1> HIDE DEF m, w
<1>2. w - m \in 0..(DayLength - 1)
  BY <1>1 DEF m, w
<1>3. w \div DayLength = t /\ w % DayLength = w - m
  BY <1>1, <1>2, Unique DEF m
<1>4. QED
  BY <1>3 DEF DateShown, TimeShown, m, w

(* A date is not over while the clock does not show its end.                *)
LEMMA NotAfter ==
  ASSUME TypeOK, NEW t \in Int, NEW u \in Int,
         Wall(timezone, u) < DayLength * t + DayLength
  PROVE  DateShown(u) <= t
<1>1. /\ Wall(timezone, u) \in Int /\ DateShown(u) \in Int
      /\ DayLength * DateShown(u) \in Int
      /\ DayLength * DateShown(u) <= Wall(timezone, u)
  BY Calendar
<1>2. SUFFICES ASSUME t < DateShown(u) PROVE FALSE
  BY <1>1
<1>3. DayLength * t + DayLength <= DayLength * DateShown(u)
  BY <1>1, <1>2, Multiples
<1>4. DayLength * t + DayLength \in Int
  OBVIOUS
<1>5. QED
  BY <1>1, <1>3, <1>4

(* A zone's clock before and after its shift.                               *)
LEMMA TwoOffsets ==
  ASSUME NEW a \in Int, NEW b \in Int, NEW s \in Int,
         NEW zone, zone.before = a, zone.after = b, zone.shift = s
  PROVE  \A v \in Int : /\ v < s => Offset(zone, v) = a /\ Wall(zone, v) = v + a
                        /\ s <= v => Offset(zone, v) = b /\ Wall(zone, v) = v + b
BY DEF Offset, Wall

(* The instant luxon gives for the wall-clock time y, as seen from n.       *)
LEMMA Opening ==
  ASSUME NEW a \in Int, NEW b \in Int, NEW s \in Int,
         NEW zone, zone.before = a, zone.after = b, zone.shift = s,
         NEW y \in Int, NEW n \in Int
  PROVE  /\ n < s /\ y - a < s => instantOf(zone, y, Offset(zone, n)) = y - a
         /\ n < s /\ s <= y - a => /\ instantOf(zone, y, Offset(zone, n)) \in Int
                                   /\ n < instantOf(zone, y, Offset(zone, n))
         /\ s <= n /\ s <= y - b => instantOf(zone, y, Offset(zone, n)) = y - b
         /\ s <= n /\ y - b < s => instantOf(zone, y, Offset(zone, n)) = y - a
<1> DEFINE opens == instantOf(zone, y, Offset(zone, n))
<1>1. \A v \in Int : /\ v < s => Offset(zone, v) = a
                     /\ s <= v => Offset(zone, v) = b
  BY TwoOffsets
<1>2. y - a \in Int /\ y - b \in Int
  OBVIOUS
<1>3. ASSUME n < s, y - a < s PROVE opens = y - a
  BY <1>1, <1>2, <1>3 DEF instantOf
<1>4. ASSUME n < s, s <= y - a PROVE opens \in Int /\ n < opens
  <2>1. Offset(zone, n) = a /\ Offset(zone, y - a) = b
    BY <1>1, <1>2, <1>4
  <2>2. CASE s <= y - b
    <3>1. Offset(zone, y - b) = b
      BY <1>1, <1>2, <2>2
    <3>2. opens = y - b
      BY <2>1, <3>1 DEF instantOf
    <3>3. QED
      BY <1>2, <1>4, <2>2, <3>2
  <2>3. CASE y - b < s
    <3>1. Offset(zone, y - b) = a /\ a < b
      BY <1>1, <1>2, <1>4, <2>3
    <3>2. opens = y - a
      BY <2>1, <3>1 DEF instantOf
    <3>3. QED
      BY <1>2, <1>4, <3>2
  <2>4. QED
    BY <1>2, <2>2, <2>3
<1>5. ASSUME s <= n, s <= y - b PROVE opens = y - b
  BY <1>1, <1>2, <1>5 DEF instantOf
<1>6. ASSUME s <= n, y - b < s PROVE opens = y - a
  <2>1. Offset(zone, n) = b /\ Offset(zone, y - b) = a
    BY <1>1, <1>2, <1>6
  <2>2. CASE y - a < s
    <3>1. Offset(zone, y - a) = a
      BY <1>1, <1>2, <2>2
    <3>2. QED
      BY <2>1, <3>1 DEF instantOf
  <2>3. CASE s <= y - a
    <3>1. Offset(zone, y - a) = b /\ a < b
      BY <1>1, <1>2, <1>6, <2>3
    <3>2. QED
      BY <2>1, <3>1 DEF instantOf
  <2>4. QED
    BY <1>2, <2>2, <2>3
<1>7. QED
  BY <1>3, <1>4, <1>5, <1>6

LEMMA TypeStep == TypeOK /\ [Next]_vars => TypeOK'
<1> SUFFICES ASSUME TypeOK, [Next]_vars PROVE TypeOK'
  OBVIOUS
<1>1. CASE FindDue
  <2>1. clock \in Int /\ Wall(timezone, clock) \in Int
    BY DEF TypeOK, Wall, Offset
  <2>2. localDateFor(clock, timezone) \in Int
    BY <2>1, Division DEF localDateFor
  <2>3. QED
    BY <1>1, <2>2 DEF TypeOK, FindDue, NoteLateTick, settings
<1>2. CASE DeliverToSubscriber
  BY <1>2 DEF TypeOK, DeliverToSubscriber, settings
<1>3. CASE DeliveryFails
  <2>1. disturbedAt' \in 0..clock'
    BY <1>3 DEF TypeOK, DeliveryFails
  <2>2. QED
    BY <1>3, <2>1 DEF TypeOK, DeliveryFails, settings
<1>4. CASE SettingsTime \/ SettingsTimezone \/ UpdateStream \/ Toggle \/ Restart
  <2>1. Change /\ nowUtc' \in {nowUtc, clock} /\ dueOn' \in {dueOn, None}
    BY <1>4 DEF SettingsTime, SettingsTimezone, UpdateStream, Toggle, Restart
  <2>2. /\ changes' \in 0..MaxChanges /\ clock' = clock /\ disturbedAt' = clock
        /\ reserved' = reserved /\ nowUtc' \in 0..clock
    BY <2>1 DEF Change, TypeOK
  <2>3. /\ timezone' \in Zones /\ sendTime' \in SendTimes \cup {None}
        /\ streamTime' \in SendTimes /\ days' \in Schedules
        /\ enabled' \in BOOLEAN
    BY <1>4 DEF SettingsTime, SettingsTimezone, UpdateStream, Toggle, Restart,
                settings, TypeOK
  <2>4. QED
    BY <2>1, <2>2, <2>3 DEF TypeOK
<1>5. CASE Advance
  <2>1. clock' \in 0..Horizon /\ clock' = clock + 1 /\ clock \in Nat
    BY <1>5 DEF Advance, TypeOK
  <2>2. nowUtc' \in 0..clock' /\ disturbedAt' \in 0..clock'
    BY <1>5, <2>1 DEF Advance, TypeOK
  <2>3. QED
    BY <1>5, <2>1, <2>2 DEF TypeOK, Advance, settings
<1>6. CASE UNCHANGED vars
  BY <1>6 DEF TypeOK, vars, settings
<1>7. QED
  BY <1>1, <1>2, <1>3, <1>4, <1>5, <1>6 DEF Next

-----------------------------------------------------------------------------
(* Nobody is due at a wrong time.                                           *)

(* The first instant whose wall-clock time is at or after the send time of  *)
(* date t is the first shown, if it still is of that date.                  *)
LEMMA Reached ==
  ASSUME TypeOK, NEW t \in Int, NEW u \in Int,
         DayLength * t + time <= Wall(timezone, u),
         Wall(timezone, u) < DayLength * t + DayLength,
         \A v \in Int : v < u => Wall(timezone, v) < DayLength * t + time
  PROVE  FirstShown(u) /\ DateShown(u) = t
<1> DEFINE m == DayLength * t
<1>1. m \in Int /\ time \in 0..(DayLength - 1) /\ Wall(timezone, u) \in Int
  BY TimeIsOfDay, Calendar
<1> HIDE DEF m
<1>2. m <= Wall(timezone, u)
  BY <1>1 DEF m
<1>3. DateShown(u) = t /\ TimeShown(u) = Wall(timezone, u) - m
  BY <1>2, OfDay DEF m
<1>4. TimeShown(u) >= time
  BY <1>1, <1>3 DEF m
<1>5. ASSUME NEW v \in Int, v < u, DateShown(v) = t
      PROVE  TimeShown(v) < time
  <2>1. Wall(timezone, v) < m + time /\ Wall(timezone, v) \in Int
    BY <1>5, Calendar DEF m
  <2>2. TimeShown(v) = Wall(timezone, v) - m
    BY <1>5, Calendar DEF m
  <2>3. QED
    BY <1>1, <2>1, <2>2
<1>6. FirstShown(u)
  <2>1. \A v \in (u - 2 * DayLength)..(u - 1) : v \in Int /\ v < u
    OBVIOUS
  <2>2. QED
    BY <1>3, <1>4, <1>5, <2>1 DEF FirstShown
<1>7. QED
  BY <1>3, <1>6

(* An opening that has passed is at or after the first instant that shows   *)
(* its wall-clock time y or later, by no more than the clock jumps.         *)
LEMMA OpenedAfter ==
  ASSUME NEW a \in Int, NEW b \in Int, NEW s \in Int,
         NEW zone, zone.before = a, zone.after = b, zone.shift = s,
         NEW y \in Int, NEW n \in Int,
         instantOf(zone, y, Offset(zone, n)) <= n
  PROVE  /\ instantOf(zone, y, Offset(zone, n)) \in Int
         /\ \E u \in Int :
              /\ u <= n
              /\ \/ instantOf(zone, y, Offset(zone, n)) <= u
                 \/ a < b /\ instantOf(zone, y, Offset(zone, n)) - (b - a) < u
                 \/ b < a /\ instantOf(zone, y, Offset(zone, n)) - (a - b) <= u
              /\ y <= Wall(zone, u) /\ Wall(zone, u) <= Wall(zone, n)
              /\ \A v \in Int : v < u => Wall(zone, v) < y
<1> DEFINE opens == instantOf(zone, y, Offset(zone, n))
<1>1. \A v \in Int : /\ v < s => Wall(zone, v) = v + a
                     /\ s <= v => Wall(zone, v) = v + b
  BY TwoOffsets
<1>2. y - a \in Int /\ y - b \in Int
  OBVIOUS
<1>3. CASE y - a < s /\ opens = y - a
  <2>1. Wall(zone, y - a) = y
    BY <1>1, <1>3
  <2>2. y <= Wall(zone, n)
    <3>1. y <= n + a
      BY <1>3
    <3>2. CASE n < s
      BY <1>1, <3>1, <3>2
    <3>3. CASE s <= n
      <4>1. y - b < s
        BY <1>2, <1>3, <3>3, Opening
      <4>2. QED
        BY <1>1, <3>3, <4>1
    <3>4. QED
      BY <3>2, <3>3
  <2>3. \A v \in Int : v < y - a => Wall(zone, v) < y
    BY <1>1, <1>3
  <2>4. QED
    BY <1>2, <1>3, <2>1, <2>2, <2>3
<1>4. CASE s <= n /\ s <= y - b
  <2>1. opens = y - b
    BY <1>4, Opening
  <2>2. Wall(zone, n) = n + b /\ y <= n + b
    BY <1>1, <1>4, <2>1
  <2>3. CASE y - a < s
    <3>1. b < a /\ y - a <= n /\ opens - (a - b) <= y - a
      BY <1>4, <2>1, <2>3
    <3>2. Wall(zone, y - a) = y
      BY <1>1, <2>3
    <3>3. \A v \in Int : v < y - a => Wall(zone, v) < y
      BY <1>1, <2>3
    <3>4. QED
      BY <1>2, <2>1, <2>2, <3>1, <3>2, <3>3
  <2>4. CASE s <= y - a
    <3>1. Wall(zone, y - b) = y
      BY <1>1, <1>4
    <3>2. \A v \in Int : v < y - b => Wall(zone, v) < y
      BY <1>1, <2>4
    <3>3. QED
      BY <1>2, <2>1, <2>2, <3>1, <3>2
  <2>5. QED
    BY <1>2, <2>3, <2>4
<1>5. CASE s <= n /\ y - b < s /\ s <= y - a
  <2>1. opens = y - a /\ a < b
    BY <1>5, Opening
  <2>2. Wall(zone, s) = s + b /\ Wall(zone, n) = n + b
    BY <1>1, <1>5
  <2>3. y <= s + b /\ s + b <= n + b /\ opens - (b - a) < s
    BY <1>5, <2>1
  <2>4. \A v \in Int : v < s => Wall(zone, v) < y
    BY <1>1, <1>5
  <2>5. QED
    BY <1>5, <2>1, <2>2, <2>3, <2>4
<1>6. QED
  <2>1. CASE n < s
    BY <1>2, <1>3, <2>1, Opening
  <2>2. CASE s <= n
    BY <1>2, <1>3, <1>4, <1>5, <2>2, Opening
  <2>3. QED
    BY <2>1, <2>2

(* Whoever is found due is due: his clock has shown his send time, on the   *)
(* date it shows now, within the window and what the clock has jumped.      *)
LEMMA DueIsShown ==
  ASSUME TypeOK, NEW n \in Int, isWithinDueWindow(n, timezone, time)
  PROVE  \E u \in (n - Window - Jump + 1)..n :
           FirstShown(u) /\ DateShown(u) = DateShown(n)
<1> DEFINE a == timezone.before
           b == timezone.after
           t == DateShown(n)
           y == DayLength * t + time
           opens == instantOf(timezone, y, Offset(timezone, n))
<1>1. a \in Int /\ b \in Int /\ timezone.shift \in Int
  BY DEF TypeOK
<1>2. /\ Wall(timezone, n) \in Int /\ t \in Int /\ DayLength * t \in Int
      /\ Wall(timezone, n) < DayLength * t + DayLength
  <2>1. /\ Wall(timezone, n) \in Int /\ t \in Int /\ DayLength * t \in Int
        /\ TimeShown(n) \in 0..(DayLength - 1)
        /\ TimeShown(n) = Wall(timezone, n) - DayLength * t
    BY Calendar
  <2> HIDE DEF t
  <2>2. QED
    BY <2>1
<1>3. y \in Int
  BY <1>2, TimeIsOfDay
<1>4. opens <= n /\ n < opens + Window
  <2>1. t * DayLength = DayLength * t
    BY <1>2
  <2>2. QED
    BY <2>1 DEF isWithinDueWindow, DateShown
<1> HIDE DEF t, y
<1>5. PICK u \in Int :
        /\ opens \in Int
        /\ u <= n
        /\ \/ opens <= u
           \/ a < b /\ opens - (b - a) < u
           \/ b < a /\ opens - (a - b) <= u
        /\ y <= Wall(timezone, u) /\ Wall(timezone, u) <= Wall(timezone, n)
        /\ \A v \in Int : v < u => Wall(timezone, v) < y
  BY <1>1, <1>3, <1>4, OpenedAfter
<1>6. FirstShown(u) /\ DateShown(u) = t
  <2>1. Wall(timezone, u) \in Int /\ Wall(timezone, u) < DayLength * t + DayLength
    BY <1>2, <1>5, Calendar
  <2>2. y = DayLength * t + time
    BY DEF y
  <2>3. QED
    BY <1>2, <1>5, <2>1, <2>2, Reached
<1>7. u \in (n - Window - Jump + 1)..n
  <2>1. /\ Jump \in Int
        /\ 0 <= Jump /\ b - a <= Jump /\ a - b <= Jump
    BY <1>1 DEF Jump
  <2> HIDE DEF opens, a, b
  <2>2. opens - Jump <= u
    BY <1>1, <1>5, <2>1
  <2>3. n - Window < opens
    BY <1>4, <1>5
  <2>4. QED
    BY <1>5, <2>1, <2>2, <2>3
<1>8. QED
  BY <1>6, <1>7 DEF t

(* PLAN.md 11.2: in every zone, across every change of its clock, a         *)
(* subscriber is found due only on a weekday of the stream by his own       *)
(* calendar, not before his send time and not long after it.                *)
THEOREM DueOnTime == Spec => OnTime
<1>1. Init => TypeOK
  BY DEF Init, TypeOK
<1>2. TypeOK /\ [Next]_vars
        => [dueOn = None /\ dueOn' # None =>
              /\ dueOn' = DateShown(nowUtc')
              /\ dueOn' % WeekLength \in days
              /\ \E u \in (nowUtc' - Window - Jump + 1)..nowUtc' :
                   FirstShown(u) /\ DateShown(u) = dueOn']_vars
  <2> SUFFICES ASSUME TypeOK, Next, dueOn = None, dueOn' # None
               PROVE  /\ dueOn' = DateShown(nowUtc')
                      /\ dueOn' % WeekLength \in days
                      /\ \E u \in (nowUtc' - Window - Jump + 1)..nowUtc' :
                           FirstShown(u) /\ DateShown(u) = dueOn'
    OBVIOUS
  <2>1. FindDue
    BY DEF Next, DeliverToSubscriber, DeliveryFails, SettingsTime, SettingsTimezone, UpdateStream,
           Toggle, Restart, Advance
  <2>2. /\ nowUtc' = clock /\ clock \in Int
        /\ isWithinDueWindow(clock, timezone, time)
        /\ localDayOfWeek(clock, timezone) \in days
        /\ dueOn' = DateShown(clock)
    BY <2>1 DEF FindDue, TypeOK, localDateFor, DateShown
  <2>3. dueOn' % WeekLength \in days
    BY <2>2 DEF localDayOfWeek, DateShown
  <2>4. QED
    BY <2>2, <2>3, DueIsShown
<1>3. TypeOK /\ [Next]_vars => TypeOK'
  BY TypeStep
<1>4. QED
  BY <1>1, <1>2, <1>3, PTL DEF Spec, OnTime

-----------------------------------------------------------------------------
(* No date is missed.                                                       *)

(* When the window of date t opens, as seen from n.                         *)
Opens(t, n) == instantOf(timezone, t * DayLength + time, Offset(timezone, n))

(* The inductive invariant: a date whose send time the last tick has        *)
(* reached is reserved, or it is the one that tick is about to reserve, and *)
(* that one is the date of the tick; or its window has moved ahead of the   *)
(* tick, because the clock was changed in between.                          *)
Ahead(u) == nowUtc < Opens(DateShown(u), nowUtc)

Met ==
  \A u \in (disturbedAt + 1)..nowUtc :
    /\ enabled
    /\ ClosesOnItsDay
    /\ FirstShown(u)
    /\ DateShown(u) % WeekLength \in days
    => DateShown(u) \in reserved \cup {dueOn} \/ Ahead(u)

Pending ==
  disturbedAt < nowUtc /\ dueOn # None => dueOn = DateShown(nowUtc)

DueInv == TypeOK /\ Met /\ Pending

(* The zone and send time of the settings.                                  *)
LEMMA Margins ==
  ASSUME ClosesOnItsDay, TypeOK
  PROVE  /\ timezone.before \in Int /\ timezone.after \in Int /\ timezone.shift \in Int
         /\ time \in 0..(DayLength - 1)
         /\ time + Window + (timezone.after - timezone.before) <= DayLength
         /\ time + Window + (timezone.before - timezone.after) <= DayLength
<1>1. timezone \in Zones /\ time \in SendTimes /\ time \in 0..(DayLength - 1)
  BY TimeIsOfDay DEF TypeOK
<1>2. /\ Jump \in Int
      /\ timezone.after - timezone.before <= Jump
      /\ timezone.before - timezone.after <= Jump
  BY <1>1 DEF Jump
<1>3. QED
  BY <1>1, <1>2 DEF ClosesOnItsDay

(* No instant that shows the date's send time or later comes before u.      *)
LEMMA First ==
  ASSUME ClosesOnItsDay, TypeOK, NEW u \in Int, FirstShown(u), NEW v \in Int,
         DayLength * DateShown(u) + time <= Wall(timezone, v),
         Wall(timezone, v) < DayLength * DateShown(u) + DayLength
  PROVE  u <= v
<1> DEFINE t == DateShown(u)
           m == DayLength * t
<1>1. t \in Int /\ m \in Int /\ time \in 0..(DayLength - 1)
  BY Calendar, TimeIsOfDay
<1>2. /\ Wall(timezone, v) \in Int /\ m + time <= Wall(timezone, v)
      /\ Wall(timezone, v) < m + DayLength
  BY Calendar
<1>3. Wall(timezone, u) \in Int /\ Wall(timezone, u) < m + DayLength
  <2>1. /\ TimeShown(u) \in 0..(DayLength - 1) /\ Wall(timezone, u) \in Int
        /\ TimeShown(u) = Wall(timezone, u) - m
    BY Calendar
  <2> HIDE DEF m
  <2>2. QED
    BY <1>1, <2>1
<1> HIDE DEF t, m
<1>4. DateShown(v) = t /\ TimeShown(v) = Wall(timezone, v) - m
  <2>1. m <= Wall(timezone, v)
    BY <1>1, <1>2
  <2>2. QED
    BY <1>1, <1>2, <2>1, OfDay DEF m
<1>5. SUFFICES ASSUME v < u PROVE FALSE
  OBVIOUS
<1>6. u - 2 * DayLength <= v
  <2>1. PICK o \in Int, p \in Int : /\ Wall(timezone, u) = u + o
                                    /\ Wall(timezone, v) = v + p
                                    /\ p - o < DayLength
    <3>1. /\ Offset(timezone, u) \in {timezone.before, timezone.after}
          /\ Offset(timezone, v) \in {timezone.before, timezone.after}
      BY DEF Offset
    <3>2. Offset(timezone, v) - Offset(timezone, u) < DayLength
      BY <3>1, Margins
    <3>3. QED
      BY <3>1, <3>2, Margins DEF Wall
  <2>2. QED
    BY <1>1, <1>2, <1>3, <2>1
<1>7. v \in (u - 2 * DayLength)..(u - 1)
  BY <1>5, <1>6
<1>8. TimeShown(v) < time
  BY <1>4, <1>7 DEF FirstShown, t
<1>9. QED
  BY <1>1, <1>2, <1>4, <1>8

(* Which instant is the first shown: the one the old offset gives, the one  *)
(* the new one gives, or, if neither does, that of the change.              *)
LEMMA FirstIs ==
  ASSUME ClosesOnItsDay, TypeOK, NEW u \in Int, FirstShown(u),
         NEW a \in Int, NEW b \in Int, NEW s \in Int, NEW y \in Int,
         a = timezone.before, b = timezone.after, s = timezone.shift,
         y = DayLength * DateShown(u) + time
  PROVE  /\ y - a < s => u = y - a
         /\ s <= y - a /\ s <= y - b => u = y - b
         /\ s <= y - a /\ y - b < s => u = s
<1> DEFINE m == DayLength * DateShown(u)
<1>1. \A v \in Int : /\ v < s => Wall(timezone, v) = v + a
                     /\ s <= v => Wall(timezone, v) = v + b
  BY TwoOffsets
<1>2. /\ m \in Int /\ y = m + time /\ time \in 0..(DayLength - 1)
      /\ time + Window + (b - a) <= DayLength
      /\ time + Window + (a - b) <= DayLength
  BY Calendar, Margins
<1>3. y <= Wall(timezone, u)
  <2>1. /\ TimeShown(u) >= time /\ TimeShown(u) = Wall(timezone, u) - m
        /\ Wall(timezone, u) \in Int
    BY Calendar DEF FirstShown
  <2> HIDE DEF m
  <2>2. QED
    BY <1>2, <2>1
<1>4. \A v \in Int : y <= Wall(timezone, v) /\ Wall(timezone, v) < m + DayLength
                       => u <= v
  BY First
<1> HIDE DEF m
<1>5. y < m + DayLength /\ y + (b - a) < m + DayLength
  BY <1>2
<1>6. y - a \in Int /\ y - b \in Int
  OBVIOUS
<1>7. ASSUME y - a < s PROVE u = y - a
  <2>1. Wall(timezone, y - a) = y
    BY <1>1, <1>7
  <2>2. u <= y - a
    BY <1>4, <1>5, <1>6, <2>1
  <2>3. Wall(timezone, u) = u + a
    BY <1>1, <1>7, <2>2
  <2>4. QED
    BY <1>3, <2>2, <2>3
<1>8. ASSUME s <= y - a, s <= y - b PROVE u = y - b
  <2>1. Wall(timezone, y - b) = y
    BY <1>1, <1>8
  <2>2. u <= y - b
    BY <1>4, <1>5, <1>6, <2>1
  <2>3. s <= u
    BY <1>1, <1>3, <1>8
  <2>4. Wall(timezone, u) = u + b
    BY <1>1, <2>3
  <2>5. QED
    BY <1>3, <2>2, <2>4
<1>9. ASSUME s <= y - a, y - b < s PROVE u = s
  <2>1. Wall(timezone, s) = s + b
    BY <1>1
  <2>2. y <= s + b /\ s + b < m + DayLength
    BY <1>2, <1>5, <1>9
  <2>3. u <= s
    BY <1>4, <2>1, <2>2
  <2>4. s <= u
    BY <1>1, <1>3, <1>9
  <2>5. QED
    BY <2>3, <2>4
<1>10. QED
  BY <1>7, <1>8, <1>9

(* The window of a date opens when its send time is first shown or later.   *)
(* Once it is seen to open later still, where it opens no longer moves, and *)
(* the date is not over before it does; while it is open, it is that date.  *)
LEMMA WindowOpens ==
  ASSUME ClosesOnItsDay, TypeOK, NEW u \in Int, FirstShown(u), NEW n \in Int, u <= n
  PROVE  /\ Opens(DateShown(u), n) \in Int /\ u <= Opens(DateShown(u), n)
         /\ n < Opens(DateShown(u), n)
              => /\ DateShown(n) <= DateShown(u)
                 /\ \A l \in Int : n <= l => Opens(DateShown(u), l) = Opens(DateShown(u), n)
         /\ Opens(DateShown(u), n) <= n /\ n < Opens(DateShown(u), n) + Window
              => DateShown(n) = DateShown(u)
<1> DEFINE t == DateShown(u)
           m == DayLength * t
           y == m + time
           a == timezone.before
           b == timezone.after
           s == timezone.shift
<1>1. /\ t \in Int /\ m \in Int /\ time \in 0..(DayLength - 1)
      /\ a \in Int /\ b \in Int /\ s \in Int
      /\ time + Window + (b - a) <= DayLength
      /\ time + Window + (a - b) <= DayLength
  BY Calendar, Margins
<1>2. y \in Int
  BY <1>1
<1>3. \A l \in Int : Opens(t, l) = instantOf(timezone, y, Offset(timezone, l))
  <2>1. t * DayLength = m
    BY <1>1
  <2>2. QED
    BY <2>1 DEF Opens
<1>4. /\ y - a < s => u = y - a
      /\ s <= y - a /\ s <= y - b => u = y - b
      /\ s <= y - a /\ y - b < s => u = s
  BY <1>1, <1>2, FirstIs
<1>5. \A l \in Int : /\ l < s => Wall(timezone, l) = l + a
                     /\ s <= l => Wall(timezone, l) = l + b
  BY <1>1, TwoOffsets
<1>6. \A l \in Int : /\ l < s /\ y - a < s => Opens(t, l) = y - a
                     /\ s <= l /\ s <= y - b => Opens(t, l) = y - b
                     /\ s <= l /\ y - b < s => Opens(t, l) = y - a
  <2> SUFFICES ASSUME NEW l \in Int
               PROVE  /\ l < s /\ y - a < s => Opens(t, l) = y - a
                      /\ s <= l /\ s <= y - b => Opens(t, l) = y - b
                      /\ s <= l /\ y - b < s => Opens(t, l) = y - a
    OBVIOUS
  <2>1. Opens(t, l) = instantOf(timezone, y, Offset(timezone, l))
    BY <1>3
  <2>2. timezone.before = a /\ timezone.after = b /\ timezone.shift = s
    OBVIOUS
  <2> HIDE DEF t, m, y, a, b, s
  <2>3. QED
    BY <1>1, <1>2, <2>1, <2>2, Opening
<1>7. /\ Wall(timezone, n) < m + DayLength => DateShown(n) <= t
      /\ m <= Wall(timezone, n) /\ Wall(timezone, n) < m + DayLength => DateShown(n) = t
  BY <1>1, NotAfter, OfDay
<1> DEFINE Good(o) ==
      /\ o \in Int /\ u <= o
      /\ n < o => /\ Wall(timezone, n) < m + DayLength
                  /\ \A l \in Int : n <= l => Opens(t, l) = o
      /\ o <= n /\ n < o + Window
           => m <= Wall(timezone, n) /\ Wall(timezone, n) < m + DayLength
<1>8. y = m + time
  OBVIOUS
<1> HIDE DEF t, m, y, a, b, s
<1>9. Good(Opens(t, n))
  <2>1. CASE n < s
    <3>1. y - a < s /\ u = y - a
      BY <1>1, <1>2, <1>4, <2>1
    <3>2. Opens(t, n) = y - a /\ Wall(timezone, n) = n + a
      BY <1>5, <1>6, <2>1, <3>1
    <3>3. QED
      BY <1>1, <1>2, <1>8, <3>1, <3>2
  <2>2. CASE s <= n /\ y - b < s
    <3>1. Opens(t, n) = y - a /\ Wall(timezone, n) = n + b
      BY <1>5, <1>6, <2>2
    <3>2. \A l \in Int : n <= l => Opens(t, l) = y - a
      BY <1>1, <1>6, <2>2
    <3>3. u <= y - a
      BY <1>1, <1>2, <1>4, <2>2
    <3>4. QED
      BY <1>1, <1>2, <1>8, <2>2, <3>1, <3>2, <3>3
  <2>3. CASE s <= n /\ s <= y - b
    <3>1. Opens(t, n) = y - b /\ Wall(timezone, n) = n + b
      BY <1>5, <1>6, <2>3
    <3>2. \A l \in Int : n <= l => Opens(t, l) = y - b
      BY <1>1, <1>6, <2>3
    <3>3. u <= y - b
      BY <1>1, <1>2, <1>4, <2>3
    <3>4. QED
      BY <1>1, <1>2, <1>8, <2>3, <3>1, <3>2, <3>3
  <2>4. QED
    BY <1>1, <1>2, <2>1, <2>2, <2>3
<1>10. QED
  BY <1>7, <1>9 DEF t

LEMMA FindDueStep ==
  ASSUME DueInv, FindDue
  PROVE  DueInv'
<1>1. /\ TypeOK /\ clock \in Int /\ nowUtc \in Int /\ disturbedAt \in Int
      /\ nowUtc < clock
  BY DEF DueInv, TypeOK, FindDue
<1>2. UNCHANGED <<timezone, sendTime, streamTime, days, enabled, clock, reserved, changes>>
      /\ nowUtc' = clock /\ dueOn = None
  BY DEF FindDue, settings
<1>0. /\ disturbedAt' \in Int /\ disturbedAt <= disturbedAt'
      /\ clock - Window <= nowUtc \/ clock - Window <= disturbedAt'
  BY <1>1 DEF FindDue, NoteLateTick
<1>3. TypeOK'
  BY <1>1, TypeStep DEF Next
<1>4. \A u \in Int : /\ FirstShown(u)' <=> FirstShown(u)
                     /\ DateShown(u)' = DateShown(u)
                     /\ ClosesOnItsDay' <=> ClosesOnItsDay
                     /\ Ahead(u)' <=> clock < Opens(DateShown(u), clock)
  BY <1>2 DEF FirstShown, TimeShown, DateShown, time, Wall, Offset, Ahead, Opens,
              instantOf, ClosesOnItsDay, Jump
<1>5. ASSUME NEW u \in Int, disturbedAt' + 1 <= u, u <= clock,
             enabled, ClosesOnItsDay, FirstShown(u), DateShown(u) % WeekLength \in days,
             DateShown(u) \notin reserved, Opens(DateShown(u), clock) <= clock
      PROVE  dueOn' = DateShown(u)
  <2> DEFINE t == DateShown(u)
             o == Opens(t, clock)
  <2>1. o \in Int /\ u <= o /\ t \in Int
    BY <1>1, <1>5, WindowOpens, Calendar
  <2>0. u > disturbedAt /\ (clock - Window <= nowUtc \/ clock - Window < u)
    <3> DEFINE x == disturbedAt'
    <3>1. x \in Int /\ x + 1 <= u
      BY <1>0, <1>5, Zenon
    <3>2. disturbedAt <= x /\ (clock - Window <= nowUtc \/ clock - Window <= x)
      BY <1>0, Zenon
    <3>3. clock \in Int /\ nowUtc \in Int /\ disturbedAt \in Int
      BY <1>1, Zenon
    <3> HIDE DEF x
    <3>4. QED
      BY ONLY <3>1, <3>2, <3>3, u \in Int, Window \in Nat
  <2>2. clock < o + Window
    <3>1. CASE nowUtc < u
      <4> HIDE DEF o
      <4>1. clock < u + Window
        BY <1>1, <2>0, <3>1
      <4>2. QED
        BY <1>1, <2>1, <4>1
    <3>2. CASE u <= nowUtc
      <4>0. clock <= nowUtc + Window
        BY <1>1, <2>0, <3>2
      <4>1. u \in (disturbedAt + 1)..nowUtc
        BY <1>1, <2>0, <3>2
      <4>2. Ahead(u)
        BY <1>2, <1>5, <2>1, <4>1 DEF DueInv, Met
      <4>3. nowUtc < Opens(t, nowUtc)
        BY <4>2 DEF Ahead
      <4>4. o = Opens(t, nowUtc)
        BY <1>1, <1>5, <3>2, <4>3, WindowOpens
      <4>5. nowUtc < o
        BY <4>3, <4>4
      <4> HIDE DEF o
      <4>6. QED
        BY <1>1, <2>1, <4>0, <4>5
    <3>3. QED
      BY <1>1, <3>1, <3>2
  <2>3. DateShown(clock) = t
    BY <1>1, <1>5, <2>2, WindowOpens
  <2>4. isWithinDueWindow(clock, timezone, time)
    <3>1. Wall(timezone, clock) \div DayLength = t
      BY <2>3 DEF DateShown
    <3>2. QED
      BY <1>5, <2>2, <3>1 DEF isWithinDueWindow, Opens
  <2>5. localDayOfWeek(clock, timezone) \in days /\ localDateFor(clock, timezone) = t
    BY <1>5, <2>3 DEF localDayOfWeek, localDateFor, DateShown
  <2>6. QED
    BY <1>5, <2>4, <2>5 DEF FindDue
<1>6. Met'
  <2>1. SUFFICES ASSUME NEW u \in Int, disturbedAt' + 1 <= u, u <= clock, enabled,
                        ClosesOnItsDay, FirstShown(u), DateShown(u) % WeekLength \in days
                 PROVE  \/ DateShown(u) \in reserved \cup {dueOn'}
                        \/ clock < Opens(DateShown(u), clock)
    <3> DEFINE x == disturbedAt'
    <3>1. x \in Int /\ clock \in Int
      BY <1>0, <1>1, Zenon
    <3> HIDE DEF x
    <3>2. \A u \in (x + 1)..clock : u \in Int /\ x + 1 <= u /\ u <= clock
      BY ONLY <3>1
    <3>3. QED
      BY <1>2, <1>4, <3>2, Zenon DEF Met, x
  <2>2. Opens(DateShown(u), clock) \in Int
    BY <1>1, <2>1, WindowOpens
  <2>3. QED
    BY <1>1, <1>5, <2>1, <2>2
<1>7. Pending'
  BY <1>2 DEF Pending, FindDue, localDateFor, DateShown, Wall, Offset
<1>8. QED
  BY <1>3, <1>6, <1>7 DEF DueInv

LEMMA DeliverStep ==
  ASSUME DueInv, DeliverToSubscriber
  PROVE  DueInv'
<1>1. TypeOK'
  BY TypeStep DEF DueInv, Next
<1>2. Met'
  BY DEF DueInv, Met, DeliverToSubscriber, settings, FirstShown, TimeShown, DateShown,
         time, Wall, Offset, Ahead, Opens, instantOf, ClosesOnItsDay, Jump
<1>3. Pending'
  BY DEF Pending, DeliverToSubscriber
<1>4. QED
  BY <1>1, <1>2, <1>3 DEF DueInv

(* A delivery that throws starts the promise afresh.                        *)
LEMMA FailStep ==
  ASSUME DueInv, DeliveryFails
  PROVE  DueInv'
<1>1. TypeOK'
  BY TypeStep DEF DueInv, Next
<1>2. /\ nowUtc' = nowUtc /\ disturbedAt' = clock
      /\ nowUtc \in Int /\ clock \in Int /\ nowUtc <= clock
  BY DEF DueInv, TypeOK, DeliveryFails
<1>3. (disturbedAt' + 1)..nowUtc' = {} /\ ~(disturbedAt' < nowUtc')
  BY <1>2
<1>4. Met' /\ Pending'
  BY <1>3 DEF Met, Pending
<1>5. QED
  BY <1>1, <1>4 DEF DueInv

(* A change of the settings, or a restart, starts the promise afresh.       *)
LEMMA ChangeStep ==
  ASSUME DueInv,
         SettingsTime \/ SettingsTimezone \/ UpdateStream \/ Toggle \/ Restart
  PROVE  DueInv'
<1>1. Change /\ nowUtc' \in {nowUtc, clock}
  BY DEF SettingsTime, SettingsTimezone, UpdateStream, Toggle, Restart
<1>2. clock' = clock /\ disturbedAt' = clock
  BY <1>1 DEF Change
<1>3. TypeOK'
  BY TypeStep DEF DueInv, Next
<1>4. Met' /\ Pending'
  BY <1>1, <1>2 DEF DueInv, TypeOK, Met, Pending
<1>5. QED
  BY <1>3, <1>4 DEF DueInv

LEMMA QuietStep ==
  ASSUME DueInv, Advance \/ UNCHANGED vars
  PROVE  DueInv'
<1>1. UNCHANGED <<nowUtc, dueOn, reserved, settings, disturbedAt, changes>>
  BY DEF Advance, vars
<1>2. TypeOK'
  BY TypeStep DEF DueInv, Next
<1>3. Met'
  BY <1>1 DEF DueInv, Met, settings, FirstShown, TimeShown, DateShown, time, Wall,
              Offset, Ahead, Opens, instantOf, ClosesOnItsDay, Jump
<1>4. Pending'
  BY <1>1 DEF DueInv, Pending, settings, DateShown, Wall, Offset
<1>5. QED
  BY <1>1, <1>2, <1>3, <1>4 DEF DueInv

(* schedule-time.ts:58, 61: across every change of the clock no scheduled   *)
(* date is missed, however the ticks drift: but one whose window no tick    *)
(* met, whose delivery threw, whose settings were changed after its send    *)
(* time, or whose window may reach into the next day.                       *)
THEOREM NothingMissed == Spec => []NoDayMissed
<1>1. Init => DueInv
  BY DEF Init, DueInv, TypeOK, Met, Pending
<1>2. DueInv /\ [Next]_vars => DueInv'
  BY FindDueStep, DeliverStep, FailStep, ChangeStep, QuietStep DEF Next
<1>3. DueInv => NoDayMissed
  <2>1. SUFFICES ASSUME DueInv, NEW u \in (disturbedAt + 1)..nowUtc, enabled,
                        ClosesOnItsDay, FirstShown(u), DateShown(u) % WeekLength \in days,
                        DateShown(u) < DateShown(nowUtc)
                 PROVE  DateShown(u) \in reserved
    BY DEF NoDayMissed
  <2>2. disturbedAt < nowUtc /\ u \in Int /\ nowUtc \in Int /\ u <= nowUtc
    BY <2>1 DEF DueInv, TypeOK
  <2>3. DateShown(u) \in Int /\ DateShown(nowUtc) \in Int
    BY <2>1, <2>2, Calendar DEF DueInv
  <2>4. ~Ahead(u)
    <3>1. Ahead(u) => DateShown(nowUtc) <= DateShown(u)
      BY <2>1, <2>2, WindowOpens DEF DueInv, Ahead
    <3>2. QED
      BY <2>1, <2>3, <3>1
  <2>5. DateShown(u) \in reserved \cup {dueOn}
    BY <2>1, <2>4 DEF DueInv, Met
  <2>6. DateShown(u) # dueOn
    BY <2>1, <2>2, <2>3 DEF DueInv, Pending
  <2>7. QED
    BY <2>5, <2>6
<1>4. QED
  BY <1>1, <1>2, <1>3, PTL DEF Spec
=============================================================================
