----------------------------- MODULE DueWindow ------------------------------
(***************************************************************************)
(* When a subscriber is due: scheduler ticks, local wall-clock time with   *)
(* daylight saving, the due window and the settings that move it           *)
(* (src/streams/streams.service.ts findDueStreamSubscribers,               *)
(* src/common/utils/schedule-time.ts, src/scheduler/scheduler.service.ts). *)
(*                                                                         *)
(* One subscriber of one stream.  Instants are UTC, in any unit; a zone is *)
(* an offset that changes at most once.                                    *)
(***************************************************************************)
EXTENDS Integers

CONSTANTS
  DayLength,   \* of a local day
  WeekLength,  \* in days
  Window,      \* SCHEDULER_INTERVAL_MINUTES, which is the due window as well
  Zones,       \* zones a subscriber may be in: [before, after, shift]
  SendTimes,   \* values of sendTime, streams' and subscribers'
  Schedules,   \* weekdays a stream sends on; all of them when it is DAILY
  None,        \* no personal sendTime, no due date
  Horizon,     \* bound: last instant
  MaxChanges   \* bound: changed settings and restarts, together

ASSUME DueAssumption ==
  /\ DayLength \in Nat \ {0} /\ WeekLength \in Nat \ {0} /\ Window \in Nat \ {0}
  /\ Zones \subseteq [before: Int, after: Int, shift: Int]
  /\ SendTimes \subseteq 0..(DayLength - 1)
  /\ Schedules \subseteq SUBSET (0..(WeekLength - 1))
  /\ None \notin Int
  /\ Horizon \in Nat /\ MaxChanges \in Nat

VARIABLES
  clock,      \* Clock.now()
  nowUtc,     \* the instant the latest tick captured; at first, the start
  dueOn,      \* the local date of the pair on the tick's due list
  reserved,   \* local dates with a ContentDelivery for the subscriber
  timezone,   \* UserSubscriber.timezone
  sendTime,   \* UserSubscriber.sendTime, None for the stream's
  streamTime, \* ScheduleStream.sendTime
  days,       \* ScheduleStream.frequency and daysOfWeek
  enabled,    \* stream enabled, workspace active, subscriber active
  disturbedAt,\* history: the last instant whose delivery may be lost, to a changed
              \* setting, a restart, a failed delivery or a late tick
  changes     \* bound

settings == <<timezone, sendTime, streamTime, days, enabled>>
vars == <<clock, nowUtc, dueOn, reserved, settings, disturbedAt, changes>>

-----------------------------------------------------------------------------
(* schedule-time.ts, and what it takes from luxon.                         *)

Offset(zone, u) == IF u < zone.shift THEN zone.before ELSE zone.after
Wall(zone, u) == u + Offset(zone, u)

(* Mutant: the date is taken from the UTC clock. *)
localDateForUtc(u, zone) == u \div DayLength

localDateFor(u, zone) == Wall(zone, u) \div DayLength

localDayOfWeek(u, zone) == (Wall(zone, u) \div DayLength) % WeekLength

(* luxon's instant for a wall-clock time, guessed from an offset: a wall    *)
(* time that occurs twice is the one on this side of the shift, one that    *)
(* does not occur is moved forward.                                         *)
instantOf(zone, wall, offset) ==
  LET o2 == Offset(zone, wall - offset)
      o3 == Offset(zone, wall - o2)
  IN  IF o2 = offset \/ o3 = o2 THEN wall - o2
      ELSE wall - (IF o2 < o3 THEN o2 ELSE o3)

(* Mutant: offset arithmetic with the offset of the moment. *)
isWithinDueWindowNaive(u, zone, time) ==
  LET windowOpens == localDateFor(u, zone) * DayLength + time - Offset(zone, u)
  IN  windowOpens <= u /\ u < windowOpens + Window

isWithinDueWindow(u, zone, time) ==
  LET today == Wall(zone, u) \div DayLength
      windowOpens == instantOf(zone, today * DayLength + time, Offset(zone, u))
  IN  windowOpens <= u /\ u < windowOpens + Window

-----------------------------------------------------------------------------
time == IF sendTime = None THEN streamTime ELSE sendTime

Init ==
  /\ clock = 0 /\ nowUtc = 0 /\ disturbedAt = 0 /\ changes = 0
  /\ dueOn = None
  /\ reserved = {}
  /\ timezone \in Zones
  /\ sendTime \in SendTimes \cup {None}
  /\ streamTime \in SendTimes
  /\ days \in Schedules
  /\ enabled \in BOOLEAN

(* History: after a gap of more than a window, the windows that closed      *)
(* before this tick have been met by none.                                  *)
NoteLateTick ==
  disturbedAt' = IF clock - Window > nowUtc /\ clock - Window > disturbedAt
                 THEN clock - Window ELSE disturbedAt

(* runTick captures now and queries the due list; the pair it finds is kept *)
(* as it is until the tick reaches it.                                      *)
FindDue ==
  /\ dueOn = None
  /\ clock > nowUtc
  /\ nowUtc' = clock
  /\ dueOn' = IF /\ enabled
                 /\ localDayOfWeek(clock, timezone) \in days
                 /\ isWithinDueWindow(clock, timezone, time)
              THEN localDateFor(clock, timezone) ELSE None
  /\ NoteLateTick
  /\ UNCHANGED <<clock, reserved, settings, changes>>

(* deliverToSubscriber: a date that has its delivery is left alone.         *)
DeliverToSubscriber ==
  /\ dueOn # None
  /\ reserved' = reserved \cup {dueOn}
  /\ dueOn' = None
  /\ UNCHANGED <<clock, nowUtc, settings, disturbedAt, changes>>

(* It throws before the date has its delivery: runTick logs that and goes   *)
(* on.  The next tick finds the date due only if its window is still open.  *)
DeliveryFails ==
  /\ dueOn # None
  /\ dueOn' = None
  /\ disturbedAt' = clock
  /\ UNCHANGED <<clock, nowUtc, reserved, settings, changes>>

-----------------------------------------------------------------------------
Change ==
  /\ changes < MaxChanges
  /\ changes' = changes + 1
  /\ disturbedAt' = clock
  /\ UNCHANGED <<clock, reserved>>

(* /settings time, or the admin's PATCH; null clears the override.          *)
SettingsTime ==
  /\ Change
  /\ sendTime' \in SendTimes \cup {None}
  /\ UNCHANGED <<nowUtc, dueOn, timezone, streamTime, days, enabled>>

SettingsTimezone ==
  /\ Change
  /\ timezone' \in Zones
  /\ UNCHANGED <<nowUtc, dueOn, sendTime, streamTime, days, enabled>>

UpdateStream ==
  /\ Change
  /\ streamTime' \in SendTimes
  /\ days' \in Schedules
  /\ UNCHANGED <<nowUtc, dueOn, timezone, sendTime, enabled>>

(* Subscribe and unsubscribe, stream enable and disable, uninstall.         *)
Toggle ==
  /\ Change
  /\ enabled' = ~enabled
  /\ UNCHANGED <<nowUtc, dueOn, timezone, sendTime, streamTime, days>>

(* The process starts again: its first tick is an interval away, the due    *)
(* list of the tick under way is gone.                                      *)
Restart ==
  /\ Change
  /\ nowUtc' = clock
  /\ dueOn' = None
  /\ UNCHANGED settings

(* Nothing bounds the time between two ticks: the process may be busy, and  *)
(* a tick that finds the lock taken does nothing.                           *)
Advance ==
  /\ clock < Horizon
  /\ clock' = clock + 1
  /\ UNCHANGED <<nowUtc, dueOn, reserved, settings, disturbedAt, changes>>

Next ==
  \/ FindDue
  \/ DeliverToSubscriber
  \/ DeliveryFails
  \/ SettingsTime
  \/ SettingsTimezone
  \/ UpdateStream
  \/ Toggle
  \/ Restart
  \/ Advance

Spec == Init /\ [][Next]_vars

-----------------------------------------------------------------------------
(* Properties, by the subscriber's own wall clock and calendar.            *)

TypeOK ==
  /\ clock \in 0..Horizon /\ nowUtc \in 0..clock
  /\ dueOn \in Int \cup {None}
  /\ reserved \subseteq Int
  /\ timezone \in Zones
  /\ sendTime \in SendTimes \cup {None}
  /\ streamTime \in SendTimes
  /\ days \in Schedules
  /\ enabled \in BOOLEAN
  /\ disturbedAt \in 0..clock /\ changes \in 0..MaxChanges

DateShown(u) == Wall(timezone, u) \div DayLength
TimeShown(u) == Wall(timezone, u) % DayLength

(* The first instant of its date at which the clock shows time or later.    *)
FirstShown(u) ==
  /\ TimeShown(u) >= time
  /\ \A v \in (u - 2 * DayLength)..(u - 1) :
       DateShown(v) = DateShown(u) => TimeShown(v) < time

(* What a changed clock adds to the end of a window.                        *)
Jump == LET by == timezone.after - timezone.before
        IN  IF by < 0 THEN 0 - by ELSE by

ClosesOnItsDay == time + Window + Jump <= DayLength

(* schedule-time.ts:58, 61: no date on the schedule is skipped, late tick   *)
(* or daylight saving, if nobody touched the settings after its send time,  *)
(* its delivery did not throw, some tick met its window, and the window     *)
(* does not reach into the next day.                                        *)
NoDayMissed ==
  \A u \in (disturbedAt + 1)..nowUtc :
    /\ enabled
    /\ ClosesOnItsDay
    /\ FirstShown(u)
    /\ DateShown(u) % WeekLength \in days
    /\ DateShown(u) < DateShown(nowUtc)
    => DateShown(u) \in reserved

(* PLAN.md 11.2: a subscriber is due on the date and weekday of his own     *)
(* calendar, never before his send time, and is not backfilled after it.    *)
OnTime ==
  [][dueOn = None /\ dueOn' # None =>
       /\ dueOn' = DateShown(nowUtc')
       /\ dueOn' % WeekLength \in days
       /\ \E u \in (nowUtc' - Window - Jump + 1)..nowUtc' :
            FirstShown(u) /\ DateShown(u) = dueOn']_vars
=============================================================================
