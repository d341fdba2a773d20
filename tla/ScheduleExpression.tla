-------------------------- MODULE ScheduleExpression --------------------------
(***************************************************************************)
(* The pure arithmetic of schedules: the first run a schedule expression   *)
(* asks for after an instant (schedule_expression.rs).                     *)
(*                                                                         *)
(* Time is counted in slots, one slot standing for a minute.  A local day  *)
(* has DaySlots of them, a local week WeekDays days, and the months have   *)
(* the lengths MonthDays, over and over.  A time zone has two UTC offsets  *)
(* and changes from one to the other at the instant Change: a rise leaves  *)
(* a gap of local times that never happen, a fall repeats a stretch of     *)
(* them.  Text is parsed away: an expression is a record.                  *)
(***************************************************************************)
EXTENDS Integers, Sequences, FiniteSetsExt

CONSTANTS
    DaySlots,       \* slots of a local day (1440 in the code)
    WeekDays,       \* days of a week (7)
    MonthDays,      \* a sequence: the lengths of the months of a year
    Change,         \* the instant at which a zone changes its offset
    Reach,          \* how far past a missing local time the code looks (120)
    CronReach       \* how far ahead a cron expression is searched (366 days)

ASSUME CalendarAssumption ==
    /\ DaySlots \in Nat \ {0} /\ WeekDays \in Nat \ {0}
    /\ MonthDays \in Seq(Nat \ {0}) /\ Len(MonthDays) > 0
    /\ Change \in Nat /\ Reach \in Nat /\ CronReach \in Nat \ {0}

None == -1          \* Option::None
Err == -2           \* Result::Err

\* What the parser of expressions lets through.
Expression ==
    [kind : {"interval", "days", "months"}, amount : Nat \ {0}]
        \union [kind : {"daily"}, at : 0..DaySlots - 1]
        \union [kind : {"cron"}, slots : SUBSET Nat, days : SUBSET Nat]
        \union [kind : {"once"}, at : Nat]

\* A clock is set back by less than a day, and instants are counted from a day
\* on which no local time is negative.
Zone == {z \in [before : Nat, after : Nat] : z.before - z.after < DaySlots}

-----------------------------------------------------------------------------
(* Zones, as chrono and chrono_tz present them.                            *)

\* with_timezone(&zone).naive_local()
LocalAt(zone, t) == t + (IF t < Change THEN zone.before ELSE zone.after)

\* zone.from_local_datetime(&local): no instant in a gap (LocalResult::None),
\* two in an overlap (Ambiguous), otherwise one (Single).
FromLocal(zone, local) ==
    {t \in {local - zone.before, local - zone.after} : t \in Nat /\ LocalAt(zone, t) = local}

Single(instants) == \E t \in instants : instants = {t}

-----------------------------------------------------------------------------
(* Daily schedules.                                                        *)

\* The local time "at" on the day "days" after the local day of "after".
DailyLocal(zone, at, after, days) ==
    (LocalAt(zone, after) \div DaySlots + days) * DaySlots + at

\* The first of the local times from "low" to "high" slots past "local" that
\* names one instant after "after".
FirstSingleAfter(zone, local, low, high, after) ==
    LET hits == {n \in low..high :
                    /\ Single(FromLocal(zone, local + n))
                    /\ Min(FromLocal(zone, local + n)) > after}
    IN  IF hits = {} THEN None ELSE Min(FromLocal(zone, local + Min(hits)))

ResolveDailyTimezoneCandidate(zone, local, after) ==
    LET instants == FromLocal(zone, local)
    IN  IF instants = {} THEN FirstSingleAfter(zone, local, 1, Reach, after)
        ELSE IF Min(instants) > after THEN Min(instants) ELSE None

\* The first answer that is not None, in the order of days, else Err.
FirstDay(candidate) ==
    LET hits == {d \in DOMAIN candidate : candidate[d] /= None}
    IN  IF hits = {} THEN Err ELSE candidate[Min(hits)]

NextDailyRunAfterInTimezone(zone, at, after) ==
    FirstDay([d \in 0..2 |->
        ResolveDailyTimezoneCandidate(zone, DailyLocal(zone, at, after, d), after)])

\* The device-local form, used by schedules that are not routines: a missing
\* local time is not moved, its day is passed over (0..370 in the code).
NextDailyRunAfter(zone, at, after) ==
    FirstDay([d \in 0..3 |->
        LET instants == FromLocal(zone, DailyLocal(zone, at, after, d))
        IN  IF instants /= {} /\ Min(instants) > after THEN Min(instants) ELSE None])

-----------------------------------------------------------------------------
(* Cron schedules: slots of the day, and days of the week.  The fields for *)
(* the day of the month and the month restrict the day in the same way.    *)

CronMatches(expr, local) ==
    /\ local % DaySlots \in expr.slots
    /\ (local \div DaySlots) % WeekDays \in expr.days

\* Mutant: both instants of a repeated local time count.
IsAnyTimezoneOccurrence(zone, t) == t \in FromLocal(zone, LocalAt(zone, t))

IsFirstTimezoneOccurrence(zone, t) ==
    Single(FromLocal(zone, LocalAt(zone, t))) \/ t = Min(FromLocal(zone, LocalAt(zone, t)))

FirstOf(candidates) == IF candidates = {} THEN Err ELSE Min(candidates)

NextCronRunAfterInTimezone(expr, zone, after) ==
    FirstOf({t \in after + 1 .. after + CronReach :
                CronMatches(expr, LocalAt(zone, t)) /\ IsFirstTimezoneOccurrence(zone, t)})

NextCronRunAfter(expr, zone, after) ==
    FirstOf({t \in after + 1 .. after + CronReach : CronMatches(expr, LocalAt(zone, t))})

-----------------------------------------------------------------------------
(* Calendar intervals: every n days, weeks, months, quarters or years.     *)

\* The length of a month, and the day on which it starts.
MonthLength(month) == MonthDays[(month % Len(MonthDays)) + 1]

MonthStart[month \in Nat] ==
    IF month = 0 THEN 0 ELSE MonthStart[month - 1] + MonthLength(month - 1)

MonthOf(day) == CHOOSE m \in 0..day : MonthStart[m] <= day /\ day < MonthStart[m + 1]

AddMonthsClamped(local, months) ==
    LET day == local \div DaySlots
        month == MonthOf(day)
        target == month + months
        dayOfMonth == Min({day - MonthStart[month], MonthLength(target) - 1})
    IN  (MonthStart[target] + dayOfMonth) * DaySlots + (local % DaySlots)

ShiftedCalendarLocal(local, expr) ==
    IF expr.kind = "days" THEN local + expr.amount * DaySlots
                          ELSE AddMonthsClamped(local, expr.amount)

ResolveTimezoneLocalAfter(zone, local, after) ==
    LET later(n) == {t \in FromLocal(zone, local + n) : t > after}
        hits == {n \in 0..Reach : later(n) /= {}}
    IN  IF hits = {} THEN Err ELSE Min(later(Min(hits)))

\* The two forms, of a routine's zone and of the device's, have one body.
NextCalendarIntervalRunAfter(expr, zone, after) ==
    ResolveTimezoneLocalAfter(zone, ShiftedCalendarLocal(LocalAt(zone, after), expr), after)

-----------------------------------------------------------------------------
(* The two entry points.                                                   *)

NextRunAfterInTimezone(expr, zone, after) ==
    CASE expr.kind = "once"              -> IF expr.at > after THEN expr.at ELSE Err
      [] expr.kind = "interval"          -> after + expr.amount
      [] expr.kind \in {"days","months"} -> NextCalendarIntervalRunAfter(expr, zone, after)
      [] expr.kind = "daily"             -> NextDailyRunAfterInTimezone(zone, expr.at, after)
      [] expr.kind = "cron"              -> NextCronRunAfterInTimezone(expr, zone, after)

NextRunAfter(expr, zone, after) ==
    CASE expr.kind = "interval"          -> after + expr.amount
      [] expr.kind \in {"days","months"} -> NextCalendarIntervalRunAfter(expr, zone, after)
      [] expr.kind = "daily"             -> NextDailyRunAfter(zone, expr.at, after)
      [] expr.kind = "cron"              -> NextCronRunAfter(expr, zone, after)
      [] expr.kind = "once"              -> Err
=============================================================================
