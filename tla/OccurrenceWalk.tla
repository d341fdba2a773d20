---------------------------- MODULE OccurrenceWalk ----------------------------
(***************************************************************************)
(* One schedule over a long time: it is created, the application sleeps or *)
(* is closed for any while, and every tick of the scheduler claims what is *)
(* due, skips or runs it, and stores the next run.  Ticks are atomic and   *)
(* every run completes; RoutineScheduler has the interleavings.            *)
(***************************************************************************)
EXTENDS Recurrence, FiniteSets

CONSTANTS
    Schedules,      \* the schedules a user may create
    Starts,         \* the instants at which one is created
    Naps,           \* how long the application may sleep
    Horizon         \* the model's last instant

ASSUME WalkAssumption ==
    /\ Horizon \in Nat /\ Starts \subseteq 0..Horizon /\ Naps \subseteq Nat
    /\ MaxCatchUp >= Horizon

ASSUME ScheduleAssumption == Schedules \subseteq Schedule

VARIABLES
    sched,          \* the schedule
    created,        \* [at, first]: when it was created and its first occurrence
    now,            \* the wall clock
    active,         \* is_active
    next,           \* next_run_at_ms, or None
    ran             \* the occurrences that ran

vars == <<sched, created, now, active, next, ran>>

\* repository::create (recurring or one-shot; with run_once_after_create the
\* first occurrence is the creation itself) and, for a schedule that is not a
\* routine, sync_workflow_schedule_from_visual_state.
Create(s, at, runOnceAfterCreate) ==
    LET scheduled == ScheduleCandidateAfter(s, at)
        first == IF s.routine /\ runOnceAfterCreate THEN at ELSE scheduled
    IN  /\ scheduled /= Err
        /\ s.end /= None => (at < s.end /\ first < s.end)
        /\ sched = s /\ now = at /\ next = first /\ active = TRUE
        /\ created = [at |-> at, first |-> first] /\ ran = {}

Init == \E s \in Schedules, at \in Starts, b \in BOOLEAN : Create(s, at, b)

Sleep(nap) ==
    /\ now + nap <= Horizon
    /\ now' = now + nap
    /\ UNCHANGED <<sched, created, active, next, ran>>

\* finish_routine_at_end_boundary
Finish ==
    active' = FALSE /\ next' = None

\* release_claimed_at_next_future_occurrence
ReleaseClaimed ==
    \E later \in {FirstRunAfterNowFromOccurrence(sched, next, now)} \ {Err} :
        IF later = None THEN Finish ELSE next' = later /\ active' = active

\* run_claimed_schedule for each planned occurrence, every one completing.
RunPlan ==
    \E plan \in {ClaimedOccurrencesAt(sched, next, None, now)} :
        LET last == plan[Len(plan)].next
            terminal == last = None /\ (sched.oneShot \/ sched.end /= None)
        IN  /\ last /= Err
            /\ ran' = ran \union {plan[k].for : k \in 1..Len(plan)}
            /\ next' = last
            /\ active' = (active /\ ~(sched.routine /\ terminal))

\* run_scheduler_tick for one schedule.  A tick that finds no next run (Err)
\* fails before it has run or stored anything: the row keeps its due occurrence
\* and is claimed again when the claim has expired.
Tick ==
    /\ active
    /\ UNCHANGED <<sched, created, now>>
    /\ \/ /\ sched.routine /\ Ended(sched, now)
          /\ Finish /\ UNCHANGED ran
       \/ /\ ~(sched.routine /\ Ended(sched, now))
          /\ next /= None /\ next <= now
          /\ \/ /\ sched.routine
                /\ OutsideActiveWindow(sched, now) \/ MissedBySkipPolicy(sched, next, now)
                /\ ReleaseClaimed /\ UNCHANGED ran
             \/ /\ ~(sched.routine /\ (OutsideActiveWindow(sched, now)
                                       \/ MissedBySkipPolicy(sched, next, now)))
                /\ RunPlan

Next == Tick \/ \E nap \in Naps : Sleep(nap)

Spec == Init /\ [][Next]_vars

-----------------------------------------------------------------------------
(* Properties.                                                             *)

\* The occurrences of a schedule that was never late: its cadence.
Cadence ==
    LET path == Successors(sched, created.first, Horizon)
    IN  {path[k] : k \in 1..Len(path)} \ {None, Err}

\* Whatever was missed, slept over, skipped or caught up, each run stands for
\* an occurrence of the cadence fixed at creation, and so does the next one:
\* first_run_after_now_from_occurrence and claimed_occurrences_at never let a
\* schedule drift with the wall clock.
StaysOnCadence ==
    ran \union (IF next \in 0..Horizon THEN {next} ELSE {}) \subseteq Cadence

\* The division that moves a fixed interval past now lands where the loop of
\* single successors would, the end boundary included.
ShortcutIsIteration ==
    next /= None =>
        FirstRunAfterNowFromOccurrence(sched, next, now) = IteratedRunAfterNow(sched, next, now)

\* A tick leaves no occurrence of a routine due: the backlog beyond the cap is
\* dropped, never run again and never left to the next tick, and what a tick
\* does run is later than everything that ran before it.
CatchesUp ==
    [][Tick => /\ sched.routine => (next' = None \/ next' > now)
               /\ \A o \in ran' \ ran, p \in ran : o > p
               /\ \A o \in ran' : next' = None \/ next' > o]_vars

\* Run-each runs a missed occurrence unless the cap is exhausted, oldest first:
\* the cadence has no hole below what a tick ran, and a tick that ran fewer
\* than the cap left nothing due behind.
RunEachLeavesNoHole ==
    [][Tick /\ sched.policy = "run_each" /\ sched.routine /\ ran' /= ran =>
         LET new == ran' \ ran
             due == {o \in Cadence : next <= o /\ o <= now}
         IN  /\ \A o \in due : o <= Max(new) => o \in new
             /\ Cardinality(new) = Min({sched.cap, Cardinality(due)})]_vars

\* A clock set back repeats local times; a daily, cron or calendar schedule
\* does not repeat the run (timezone_daily_runs_once_during_a_fall_back_overlap
\* and its cron twin, at every time of day and from every start).
OverlapRunsOnce ==
    sched.routine /\ sched.expr.kind /= "interval" =>
        \A o, p \in ran \ {created.at} :
            LocalAt(sched.zone, o) = LocalAt(sched.zone, p) => o = p

\* A recurring schedule is retired only by its end boundary: one with none
\* always has a next run, and one that stops has no occurrence left before the
\* boundary that it has not passed.
RetiresOnlyAtItsEnd ==
    next = None =>
        \/ sched.oneShot
        \/ /\ sched.end /= None
           /\ Ended(sched, now) \/ (\A o \in Cadence : o >= sched.end \/ o <= now)

\* What the summary of a daily routine says ("Every day at ..."): it runs once
\* on a local day.
OncePerLocalDay ==
    sched.expr.kind = "daily" =>
        \A o, p \in ran \ {created.at} :
            LocalAt(sched.zone, o) \div DaySlots = LocalAt(sched.zone, p) \div DaySlots => o = p
=============================================================================
