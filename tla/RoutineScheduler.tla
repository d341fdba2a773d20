--------------------------- MODULE RoutineScheduler ---------------------------
(***************************************************************************)
(* The routine scheduler: one thread that sleeps, is woken or polls, takes *)
(* the scheduler lease, claims a due routine and runs the occurrences of   *)
(* its plan; the commands with which a user changes the same row while the *)
(* thread works; the thread that finishes a run after an approval; and a   *)
(* process that may die at any point and start again                       *)
(* (workflow_scheduler.rs and its modules, routines/).                     *)
(*                                                                         *)
(* Every transaction is an action of its own.  There is one routine, a     *)
(* recurring one with a fixed interval, whose terminal delivery is not     *)
(* gated (RoutineDelivery has that part).  Schedules of every other kind   *)
(* are walked over in OccurrenceWalk.                                      *)
(***************************************************************************)
EXTENDS Recurrence, FiniteSets

CONSTANTS
    Interval,       \* the routine's interval
    RunOnceAfterCreate, \* is it due as soon as it is created?
    Policy, Cap,    \* missed_run_policy and missed_run_cap
    EndAt,          \* the end boundary, or None
    Threshold,      \* failure_threshold
    Backoff,        \* TRANSIENT_RETRY_BACKOFF_MS
    OwnerLease,     \* how long the scheduler lease lasts (90 s)
    ClaimLease,     \* CLAIM_LEASE_MS
    Outcomes,       \* the ways a run can end in this model
    Commands,       \* the commands the user gives in this model
    MaxEvents,      \* how many commands, failed ticks and crashes there are
    Horizon,        \* the last instant of a command, a failure or a crash
    MaxTime         \* the last instant of the clock

ASSUME SchedulerAssumption ==
    /\ {Interval, Cap, Threshold, Backoff, OwnerLease, ClaimLease} \subseteq Nat \ {0}
    /\ Policy \in {"skip", "run_once", "run_each"}
    /\ Outcomes \subseteq
         {"Completed", "Failed", "Transient", "AwaitingApproval", "Unverified", "Error"}
    /\ Commands \subseteq {"pause", "resume", "update", "run_now", "delete", "approve"}
    /\ MaxEvents \in Nat /\ Horizon \in Nat /\ MaxTime \in Nat /\ Horizon <= MaxTime

Routine ==
    [routine |-> TRUE, oneShot |-> FALSE, expr |-> [kind |-> "interval", amount |-> Interval],
     zone |-> [before |-> 0, after |-> 0], policy |-> Policy, cap |-> Cap, end |-> EndAt,
     window |-> <<>>]

VARIABLES
    now,            \* unix_time_ms()
    row,            \* the routine's row of workflow_schedules
    runs,           \* its routine_runs with their instances, oldest first
    lease,          \* scheduler_owner_lease
    owner,          \* the id of the living process
    sch,            \* the scheduler thread
    poll, wake,     \* should_poll, and a Wake in the control channel
    perm,           \* the thread that resolves an approval
    events,         \* how many commands and failed accesses there were,
    crashes,        \* and how many crashes
    anchors,        \* history: where the user fixed the cadence,
    asked,          \* where Run Now asked for a run,
    drift,          \* and where a transient failure put the next one
    reopened,       \* history: made active again since the threshold was hit
    left            \* history: the tick that made the claim has failed or died

schedVars == <<sch, poll, wake>>
dbVars == <<row, runs, lease>>
history == <<anchors, asked, drift, reopened, left>>
bounds == <<events, crashes>>
vars == <<now, dbVars, owner, schedVars, perm, bounds, history>>

Instant == 0..MaxTime
Later == {None} \union 0..(MaxTime + Interval + Backoff)
RunStatus == {"Pending", "Running", "AwaitingApproval", "Completed", "Failed"}

NoSnap == [next |-> None, last |-> 0, resume |-> None]
Asleep == [pc |-> "asleep", at |-> 0, snap |-> NoSnap, plan |-> <<>>, cur |-> 0, outcome |-> "none"]
NoPerm == [pc |-> "idle", cur |-> 0, outcome |-> "none", snap |-> NoSnap]

FirstOccurrence ==
    IF RunOnceAfterCreate THEN 0 ELSE ScheduleCandidateAfter(Routine, 0)

\* create: the routine is active, and the scheduler thread makes a tick.
Init ==
    /\ now = 0
    /\ row = [there |-> TRUE, active |-> TRUE, next |-> FirstOccurrence, claimed |-> None,
              reason |-> "none", status |-> "none", last |-> 0, fails |-> 0, resume |-> None]
    /\ runs = <<>>
    /\ lease = [owner |-> 0, expires |-> 0]
    /\ owner = 1
    /\ sch = [Asleep EXCEPT !.pc = "lease"]
    /\ poll = FALSE /\ wake = FALSE
    /\ perm = NoPerm
    /\ events = 0 /\ crashes = 0
    /\ anchors = {FirstOccurrence} /\ asked = {} /\ drift = {}
    /\ reopened = FALSE /\ left = FALSE

\* The cadence that begins at each of these instants, and which of some new
\* instants are not on the one the user fixed already (history only).
CadenceFrom(starts) == {t \in 0..(MaxTime + Interval + Backoff) :
                           \E a \in starts : t >= a /\ (t - a) % Interval = 0}
OffCadence(starts) == starts \ CadenceFrom(anchors)

-----------------------------------------------------------------------------
(* The worker loop and the start of a tick.                                *)

\* recv_timeout(poll_interval), or recv() when nothing was active.
WakeUp ==
    /\ sch.pc = "asleep" /\ (wake \/ poll)
    /\ wake' = FALSE
    /\ sch' = [sch EXCEPT !.pc = "lease"]
    /\ UNCHANGED <<now, dbVars, owner, poll, perm, bounds, history>>

\* Mutant of AcquireLease: the lease of a dead process never runs out.
AcquireLeaseForever ==
    /\ sch.pc = "lease"
    /\ IF lease.owner /= owner /\ lease.expires > 0
       THEN sch' = [sch EXCEPT !.pc = "rest"] /\ UNCHANGED lease
       ELSE /\ lease' = [owner |-> owner, expires |-> now + OwnerLease]
            /\ sch' = [sch EXCEPT !.pc = "finalize"]
    /\ UNCHANGED <<now, row, runs, owner, poll, wake, perm, bounds, history>>

\* acquire_scheduler_lease
AcquireLease ==
    /\ sch.pc = "lease"
    /\ IF lease.owner /= owner /\ lease.expires > now
       THEN sch' = [sch EXCEPT !.pc = "rest"] /\ UNCHANGED lease
       ELSE /\ lease' = [owner |-> owner, expires |-> now + OwnerLease]
            /\ sch' = [sch EXCEPT !.pc = "finalize"]
    /\ UNCHANGED <<now, row, runs, owner, poll, wake, perm, bounds, history>>

\* FINISH_ROUTINE_SQL
Finished(r) == [r EXCEPT !.active = FALSE, !.claimed = None, !.next = None, !.reason = "end"]

\* finalize_due_routines_at_end_boundary; the tick's "now" is read here.
Finalize ==
    /\ sch.pc = "finalize"
    /\ sch' = [sch EXCEPT !.pc = "claim", !.at = now]
    /\ row' = IF row.there /\ row.active /\ row.claimed = None /\ Ended(Routine, now)
              THEN Finished(row) ELSE row
    /\ UNCHANGED <<now, runs, lease, owner, poll, wake, perm, bounds, history>>

Claimable(at) ==
    /\ row.there /\ row.active /\ row.next /= None /\ row.next <= at
    /\ row.claimed = None \/ row.claimed <= at - ClaimLease

\* claim_due_workflow_schedules
ClaimDue ==
    /\ sch.pc = "claim"
    /\ IF Claimable(sch.at)
       THEN /\ row' = [row EXCEPT !.claimed = sch.at, !.status = "Running"]
            /\ sch' = [sch EXCEPT !.pc = "skip",
                           !.snap = [next |-> row.next, last |-> row.last, resume |-> row.resume]]
            /\ left' = FALSE
       ELSE sch' = [sch EXCEPT !.pc = "rest"] /\ UNCHANGED <<row, left>>
    /\ UNCHANGED <<now, runs, lease, owner, poll, wake, perm, bounds, anchors, asked, drift,
                   reopened>>

\* release_claimed_at_next_future_occurrence
Released(r, occurrence, at) ==
    LET later == FirstRunAfterNowFromOccurrence(Routine, occurrence, at)
    IN  IF later = None THEN Finished(r)
        ELSE [r EXCEPT !.claimed = None, !.next = later, !.status = "Pending"]

\* should_skip_claimed_routine and claimed_occurrences_at.  A row that is gone
\* is updated to no effect.
SkipOrPlan ==
    /\ sch.pc = "skip"
    /\ LET due == sch.snap.next
           drop(r) == /\ row' = IF row.there THEN r ELSE row
                      /\ sch' = [sch EXCEPT !.pc = "rest"]
       IN  IF Ended(Routine, sch.at) THEN drop(Finished(row))
           ELSE IF sch.snap.resume = None /\ MissedBySkipPolicy(Routine, due, sch.at)
           THEN drop(Released(row, due, sch.at))
           ELSE /\ sch' = [sch EXCEPT !.pc = "plan", !.at = 0, !.plan =
                             ClaimedOccurrencesAt(Routine, due, sch.snap.resume, sch.at)]
                /\ UNCHANGED row
    /\ UNCHANGED <<now, runs, lease, owner, poll, wake, perm, bounds, history>>

-----------------------------------------------------------------------------
(* One occurrence of the plan.                                             *)

\* Mutant of Recorded: only a run that came to an end counts.
RecordedAndEnded(for) ==
    \E i \in 1..Len(runs) : runs[i].for = for /\ runs[i].status \in {"Completed", "Failed"}

Recorded(for) == \E i \in 1..Len(runs) : runs[i].for = for

\* The rest of the tick after an occurrence: the next one, or the end.
NextOccurrence(s) == [s EXCEPT !.pc = "plan", !.plan = Tail(s.plan), !.cur = 0, !.outcome = "none"]

\* The tick returns an error: the thread polls again.
TickFails == sch' = Asleep /\ poll' = TRUE

\* advance_if_recorded, for an occurrence whose run is on record.
AdvanceRecorded ==
    /\ sch.pc = "plan" /\ sch.plan /= <<>> /\ Recorded(Head(sch.plan).for)
    /\ IF row.there
       THEN /\ row' = [row EXCEPT !.claimed = None, !.next = Head(sch.plan).next,
                           !.resume = None]
            /\ sch' = NextOccurrence(sch) /\ UNCHANGED poll
       ELSE TickFails /\ UNCHANGED row
    /\ UNCHANGED <<now, runs, lease, owner, wake, perm, bounds, history>>

\* retryable_instance_for_claim: the instance the claim's snapshot points to,
\* if it waits for another try.
RetryableInstance ==
    IF sch.snap.last \in 1..Len(runs) /\ runs[sch.snap.last].status = "Pending"
    THEN sch.snap.last ELSE 0

\* run_claimed_schedule up to the run: the waiting instance again, or a new
\* one (insert_scheduled_execution_instance).  The run may fail before it has
\* an instance; it does when the routine is gone.
StartRun ==
    /\ sch.pc = "plan" /\ sch.plan /= <<>> /\ ~Recorded(Head(sch.plan).for)
    /\ \/ /\ RetryableInstance /= 0
          /\ runs' = [runs EXCEPT ![RetryableInstance].status = "Running"]
          /\ sch' = [sch EXCEPT !.pc = "running", !.cur = RetryableInstance]
       \/ /\ RetryableInstance = 0 /\ row.there
          /\ runs' = Append(runs, [for |-> Head(sch.plan).for, status |-> "Running"])
          /\ sch' = [sch EXCEPT !.pc = "running", !.cur = Len(runs')]
       \/ /\ "Error" \in Outcomes \/ ~row.there
          /\ sch' = [sch EXCEPT !.pc = "persist", !.outcome = "Error"]
          /\ UNCHANGED runs
    /\ UNCHANGED <<now, row, lease, owner, poll, wake, perm, bounds, history>>

\* The run ends.  "Transient" is a failure of the network without an effect,
\* "Unverified" a completion whose scheduled postcondition does not hold, and
\* "Error" an error that leaves the instance as it is and is stored without it.
RunEnds(outcome) ==
    /\ sch.pc = "running"
    /\ runs' = IF outcome = "Error" THEN runs
               ELSE [runs EXCEPT ![sch.cur].status =
                       CASE outcome = "Transient" -> "Failed"
                         [] outcome = "Unverified" -> "Completed"
                         [] OTHER -> outcome]
    /\ sch' = [sch EXCEPT !.outcome = outcome,
                          !.cur = IF outcome = "Error" THEN 0 ELSE @,
                          !.pc = IF outcome = "Transient" THEN "requeue" ELSE "persist"]
    /\ UNCHANGED <<now, row, lease, owner, poll, wake, perm, bounds, history>>

\* requeue_transient_failure
RequeueTransient ==
    /\ sch.pc = "requeue"
    /\ runs' = [runs EXCEPT ![sch.cur].status = "Pending"]
    /\ row' = [row EXCEPT !.active = TRUE, !.claimed = None, !.next = now + Backoff,
                   !.status = "Pending", !.last = sch.cur]
    /\ sch' = NextOccurrence(sch)
    /\ drift' = drift \union OffCadence({now + Backoff})
    /\ reopened' = (reopened \/ row.fails >= Threshold)
    /\ UNCHANGED <<now, lease, owner, poll, wake, perm, bounds, anchors, asked, left>>

\* Mutant of RowStatus: the outcome is stored as it is.
RowStatusAsIs(outcome) == outcome

\* What a terminal outcome is called in the row.
RowStatus(outcome) == IF outcome \in {"Unverified", "Error"} THEN "Failed" ELSE outcome

\* Mutant of Persisted: the claim is left to its lease.
PersistedWithClaim(r, status, instance, next) ==
    [r EXCEPT !.status = status, !.last = instance, !.next = next, !.resume = None]

\* PERSIST_SCHEDULE_RESULT_SQL.  The run request written back is the one of
\* the caller's snapshot without a Run Now anchor, whatever the row holds now.
Persisted(r, status, instance, next) ==
    [r EXCEPT !.claimed = None, !.status = status, !.last = instance, !.next = next,
              !.resume = None]

\* Mutant of PersistResult: the successor is counted from the end of the run.
PersistResultFromNow ==
    /\ sch.pc = "persist"
    /\ IF row.there
       THEN /\ row' = Persisted(row, RowStatus(sch.outcome), sch.cur,
                                NextRunWithEndBoundary(Routine, now))
            /\ sch' = [sch EXCEPT !.pc = "policy"] /\ UNCHANGED poll
       ELSE TickFails /\ UNCHANGED row
    /\ UNCHANGED <<now, runs, lease, owner, wake, perm, bounds, history>>

\* persist_claimed_schedule_result
PersistResult ==
    /\ sch.pc = "persist"
    /\ IF row.there
       THEN /\ row' = Persisted(row, RowStatus(sch.outcome), sch.cur, Head(sch.plan).next)
            /\ sch' = [sch EXCEPT !.pc = "policy"] /\ UNCHANGED poll
       ELSE TickFails /\ UNCHANGED row
    /\ UNCHANGED <<now, runs, lease, owner, wake, perm, bounds, history>>

\* Mutant of WithPolicy: one failure too many.
WithPolicyLate(r, failed) ==
    IF ~failed THEN [r EXCEPT !.fails = 0, !.reason = "none"]
    ELSE IF r.fails < Threshold THEN [r EXCEPT !.fails = @ + 1]
    ELSE [r EXCEPT !.fails = @ + 1, !.active = FALSE, !.reason = "failures"]

\* record_result_policy
WithPolicy(r, failed) ==
    IF ~failed THEN [r EXCEPT !.fails = 0, !.reason = "none"]
    ELSE IF r.fails + 1 < Threshold THEN [r EXCEPT !.fails = @ + 1]
    ELSE [r EXCEPT !.fails = @ + 1, !.active = FALSE, !.reason = "failures"]

RecordPolicy ==
    /\ sch.pc = "policy"
    /\ row' = IF row.there THEN WithPolicy(row, RowStatus(sch.outcome) = "Failed") ELSE row
    /\ reopened' = (reopened /\ row'.active)
    /\ sch' = [sch EXCEPT !.pc = "finish"]
    /\ UNCHANGED <<now, runs, lease, owner, poll, wake, perm, bounds, anchors, asked, drift,
                   left>>

\* finish_routine_at_end_boundary when the plan has no successor, and the end
\* of the occurrence; an unverified run ends the tick with an error.
FinishOccurrence ==
    /\ sch.pc = "finish"
    /\ row' = IF row.there /\ Head(sch.plan).next = None /\ EndAt /= None
              THEN Finished(row) ELSE row
    /\ IF sch.outcome = "Unverified" THEN TickFails
       ELSE sch' = NextOccurrence(sch) /\ UNCHANGED poll
    /\ UNCHANGED <<now, runs, lease, owner, wake, perm, bounds, history>>

\* scheduler_requires_polling
Rest ==
    /\ sch.pc = "rest" \/ (sch.pc = "plan" /\ sch.plan = <<>>)
    /\ sch' = Asleep
    /\ poll' = (row.there /\ row.active)
    /\ UNCHANGED <<now, dbVars, owner, wake, perm, bounds, history>>

\* Within the bounds something fails outside the model: an access to the
\* database, the search for the next occurrence, the process.
MayFail == events + crashes < MaxEvents /\ now <= Horizon

\* The history of a claim whose tick is over.
LeaveClaim == left' = (left \/ row.claimed /= None)

\* A "?" of run_scheduler_tick, of run_claimed_schedule or of the poll decision:
\* nothing is written, the claim stays where it is, and the thread polls.
TickErrs ==
    /\ sch.pc \notin {"asleep", "running"} /\ MayFail
    /\ events' = events + 1
    /\ TickFails /\ LeaveClaim
    /\ UNCHANGED <<now, dbVars, owner, wake, perm, crashes, anchors, asked, drift, reopened>>

SchedulerStep ==
    \/ WakeUp \/ AcquireLease \/ Finalize \/ ClaimDue \/ SkipOrPlan
    \/ AdvanceRecorded \/ StartRun \/ RequeueTransient
    \/ PersistResult \/ RecordPolicy \/ FinishOccurrence \/ Rest
    \/ \E outcome \in Outcomes : RunEnds(outcome)

-----------------------------------------------------------------------------
(* The user's commands (routines/commands.rs, routines/repository.rs).     *)

Command(name) ==
    /\ name \in Commands /\ events + crashes < MaxEvents /\ now <= Horizon /\ row.there
    /\ events' = events + 1
    /\ UNCHANGED <<now, lease, owner, sch, poll, crashes, drift, left>>

\* set_active(false)
Pause ==
    /\ Command("pause")
    /\ row' = [row EXCEPT !.active = FALSE, !.next = None, !.claimed = None, !.reason = "user"]
    /\ UNCHANGED <<runs, wake, perm, anchors, asked, reopened>>

\* set_active(true): nobody is woken.
Resume ==
    /\ Command("resume")
    /\ row' = [row EXCEPT !.active = TRUE, !.next = ScheduleCandidateAfter(Routine, now),
                   !.claimed = None, !.reason = "none"]
    /\ anchors' = anchors \union OffCadence({row'.next})
    /\ reopened' = (reopened \/ row.fails >= Threshold)
    /\ UNCHANGED <<runs, wake, perm, asked>>

\* update, with any change that keeps the interval.
Update ==
    /\ Command("update")
    /\ row' = [row EXCEPT !.claimed = None,
                   !.next = IF row.active THEN ScheduleCandidateAfter(Routine, now) ELSE None]
    /\ anchors' = anchors \union OffCadence({row'.next} \ {None})
    /\ UNCHANGED <<runs, wake, perm, asked, reopened>>

\* queue_routine_run_now_at and the wake that follows.  Nothing is queued when
\* an anchor is left or an occurrence is already due; a routine in progress or
\* past its end is refused.  Instants are milliseconds: no occurrence has run
\* for this very one.
RunNow ==
    LET queued == row.resume /= None \/ (row.active /\ row.next /= None /\ row.next <= now)
        resume == IF row.active /\ row.next /= None THEN row.next
                  ELSE ScheduleCandidateAfter(Routine, now)
    IN  /\ Command("run_now") /\ ~Recorded(now)
        /\ \/ row.resume /= None
           \/ row.claimed = None /\ row.status \notin {"Running", "AwaitingApproval"}
        /\ ~queued => ~Ended(Routine, now)
        /\ wake' = TRUE
        /\ IF queued THEN UNCHANGED <<row, anchors, asked, reopened>>
           ELSE /\ row' = [row EXCEPT !.active = TRUE, !.next = now, !.claimed = None,
                               !.reason = "none", !.resume = resume]
                /\ asked' = asked \union OffCadence({now})
                /\ anchors' = anchors \union OffCadence({resume})
                /\ reopened' = (reopened \/ row.fails >= Threshold)
        /\ UNCHANGED <<runs, perm>>

\* delete_with_receipt: refused while a run is claimed, running or open.  The
\* task of a run stays open until the scheduler has projected its result.
Delete ==
    /\ Command("delete")
    /\ row.claimed = None /\ row.status /= "Running"
    /\ \A i \in 1..Len(runs) : runs[i].status \notin {"Pending", "Running", "AwaitingApproval"}
    /\ sch.pc /= "requeue"
    /\ row' = [row EXCEPT !.there = FALSE]
    /\ runs' = <<>>
    /\ UNCHANGED <<wake, perm, anchors, asked, reopened>>

-----------------------------------------------------------------------------
(* An approval: the run goes on in another thread, and the routine's row   *)
(* is brought up to date (reconcile_routine_records_after_permission).     *)

\* claim_execution_instance_for_approval
Approve(i) ==
    /\ Command("approve")
    /\ perm.pc = "idle" /\ runs[i].status = "AwaitingApproval"
    /\ runs' = [runs EXCEPT ![i].status = "Running"]
    /\ perm' = [NoPerm EXCEPT !.pc = "running", !.cur = i]
    /\ UNCHANGED <<row, wake, anchors, asked, reopened>>

\* resolve_persisted_permission returns; an error leaves the run as it is.
ApprovedRunEnds(outcome) ==
    /\ perm.pc = "running"
    /\ IF outcome = "Error" THEN perm' = NoPerm /\ UNCHANGED runs
       ELSE /\ runs' = [runs EXCEPT ![perm.cur].status =
                          CASE outcome = "Transient" -> "Failed"
                            [] outcome = "Unverified" -> "Completed"
                            [] OTHER -> outcome]
            /\ perm' = [perm EXCEPT !.pc = "load", !.outcome =
                          IF outcome = "Transient" THEN "Failed" ELSE outcome]
    /\ UNCHANGED <<now, row, lease, owner, schedVars, bounds, history>>

\* load_workflow_schedule; without the routine there is nothing to reconcile.
ApprovedLoad ==
    /\ perm.pc = "load"
    /\ perm' = IF ~row.there THEN NoPerm
               ELSE [perm EXCEPT !.pc = "persist", !.snap =
                       [next |-> row.next, last |-> row.last, resume |-> row.resume]]
    /\ UNCHANGED <<now, dbVars, owner, schedVars, bounds, history>>

\* persist_claimed_schedule_result with the next run of the loaded row.  An
\* unverified completion is stored as a failure that is not counted.
ApprovedPersist ==
    /\ perm.pc = "persist"
    /\ row' = IF row.there
              THEN Persisted(row, RowStatus(perm.outcome), perm.cur, perm.snap.next) ELSE row
    /\ perm' = IF row.there /\ perm.outcome /= "Unverified"
               THEN [perm EXCEPT !.pc = "policy"] ELSE NoPerm
    /\ UNCHANGED <<now, runs, lease, owner, schedVars, bounds, history>>

ApprovedPolicy ==
    /\ perm.pc = "policy"
    /\ row' = IF row.there THEN WithPolicy(row, perm.outcome = "Failed") ELSE row
    /\ reopened' = (reopened /\ row'.active)
    /\ perm' = [perm EXCEPT !.pc = "finish"]
    /\ UNCHANGED <<now, runs, lease, owner, schedVars, bounds, anchors, asked, drift, left>>

ApprovedFinish ==
    /\ perm.pc = "finish"
    /\ row' = IF row.there /\ perm.snap.next = None /\ EndAt /= None THEN Finished(row) ELSE row
    /\ perm' = NoPerm
    /\ UNCHANGED <<now, runs, lease, owner, schedVars, bounds, history>>

\* A "?" of the reconciliation: the thread returns, the routine stays behind.
ApprovalErrs ==
    /\ perm.pc \notin {"idle", "running"} /\ MayFail
    /\ events' = events + 1
    /\ perm' = NoPerm
    /\ UNCHANGED <<now, dbVars, owner, schedVars, crashes, history>>

ApprovalStep ==
    \/ ApprovedLoad \/ ApprovedPersist \/ ApprovedPolicy \/ ApprovedFinish
    \/ \E outcome \in Outcomes : ApprovedRunEnds(outcome)

-----------------------------------------------------------------------------
(* The clock, and a process that dies and is started again.                *)

\* A step of the clock is far longer than a transaction: time passes while the
\* scheduler sleeps and while a run goes on.
Clock ==
    /\ now < MaxTime /\ sch.pc \in {"asleep", "running"}
    /\ now' = now + 1
    /\ UNCHANGED <<dbVars, owner, schedVars, perm, bounds, history>>

\* The threads are lost with the process; the database stays.  The new process
\* has a new owner id, and its scheduler thread begins with a tick.
CrashAndRestart ==
    /\ MayFail
    /\ crashes' = crashes + 1
    /\ owner' = owner + 1
    /\ sch' = [Asleep EXCEPT !.pc = "lease"] /\ poll' = FALSE /\ wake' = FALSE
    /\ perm' = NoPerm
    /\ LeaveClaim
    /\ UNCHANGED <<now, dbVars, events, anchors, asked, drift, reopened>>

UserStep ==
    \/ Pause \/ Resume \/ Update \/ RunNow \/ Delete
    \/ \E i \in 1..Len(runs) : Approve(i)

Next ==
    \/ SchedulerStep \/ UserStep \/ ApprovalStep
    \/ TickErrs \/ ApprovalErrs \/ Clock \/ CrashAndRestart

Spec == Init /\ [][Next]_vars

\* The threads are scheduled, a run ends, and time passes.  A user need not
\* do anything, and nothing need fail.
FairSpec == Spec /\ WF_vars(SchedulerStep) /\ WF_vars(ApprovalStep) /\ SF_vars(Clock)

-----------------------------------------------------------------------------
(* Properties.                                                             *)

TypeOK ==
    /\ now \in Instant
    /\ row \in [there : BOOLEAN, active : BOOLEAN, next : Later, claimed : {None} \union Instant,
                reason : {"none", "user", "failures", "end"}, status : RunStatus \union {"none"},
                last : 0..Len(runs), fails : Nat, resume : Later] \/ ~row.there
    /\ runs \in Seq([for : Instant, status : RunStatus])
    /\ lease \in [owner : 0..MaxEvents + 1, expires : 0..MaxTime + OwnerLease]
    /\ owner \in 1..MaxEvents + 1
    /\ sch.cur \in 0..Len(runs) \/ ~row.there
    /\ poll \in BOOLEAN /\ wake \in BOOLEAN

\* An occurrence has one run, over crashes in the middle of it, claim leases
\* that lapse, catch-ups and approvals that rewrite the row (advance_if_recorded).
OneRunPerOccurrence ==
    \A i, j \in 1..Len(runs) : runs[i].for = runs[j].for => i = j

Occurrences == {runs[i].for : i \in 1..Len(runs)} \union ({row.next} \ {None})

\* Whatever interleaves, as long as no transient failure has moved it, the
\* routine is due only on the cadence its user fixed, or on one that starts where
\* Run Now asked for a run: a stale plan or a stale snapshot of another thread
\* never invents an occurrence.  (An approval that is reconciled before the
\* scheduler stored the result of a Run Now does move the cadence to the instant
\* of the Run Now.)
DueOnlyWhereAsked == drift = {} => Occurrences \subseteq CadenceFrom(anchors \union asked)

\* "never wall-clock drift", "transient retries retain the same execution
\* instance and logical occurrence" (run_claimed_schedule): a routine that
\* neither runs nor waits for another try is due where its user fixed it.
NeverDrifts ==
    /\ row.there /\ row.claimed = None /\ row.next /= None
    /\ \A i \in 1..Len(runs) : runs[i].status /= "Pending"
    => row.next \in CadenceFrom(anchors) \union asked

\* A routine that failed Threshold times in a row is active only if it was made
\* so again, by its user or by the requeue of a transient failure
\* (record_result_policy).
ThresholdStops == row.there /\ row.active /\ row.fails >= Threshold => reopened

\* A scheduler that rests has given its claim back, whatever happened to the row
\* meanwhile: the ways out of a tick that run nothing, an unverified run and a
\* deleted routine included.  Only a tick that died or returned early with an
\* error leaves the routine to the thirty minutes of its claim lease.
OnlyFailuresLeaveClaims ==
    sch.pc = "asleep" /\ row.there /\ row.claimed /= None => left

Due == row.there /\ row.active /\ row.next /= None /\ row.next <= now

\* A due routine whose scheduler is awake, polls or was woken is served: it
\* runs, is skipped or is retired, after a crash and after a tick that failed
\* with its claim too, once the leases they left have lapsed.
AnnouncedWorkIsServed == Due /\ (poll \/ wake \/ sch.pc /= "asleep") ~> ~Due
=============================================================================
