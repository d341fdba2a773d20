-------------------------- MODULE RoutineDelivery --------------------------
(***************************************************************************)
(* The terminal delivery of a one-shot routine: after its workflow has     *)
(* completed, a notice is sent to a private channel and the routine is     *)
(* closed (workflow_scheduler/delivery.rs and the delivery half of         *)
(* workflow_scheduler.rs).                                                 *)
(*                                                                         *)
(* The scheduler thread delivers at the end of the run, or the threads of  *)
(* the permission decisions it finished in do; later ticks of the          *)
(* scheduler retry a delivery that failed before it was dispatched.        *)
(* The user may confirm that an uncertain delivery did not arrive. Every   *)
(* transaction and every statement outside one is a step of its own.       *)
(***************************************************************************)
EXTENDS Integers, Sequences, FiniteSets, FiniteSetsExt

CONSTANTS
    Scheduler,    \* the scheduler thread
    Approvers,    \* threads of permission decisions
    LegacyEmpty,  \* TRUE: the run ended at a legacy empty collection
    FaultKinds,   \* what may go wrong: a "crash", a failed "write", a failed "lookup"
    MaxSends,     \* bound: attempts that reach the channel
    MaxConfirms,  \* bound: confirmations of the user
    MaxFaults     \* bound: crashes and failed database accesses together

ASSUME ThreadsAssumption == Scheduler \notin Approvers /\ IsFiniteSet(Approvers)
ASSUME SwitchesAssumption ==
    LegacyEmpty \in BOOLEAN /\ FaultKinds \subseteq {"crash", "write", "lookup"}
ASSUME BoundsAssumption ==
    MaxSends \in Nat /\ MaxConfirms \in Nat /\ MaxFaults \in Nat

Threads == Approvers \cup {Scheduler}

\* A run that never paused is finished by the scheduler. A paused one is
\* finished by the threads of the decisions that resumed it: a pause is written
\* twice, and a decision that falls between the two writes can be followed by a
\* second one for the same pause.
Finishers == {{Scheduler}} \cup SUBSET Approvers

Kinds == {"completed", "completed_empty"}

VARIABLES
    effect,     \* task_effects.state of each kind's idempotency key
    receipts,   \* routine_delivery_receipts in creation order: state, bound
                \* (task_run_id is set), confirmed (the error code is
                \* routine_delivery_absence_confirmed), aged (past the backoff)
    sched,      \* workflow_schedules: is_active, paused_reason, last_status
    task,       \* task_runs.state
    due,        \* threads that finish the run and have not begun to deliver
    pc, kind,   \* each thread: its next step and its event kind
    rcpt,       \* each thread: the receipt of its reservation
    landed,     \* each thread: the notice it is sending has arrived
    safe,       \* each thread: the failure it records is safe to retry
    outcome,    \* each thread: the RoutineDeliveryOutcome it applies
    sent,       \* external: notices sent under a reservation that arrived
    stray,      \* external: a notice sent without one has arrived
    orphans,    \* external: abandoned notices that may still arrive, reserved ones
    pardons,    \* history: absence confirmed for a notice that had arrived
                \* or could still arrive, or before its outcome was recorded
    sends, confirms, faults

durable == <<effect, receipts, sched, task>>
threads == <<pc, kind, rcpt, landed, safe, outcome>>
world == <<sent, stray, orphans, pardons>>
bounds == <<sends, confirms, faults>>
vars == <<effect, receipts, sched, task, due, pc, kind, rcpt, landed, safe,
          outcome, sent, stray, orphans, pardons, sends, confirms, faults>>

Init ==
    /\ effect = [k \in Kinds |-> "absent"]
    /\ receipts = <<>>
    /\ sched = [active |-> TRUE, paused |-> "none", status |-> "Completed"]
    /\ task = "running"
    /\ due \in Finishers
    /\ pc = [t \in Threads |-> "idle"]
    /\ kind = [t \in Threads |-> "completed"]
    /\ rcpt = [t \in Threads |-> 0]
    /\ landed = [t \in Threads |-> FALSE]
    /\ safe = [t \in Threads |-> FALSE]
    /\ outcome = [t \in Threads |-> "none"]
    /\ sent = 0
    /\ stray = FALSE
    /\ orphans = 0
    /\ pardons = 0
    /\ sends = 0
    /\ confirms = 0
    /\ faults = 0

\* One of the faults this instance allows happens.
Fault(k) == k \in FaultKinds /\ faults < MaxFaults /\ faults' = faults + 1

Goto(t, step) == pc' = [pc EXCEPT ![t] = step]

\* The threads in S return or die, and their local variables with them.
Leave(S) ==
    /\ pc' = [t \in Threads |-> IF t \in S THEN "idle" ELSE pc[t]]
    /\ kind' = [t \in Threads |-> IF t \in S THEN "completed" ELSE kind[t]]
    /\ rcpt' = [t \in Threads |-> IF t \in S THEN 0 ELSE rcpt[t]]
    /\ landed' = [t \in Threads |-> t \notin S /\ landed[t]]
    /\ safe' = [t \in Threads |-> t \notin S /\ safe[t]]
    /\ outcome' = [t \in Threads |-> IF t \in S THEN "none" ELSE outcome[t]]

\* deliver_routine_notice returns o, which the caller applies.
Return(t, o) ==
    /\ outcome' = [outcome EXCEPT ![t] = o]
    /\ Goto(t, IF o = "delivered" THEN "policy" ELSE "park")
    /\ rcpt' = [rcpt EXCEPT ![t] = 0]
    /\ landed' = [landed EXCEPT ![t] = FALSE]
    /\ safe' = [safe EXCEPT ![t] = FALSE]

(***************************************************************************)
(* Who delivers.                                                           *)
(***************************************************************************)

\* The event kind the end of the run computes, from its output payload ...
FirstKind == IF LegacyEmpty THEN "completed_empty" ELSE "completed"

\* ... and the one a retry computes, from the Output node's payload, which a
\* run that ended at a legacy empty collection does not have.
RetryKind == "completed"

\* The run has completed in t: run_claimed_schedule or
\* reconcile_routine_after_permission goes on to its delivery, whether another
\* thread has done so or not.
StartDelivery(t) ==
    /\ t \in due /\ pc[t] = "idle"
    /\ due' = due \ {t}
    /\ Goto(t, "reserve")
    /\ kind' = [kind EXCEPT ![t] = FirstKind]
    /\ UNCHANGED <<durable, rcpt, landed, safe, outcome, world, bounds>>

\* The receipts a join with the effects of the task can see.
Bound == {i \in DOMAIN receipts : receipts[i].bound}

\* Mutant of Retryable: only a receipt past its backoff is retried, and every
\* confirmation renews the backoff of a receipt that is still being sent.
RetryableUnconfirmed ==
    /\ \E i \in Bound : receipts[i].state = "failed" /\ ~receipts[i].confirmed /\ receipts[i].aged
    /\ \E k \in Kinds : effect[k] = "reserved"

\* retryable_terminal_delivery: a failed receipt, past its backoff or released
\* by the user, and some reserved delivery effect of this run.
Retryable ==
    /\ \E i \in Bound :
          receipts[i].state = "failed" /\ (receipts[i].confirmed \/ receipts[i].aged)
    /\ \E k \in Kinds : effect[k] = "reserved"

RetryPendingTerminalDelivery ==
    /\ pc[Scheduler] = "idle" /\ Retryable
    /\ Goto(Scheduler, "reserve")
    /\ kind' = [kind EXCEPT ![Scheduler] = RetryKind]
    /\ UNCHANGED <<durable, due, rcpt, landed, safe, outcome, world, bounds>>

\* DELIVERY_RETRY_BACKOFF_MS passes after the last write of a receipt.
BackoffElapses(i) ==
    /\ receipts[i].state = "failed" /\ ~receipts[i].aged
    /\ receipts' = [receipts EXCEPT ![i].aged = TRUE]
    /\ UNCHANGED <<effect, sched, task, due, threads, world, bounds>>

(***************************************************************************)
(* Reservation and dispatch.                                               *)
(***************************************************************************)

SetEffect(k, state) == effect' = [effect EXCEPT ![k] = state]
Receipt(state, bound, confirmed) ==
    [state |-> state, bound |-> bound, confirmed |-> confirmed, aged |-> FALSE]

\* UPDATE routine_delivery_receipts SET state ... WHERE receipt_id=i AND
\* state='pending'.
SettleReceipt(i, state) ==
    receipts' = IF receipts[i].state = "pending"
                THEN [receipts EXCEPT ![i] = Receipt(state, @.bound, FALSE)]
                ELSE receipts

\* The latest receipt of the task, whichever key it was created for.
Latest == IF Bound = {} THEN 0 ELSE Max(Bound)
Delivered(i) == i > 0 /\ receipts[i].state = "delivered"

\* reserve_routine_delivery, one transaction: an existing effect is looked up
\* with its receipt, a new one gets a new receipt.
AlreadyDelivered(t) ==
    LET k == kind[t] IN
    /\ pc[t] = "reserve"
    /\ effect[k] = "verified" \/ (effect[k] # "absent" /\ Delivered(Latest))
    /\ SetEffect(k, "verified")
    /\ Return(t, "delivered")
    /\ UNCHANGED <<receipts, sched, task, due, kind, world, bounds>>

\* Mutant of DispatchedBefore: what was dispatched counts as delivered.
DispatchedIsDelivered(t) ==
    /\ pc[t] = "reserve"
    /\ effect[kind[t]] = "executed" /\ ~Delivered(Latest)
    /\ Return(t, "delivered")
    /\ UNCHANGED <<durable, due, kind, world, bounds>>

DispatchedBefore(t) ==
    /\ pc[t] = "reserve"
    /\ effect[kind[t]] = "executed" /\ ~Delivered(Latest)
    /\ Return(t, "review")
    /\ UNCHANGED <<durable, due, kind, world, bounds>>

\* Mutant of ReserveForSend: the reservation is not bound to its receipt.
ReserveForgetsReceipt(t) ==
    LET k == kind[t]
        reuse == effect[k] = "reserved" /\ Latest > 0
        i == IF reuse THEN Latest ELSE Len(receipts) + 1
    IN
    /\ pc[t] = "reserve"
    /\ \/ effect[k] = "absent"
       \/ effect[k] = "reserved" /\ ~Delivered(Latest)
    /\ SetEffect(k, "reserved")
    /\ receipts' = [j \in DOMAIN receipts \cup {i} |->
                       IF j = i THEN Receipt("pending", TRUE, FALSE) ELSE receipts[j]]
    /\ Goto(t, "dispatch")
    /\ UNCHANGED <<sched, task, due, kind, rcpt, landed, safe, outcome, world,
                   bounds>>

\* Mutant of ReserveForSend: a retry inserts a receipt of its own.
ReserveInsertsAgain(t) ==
    LET k == kind[t] IN
    /\ pc[t] = "reserve"
    /\ \/ effect[k] = "absent"
       \/ effect[k] = "reserved" /\ ~Delivered(Latest)
    /\ SetEffect(k, "reserved")
    /\ receipts' = Append(receipts, Receipt("pending", TRUE, FALSE))
    /\ rcpt' = [rcpt EXCEPT ![t] = Len(receipts) + 1]
    /\ Goto(t, "dispatch")
    /\ UNCHANGED <<sched, task, due, kind, landed, safe, outcome, world, bounds>>

ReserveForSend(t) ==
    LET k == kind[t]
        reuse == effect[k] = "reserved" /\ Latest > 0
        i == IF reuse THEN Latest ELSE Len(receipts) + 1
    IN
    /\ pc[t] = "reserve"
    /\ \/ effect[k] = "absent"
       \/ effect[k] = "reserved" /\ ~Delivered(Latest)
    /\ SetEffect(k, "reserved")
    /\ receipts' = [j \in DOMAIN receipts \cup {i} |->
                       IF j = i THEN Receipt("pending", TRUE, FALSE) ELSE receipts[j]]
    /\ rcpt' = [rcpt EXCEPT ![t] = i]
    /\ Goto(t, "dispatch")
    /\ UNCHANGED <<sched, task, due, kind, landed, safe, outcome, world, bounds>>

\* deliver_routine_notice drops the error of the task lookup; without a task
\* there is no effect to reserve, and the receipt belongs to no task.
ReserveWithoutTask(t) ==
    /\ pc[t] = "reserve" /\ Fault("lookup")
    /\ receipts' = Append(receipts, Receipt("pending", FALSE, FALSE))
    /\ rcpt' = [rcpt EXCEPT ![t] = Len(receipts) + 1]
    /\ Goto(t, "dispatch")
    /\ UNCHANGED <<effect, sched, task, due, kind, landed, safe, outcome, world,
                   sends, confirms>>

\* The reservation fails, or the reviewed authority no longer matches.
ReservationFails(t) ==
    /\ pc[t] = "reserve" /\ Fault("write")
    /\ Return(t, "review")
    /\ UNCHANGED <<durable, due, kind, world, sends, confirms>>

\* The durable dispatch boundary; when it cannot be entered the receipt is
\* failed as safe to retry.
MarkRoutineDeliveryDispatched(t) ==
    /\ pc[t] = "dispatch" /\ sends < MaxSends /\ sends' = sends + 1
    /\ \/ /\ ~receipts[rcpt[t]].bound
          /\ Goto(t, "sending")
          /\ UNCHANGED <<effect, safe>>
       \/ /\ receipts[rcpt[t]].bound /\ effect[kind[t]] = "reserved"
          /\ SetEffect(kind[t], "executed")
          /\ Goto(t, "sending")
          /\ UNCHANGED safe
       \/ /\ receipts[rcpt[t]].bound /\ effect[kind[t]] # "reserved"
          /\ safe' = [safe EXCEPT ![t] = TRUE]
          /\ Goto(t, "fail")
          /\ UNCHANGED effect
    /\ UNCHANGED <<receipts, sched, task, due, kind, rcpt, landed, outcome,
                   world, confirms, faults>>

DispatchFails(t) ==
    /\ pc[t] = "dispatch" /\ Fault("write")
    /\ safe' = [safe EXCEPT ![t] = TRUE]
    /\ Goto(t, "fail")
    /\ UNCHANGED <<durable, due, kind, rcpt, landed, outcome, world, sends,
                   confirms>>

(***************************************************************************)
(* The channel.                                                            *)
(***************************************************************************)

\* The attempt of t has an effect of the task, and with it an idempotency key.
Reserved(t) == receipts[rcpt[t]].bound

\* External: the notice arrives.
NoticeLands(t) ==
    /\ pc[t] = "sending" /\ ~landed[t]
    /\ landed' = [landed EXCEPT ![t] = TRUE]
    /\ sent' = IF Reserved(t) THEN sent + 1 ELSE sent
    /\ stray' = (stray \/ ~Reserved(t))
    /\ UNCHANGED <<durable, due, pc, kind, rcpt, safe, outcome, orphans,
                   pardons, bounds>>

\* External: an abandoned notice arrives late, or never will.
OrphanLands ==
    /\ orphans > 0 /\ orphans' = orphans - 1
    /\ sent' \in {sent, sent + 1}
    /\ UNCHANGED <<durable, due, threads, stray, pardons, bounds>>

\* The provider returns its receipt.
ProviderAccepts(t) ==
    /\ pc[t] = "sending" /\ landed[t]
    /\ Goto(t, "finish")
    /\ UNCHANGED <<durable, due, kind, rcpt, landed, safe, outcome, world,
                   bounds>>

\* outbound_channel_unavailable, outbound_queue_unavailable: nothing was sent.
ProviderUnavailable(t) ==
    /\ pc[t] = "sending" /\ ~landed[t]
    /\ safe' = [safe EXCEPT ![t] = TRUE]
    /\ Goto(t, "fail")
    /\ UNCHANGED <<durable, due, kind, rcpt, landed, outcome, world, bounds>>

\* Any other error: the notice has arrived, may still arrive, or never will.
ProviderUncertain(t) ==
    /\ pc[t] = "sending"
    /\ Goto(t, "fail")
    /\ orphans' \in IF landed[t] \/ ~Reserved(t) THEN {orphans}
                                                  ELSE {orphans, orphans + 1}
    /\ UNCHANGED <<durable, due, kind, rcpt, landed, safe, outcome, sent, stray,
                   pardons, bounds>>

(***************************************************************************)
(* Recording what happened.                                                *)
(***************************************************************************)

\* finish_routine_delivery: both rows in one transaction, or neither.
FinishRoutineDelivery(t) ==
    /\ pc[t] = "finish"
    /\ LET r == receipts[rcpt[t]] IN
       IF r.state = "pending" /\ (r.bound => effect[kind[t]] = "executed")
       THEN /\ SettleReceipt(rcpt[t], "delivered")
            /\ effect' = [effect EXCEPT ![kind[t]] = IF r.bound THEN "verified" ELSE @]
            /\ Return(t, "delivered")
       ELSE /\ Goto(t, "fail")
            /\ UNCHANGED <<effect, receipts, rcpt, landed, safe, outcome>>
    /\ UNCHANGED <<sched, task, due, kind, world, bounds>>

FinishFails(t) ==
    /\ pc[t] = "finish" /\ Fault("write")
    /\ Goto(t, "fail")
    /\ UNCHANGED <<durable, due, kind, rcpt, landed, safe, outcome, world,
                   sends, confirms>>

\* Mutant of FailRoutineDelivery: an uncertain failure is retried as well.
FailAlwaysRetryable(t) ==
    /\ pc[t] = "fail"
    /\ SettleReceipt(rcpt[t], "failed")
    /\ effect' = [effect EXCEPT ![kind[t]] =
                     IF receipts[rcpt[t]].bound /\ @ = "executed" THEN "reserved" ELSE @]
    /\ Return(t, "retry")
    /\ UNCHANGED <<sched, task, due, kind, world, bounds>>

\* fail_routine_delivery, one transaction.
FailRoutineDelivery(t) ==
    /\ pc[t] = "fail"
    /\ SettleReceipt(rcpt[t], "failed")
    /\ effect' = [effect EXCEPT ![kind[t]] =
                     IF safe[t] /\ receipts[rcpt[t]].bound /\ @ = "executed"
                     THEN "reserved" ELSE @]
    /\ Return(t, IF safe[t] THEN "retry" ELSE "review")
    /\ UNCHANGED <<sched, task, due, kind, world, bounds>>

FailureNotRecorded(t) ==
    /\ pc[t] = "fail" /\ Fault("write")
    /\ Return(t, "review")
    /\ UNCHANGED <<durable, due, kind, world, sends, confirms>>

(***************************************************************************)
(* apply_terminal_delivery_outcome, statement by statement.                *)
(***************************************************************************)

RecordResultPolicy(t) ==
    /\ pc[t] = "policy"
    /\ sched' = [sched EXCEPT !.active = FALSE, !.paused = "completed"]
    /\ Goto(t, "reconcile")
    /\ UNCHANGED <<effect, receipts, task, due, kind, rcpt, landed, safe,
                   outcome, world, bounds>>

ReconcileTask(t) ==
    /\ pc[t] = "reconcile"
    /\ task' = "completed"
    /\ Goto(t, "status")
    /\ UNCHANGED <<effect, receipts, sched, due, kind, rcpt, landed, safe,
                   outcome, world, bounds>>

RecordStatus(t) ==
    /\ pc[t] = "status"
    /\ sched' = [sched EXCEPT !.status = "Completed"]
    /\ Leave({t})
    /\ UNCHANGED <<effect, receipts, task, due, world, bounds>>

ParkSchedule(t) ==
    /\ pc[t] = "park"
    /\ sched' = IF outcome[t] = "retry"
                THEN [active |-> TRUE, paused |-> "retry", status |-> "Pending"]
                ELSE [active |-> FALSE, paused |-> "review",
                      status |-> "AwaitingApproval"]
    /\ Goto(t, "block")
    /\ UNCHANGED <<effect, receipts, task, due, kind, rcpt, landed, safe,
                   outcome, world, bounds>>

BlockTask(t) ==
    /\ pc[t] = "block"
    /\ task' = "blocked"
    /\ Leave({t})
    /\ UNCHANGED <<effect, receipts, sched, due, world, bounds>>

ApplyFails(t) ==
    /\ pc[t] \in {"policy", "reconcile", "status", "park", "block"}
    /\ Fault("write")
    /\ Leave({t})
    /\ UNCHANGED <<durable, due, world, sends, confirms>>

(***************************************************************************)
(* The user, the ledger and crashes.                                       *)
(***************************************************************************)

\* The receipts a confirmation may release, next to an executed effect.
Uncertain == {i \in Bound : receipts[i].state \in {"pending", "failed"}}

\* A notice has arrived or may still arrive, or an attempt is not recorded yet.
MayHaveArrived ==
    \/ sent > 0 \/ orphans > 0
    \/ \E t \in Threads : pc[t] \in {"sending", "finish", "fail"}

\* confirm_terminal_delivery_absent_and_retry, one transaction.
ConfirmTerminalDeliveryAbsent ==
    /\ confirms < MaxConfirms /\ confirms' = confirms + 1
    /\ Uncertain # {}
    /\ \E k \in Kinds : effect[k] = "executed" /\ SetEffect(k, "reserved")
    /\ receipts' = [receipts EXCEPT ![Max(Uncertain)] = Receipt("failed", TRUE, TRUE)]
    /\ sched' = [active |-> TRUE, paused |-> "retry", status |-> "Pending"]
    /\ pardons' = IF MayHaveArrived THEN pardons + 1 ELSE pardons
    /\ UNCHANGED <<task, due, threads, sent, stray, orphans, sends, faults>>

\* reconcile_all copies the state of the instance, which is Completed.
LedgerReconciles ==
    /\ task # "completed" /\ task' = "completed"
    /\ UNCHANGED <<effect, receipts, sched, due, threads, world, bounds>>

\* A reserved notice of t is on its way.
Flying(t) == pc[t] = "sending" /\ ~landed[t] /\ Reserved(t)

Crash ==
    /\ Fault("crash")
    /\ due' = {}
    /\ Leave(Threads)
    /\ \E n \in 0 .. Cardinality({t \in Threads : Flying(t)}) : orphans' = orphans + n
    /\ UNCHANGED <<durable, sent, stray, pardons, sends, confirms>>

(***************************************************************************)
(* Specification.                                                          *)
(***************************************************************************)

DeliveryStep(t) ==
    \/ StartDelivery(t)
    \/ AlreadyDelivered(t) \/ DispatchedBefore(t) \/ ReserveForSend(t)
    \/ MarkRoutineDeliveryDispatched(t)
    \/ ProviderAccepts(t) \/ ProviderUnavailable(t) \/ ProviderUncertain(t)
    \/ FinishRoutineDelivery(t) \/ FailRoutineDelivery(t)
    \/ RecordResultPolicy(t) \/ ReconcileTask(t) \/ RecordStatus(t)
    \/ ParkSchedule(t) \/ BlockTask(t)

FaultyStep(t) ==
    \/ ReservationFails(t) \/ ReserveWithoutTask(t) \/ DispatchFails(t) \/ FinishFails(t)
    \/ FailureNotRecorded(t) \/ ApplyFails(t)

Next ==
    \/ \E t \in Threads : DeliveryStep(t) \/ NoticeLands(t) \/ FaultyStep(t)
    \/ RetryPendingTerminalDelivery
    \/ \E i \in DOMAIN receipts : BackoffElapses(i)
    \/ OrphanLands
    \/ ConfirmTerminalDeliveryAbsent
    \/ LedgerReconciles
    \/ Crash

Spec == Init /\ [][Next]_vars

\* Threads run on, calls to a channel return, time passes, and the scheduler
\* polls while a receipt is pending or failed.
FairSpec ==
    /\ Spec
    /\ \A t \in Threads : WF_vars(DeliveryStep(t))
    /\ WF_vars(RetryPendingTerminalDelivery)
    /\ WF_vars(\E i \in DOMAIN receipts : BackoffElapses(i))

(***************************************************************************)
(* Properties.                                                             *)
(***************************************************************************)

Receipts == [state : {"pending", "failed", "delivered"}, bound : BOOLEAN,
             confirmed : BOOLEAN, aged : BOOLEAN]

Attempting(t) == pc[t] \in {"dispatch", "sending", "finish", "fail"}

\* Types, and: a thread between its reservation and its outcome holds a receipt
\* that exists (RoutineDeliveryReservation.receipt_id).
TypeOK ==
    /\ effect \in [Kinds -> {"absent", "reserved", "executed", "verified"}]
    /\ receipts \in Seq(Receipts)
    /\ sched \in [active : BOOLEAN, paused : {"none", "completed", "retry", "review"},
                  status : {"Completed", "Pending", "AwaitingApproval"}]
    /\ task \in {"running", "blocked", "completed"}
    /\ due \subseteq Threads
    /\ pc \in [Threads -> {"idle", "reserve", "dispatch", "sending", "finish", "fail",
                          "policy", "reconcile", "status", "park", "block"}]
    /\ kind \in [Threads -> Kinds]
    /\ rcpt \in [Threads -> Nat]
    /\ \A t \in Threads : IF Attempting(t) THEN rcpt[t] \in DOMAIN receipts
                                           ELSE rcpt[t] = 0
    /\ landed \in [Threads -> BOOLEAN]
    /\ safe \in [Threads -> BOOLEAN]
    /\ outcome \in [Threads -> {"none", "delivered", "retry", "review"}]
    /\ sent \in Nat /\ stray \in BOOLEAN /\ orphans \in Nat /\ pardons \in Nat
    /\ sends \in Nat /\ confirms \in Nat /\ faults \in Nat

Once == INSTANCE EffectOnce WITH Effects <- {"notice"},
                                 done <- [e \in {"notice"} |-> sent],
                                 allowed <- [e \in {"notice"} |-> 1 + pardons]

\* "This ambiguous boundary must never auto-resend": when one thread finishes
\* the run, the delivery implements the abstract promise step by step, with the
\* reserved notice as its one effect. It arrives at most once, and once more for
\* each time the user confirmed its absence although it had arrived or its
\* attempt was not over, across retries of the scheduler, confirmations, failed
\* writes and crashes at any point.
ImplementsEffectOnce == Once!Spec

\* The same in one state, for any number of threads that finish the run: the
\* recovery code takes it that a dispatch boundary it could not enter means
\* "The provider has not been called yet" (deliver_routine_notice).
SentOnce == sent <= 1 + pardons

\* "never creates a second receipt": a retry, whichever thread reserved first
\* and wherever it stopped, works on a receipt the task already has; only a new
\* idempotency key brings a new one (reserve_routine_delivery).
OneReceiptPerKey ==
    Cardinality(Bound) <= Cardinality({k \in Kinds : effect[k] # "absent"})

\* A one-shot routine is closed as completed only when a notice has arrived and
\* a receipt says so (terminal_delivery_is_gated): no interleaving of attempts,
\* failures and crashes closes it on a dispatch alone.
ClosedIsDelivered ==
    sched.paused = "completed" =>
        (sent > 0 \/ stray) /\ \E i \in DOMAIN receipts : receipts[i].state = "delivered"

\* "OOMU is retrying the private-channel update": a routine parked as retrying
\* is attempted again, or is retrying no longer.
RetryIsTaken ==
    sched.paused = "retry" ~> (sched.paused # "retry" \/ pc[Scheduler] = "dispatch")

\* The same as long as nothing has failed: whichever thread failed to deliver,
\* whatever the user confirmed and whichever key the attempt used, later ticks
\* find the delivery again (retryable_terminal_delivery).
FaultFreeRetryIsTaken == [](faults = 0) => RetryIsTaken

=============================================================================
