# OOMU: durable work, in TLA+

OOMU is a desktop assistant (Rust/Tauri back end under `src/src-tauri/src`,
TypeScript renderer under `src/src`). It works on its user's behalf while nobody
watches: routines run on a schedule, tools change files and send messages, a paired
phone stops tasks, answers survive a reload of the window. What the user relies on is
that such work happens *once*, that it ends in a state somebody can act on, and
that a crash, a retry or a second thread does not undo either. This directory models
the code that keeps these promises, checks it with TLC and proves its safety with TLAPS.

Paths below are relative to `src/src-tauri/src` unless they start with `src/`.

## 1. The system

| component | state it keeps | operations | talks to |
|---|---|---|---|
| effect journal (`workflow_runtime/task_tools/effect_journal.rs`) | `task_effects` rows (reserved, executed, verified, digest), `workflow.effect.*` events | reserve, claim, verify, release, halt | node workers, the task ledger |
| node loop (`workflow_runtime.rs`, `db/scheduled_execution.rs`) | `execution_instances`: status and node payloads; an in-memory copy per loop | start, checkpoint, pause, spawn a worker and wait with a timeout, fail, complete | effect journal, scheduler |
| effect verification (`tasks/effect_verification.rs`) | `workflow.effect.verification_*` events | `resolve`: did not happen, happened, stop | task, effect, instance and schedule rows |
| task ledger (`tasks/repository.rs`, `tasks/adapters.rs`) | `task_runs`: state, recovery state | `reconcile_all`, `control` (retry, cancel, resume, acknowledge) | every runtime, the renderer |
| routine scheduler (`workflow_scheduler.rs` and its directory, `routines/`) | `workflow_schedules`, `routine_runs`, `routine_policies`, a scheduler lease | claim, plan, run, requeue, record, advance; pause, resume, update, Run Now, delete | node loop, ledger, delivery |
| schedule expressions (`schedule_expression.rs`, `workflow_scheduler/recurrence.rs`) | none | next run of a daily, cron, interval, calendar or one-shot expression in a time zone; catch-up | scheduler |
| routine delivery (`workflow_scheduler/delivery.rs`) | `routine_delivery_receipts` and a delivery effect | reserve, dispatch, finish, fail, retry, confirm absence | gateway, scheduler |
| chat turns (`db/chat_turn_*.rs`, `db/response_claim.rs`, `inference/chat_turn_persistence.rs`) | `chat_turns`, the user message's metadata, the terminal result | accept, freeze the route, claim, complete, interrupt, resume, abandon, cancel, recover | inference, queued messages, agent executions |
| queued messages (`db/queued_messages.rs`) | `message_queue` | enqueue, claim, complete, fail, cancel, retry | chat turns |
| remote access (`remote_access/`) | `remote_devices`, `remote_commands`, `remote_artifact_grants` | accept and execute a signed command, grant and retrieve a file, revoke | ledger, agents |
| recommended model install (`recommended_model_install/`, `recommended_model_activation.rs`) | `install-state.json`, partial and staged files, the package, settings and provider | start, resume, cancel, discard, download, verify, promote, activate | settings, provider store |
| remote routines (`remote_routines.rs`) | decision codes, their expiry | decide, reconcile the remote task | ledger, scheduler |
| agent executions (`db/agent_execution*.rs`) | executions, leases, recovery state | begin, heartbeat, finish, recover after restart | chat turns |
| approvals and shield gate, delegation, taskflow, projects | rows and files of their own | see `PROJECT.json` | ledger |
| persistence engine (`db.rs`) | SQLCipher database, migrations | one connection per call, transactions where the code opens one | everything |
| gateway, MCP, inference, tools, connectors | sessions, processes | I/O | the outside world |

`PROJECT.json` lists all components with their sources, also those that are not
modelled and why.

**Threads.** The scheduler thread runs a claimed routine synchronously. A permission
decision starts a thread of its own that resumes the paused run. Every node's tool
call runs in a further worker thread; the loop waits for it on a channel with a
timeout, and a worker that outlives the timeout *keeps going*. Commands of the
renderer (task list, task control, answers, routines, chat turns) and the requests of
a paired device run concurrently with all of them, and the model install is one
more task. They meet only in the database and on disk, where each statement outside an
explicit transaction, each rename and each save commits by itself.

**What is hard.** A node that times out and is retried while its first call is still
out; crashes between two statements; writes that fail half way through a halt; a
thread that writes back what it read before somebody else changed it (the reconciler,
the scheduler's plan, an approval, a stop from the phone); the user answering, pausing,
stopping or cancelling while the work is under way; a notice whose answer was lost; a
window that replays a turn which is still being answered; a clock that skips or repeats
an hour; a download resumed against a file that has changed. `PROJECT.json` lists
these hazards at their lines with the properties that cover them.

## 2. Modules

| module | models |
|---|---|
| `EffectOnce` | the abstract promise: an effect takes place once, and once more for each time somebody takes it back |
| `EffectJournal` | effect journal, node loop, workers, effect verification, reconciler and task retry, the scheduler's requeue and projection, for one workflow run |
| `RoutineDelivery` | the closing notice of a one-shot routine: reservation, dispatch, channel, outcome, retry, confirmation by the user |
| `ScheduleExpression` | the next run a schedule expression asks for, as pure operators |
| `Recurrence` | successor, catch-up, missed-run policy and the plan of one claim (EXTENDS `ScheduleExpression`) |
| `OccurrenceWalk` | one schedule over a long time: sleeps, ticks, clock changes (EXTENDS `Recurrence`) |
| `RoutineScheduler` | the scheduler thread against the user, an approval thread and a dying process (EXTENDS `Recurrence`) |
| `ChatTurn` | one chat turn or queued message, with several runs, the window and restarts |
| `RemoteCommand` | the requests of a paired device against an agent, the ledger and a file |
| `ModelInstall` | the job, the commands and the files of the model installation |
| `EffectJournalProofs` | proofs of the types, the budget, at-most-once and the refinement of `EffectOnce`, and that the records of a run are true: receipts, reported successes, answers and stops |
| `RoutineDeliveryProofs` | proofs of all properties of `RoutineDelivery` but its liveness, and of its refinement of `EffectOnce` |
| `RecurrenceProofs` | what the operators of `ScheduleExpression` and `Recurrence` return for every schedule: lemmas for the next two modules (EXTENDS `Recurrence`) |
| `OccurrenceWalkProofs` | proofs of all properties of `OccurrenceWalk` (EXTENDS `RecurrenceProofs`) |
| `RoutineSchedulerProofs` | proofs of all invariants of `RoutineScheduler` |
| `ChatTurnProofs` | proofs of the invariants of `ChatTurn` |
| `RemoteCommandProofs` | proofs of all properties of `RemoteCommand` |
| `ModelInstallProofs` | proofs of the invariants of `ModelInstall` |
| `MC*` | instances for TLC (symmetry sets, small calendars, sets of schedules and requests) |

Every module has one action per transaction, or per statement where the code opens no
transaction. `EffectJournal` and `RoutineDelivery` are two implementations of the same
abstract specification, `EffectOnce`.

### EffectJournal

One instance and its nodes `1..NodeCount`, each guarding one effect under its
own idempotency key. Rows: `effect`, `digest` (`task_effects.state`,
`result_digest`), `receipt` (the latest `workflow.effect.verified` event), `log`
(verification events), `task`, `inst`, `sched`. Loops (`pc`, `at`, `on`, `code`, `mem`,
`nextRun`) are threads in `execute_workflow`; `mem` is the loop's own
`ExecutionInstance`, which a checkpoint writes over the row. Workers (`wpc`, `node`,
`inserted`, `seen`, `result`, `outcome`) are the node threads. `recon` holds what
each caller of `reconcile_all` has read. `performed` and `orphans` belong to
the outside world: how often the effect really happened, and abandoned calls that may
still take effect. A digest is the ordinal of the occurrence it describes, so that a
replayed result can be compared with what happened.

- *Granularity.* `reserve_effect` is `ReserveEffect`, `ReadBack`, `LoadReceipt`;
  `halt_for_effect_verification` is `HaltEffect`, `HaltTask`, `HaltEvent`;
  `reconcile_all` is six steps.
- *The tool.* `CallLands` may fire at any time while the call is out. A tool that
  reports success has had its effect (`CallSucceeds`), one that reports a retry-safe
  error has had none and will have none (`CallUnchanged`); every other end
  (`CallAmbiguous`) leaves the effect done, still to come, or never to come. These are
  the contracts of `ToolOutcome` that the journal relies on; the tools are external.
- *Faults.* `Crash` loses all threads; calls that were out may become orphans.
  `JournalFails` fails one database access of a worker, with the error path of the
  step it falls on; `CheckpointFails` fails the checkpoint after a completed node.
- *History.* `pardons` counts the answers "it did not happen" given while the effect
  had happened or could still happen. Such a mistake is the user's; nothing else may
  cause a repetition. `stopped` says that the user stopped an effect and that its row has
  not been released since, by a retry, by "it did not happen" or by a call that was out and
  changed nothing.

### RoutineDelivery

Starts where the workflow of a one-shot routine has completed. `due` are the threads
that finish the run: the scheduler, or the threads of permission decisions
(`Finishers`). There may be several of these. A pause is stored twice, by the
checkpoint in `execute_workflow` and by the final write of the run
(`workflow_runtime.rs:868`, `945`); a decision that claims the instance between the two
(`db.rs:3872`) has its claim undone by the second, and another decision resumes the same
pause. Every thread that finishes goes on to deliver (`StartDelivery`), whether
another has done so or not. The state is one notice and its two possible idempotency
keys (`completed`, `completed_empty`), the receipts in creation
order, the schedule row and the task. `AlreadyDelivered`, `DispatchedBefore` and
`ReserveForSend` are the three results of the reservation transaction; `Latest` is
the receipt its query finds, which is looked up by *task*, not by key, as in the
code. `MarkRoutineDeliveryDispatched` is the durable dispatch boundary;
`NoticeLands`, `ProviderAccepts`, `ProviderUnavailable` and `ProviderUncertain` are the
channel; `FinishRoutineDelivery` and `FailRoutineDelivery` the two recording
transactions; `RecordResultPolicy` … `BlockTask` the statements of
`apply_terminal_delivery_outcome`. `LegacyEmpty` selects a run that ended at a legacy
empty collection; `FaultKinds` says what may go wrong: a crash, a write, the lookup of
the task. `sent` counts notices sent under a reservation; `stray` says that one sent
without has arrived.

### ScheduleExpression, Recurrence, OccurrenceWalk

Time is counted in slots (a minute of the code). A day, a week and the months have
parametric lengths, and a zone changes its UTC offset once, at `Change`: a rise leaves a
gap of local times, a fall repeats some. The operators keep the control of the code:
the search for the first existing time after a gap, bounded by 120 minutes (`Reach`);
the cron search bounded by 366 days (`CronReach`); the division that moves a fixed
interval past now; the loop that moves the others; the end boundary; the plan that
`run_each` makes under its cap. Text is parsed away: an expression is a record.

`OccurrenceWalk` creates a schedule, lets the application sleep for any pattern of
`Naps` and makes each tick claim what is due. Its `Cadence`, the occurrences of a
schedule that is never late, and `IteratedRunAfterNow`, the catch-up without the
division, are the reference definitions that the results are compared with.

### RoutineScheduler

One recurring routine. `row` is its row of `workflow_schedules` with the policy columns,
`runs` its `routine_runs` with their instances, `lease` the scheduler's lease. `sch` is
the scheduler thread with everything it read before a transaction and uses after it (the
claimed row, the plan, the outcome); `perm` is the thread that resolves an approval.
`poll` and `wake` are the two ways the worker loop leaves its wait. The commands of the
user and the death of the process fall between any two steps. `TickErrs` is every `?` of
`run_scheduler_tick` and of what it calls (a failing access to the database, a search
for the next occurrence that gives up): the tick returns without a write, with the
routine still claimed if it was. `ApprovalErrs` is the same for the approval thread. `anchors`,
`asked`, `drift`, `reopened` and `left` are history: the instants from which the user fixed a
cadence, those at which Run Now asked for a run, those to which a transient failure
moved the next run, whether the routine was made active again after it hit its
threshold, and whether the tick that made the present claim has failed or died.

### ChatTurn

`turn` is the row of `chat_turns`, `user` the message with its metadata, `results` the
terminal messages, `queue` the row of a queued turn. Each run of `run_chat_turn` walks
through its transactions (`finish`, `policy`, `accept`, `message`, `resume`, `freeze`,
`begin`, `claim`, `save`, `answering`, `complete`, `failing` …), with the guard that
interrupts the turn when it is dropped (`drop`). The window accepts, resumes, finalizes,
abandons and cancels in between; `Restart` is the recovery in `db.rs`. `shown` is
history: the runs that returned an answer.

### RemoteCommand

One device, one task that an agent runs, one verified file. Calls (`call`) are threads
in `execute_remote_command` and `retrieve_remote_artifact`; what they check and what
they use it for are separate steps. `mac` is a thread of the Mac in `control` or in
`reconcile_all`, which reads a state, writes it and appends its event in three
statements. `delivered` is what the device has received.

### ModelInstall

`disk` is `install-state.json` and `mem` the runtime's copy; `job` is the installation
with its local variables; `part`, `done` and `pkg` are the partial files, the sealed
files and the package. A chunk is known by the version of the remote file that it comes
from, so a file is genuine iff all of its chunks are of the release. The server may
change its file, send any validator or none, and answer a range under the right
validator with bytes of another version. `Cancel` notes whether the job is still going
to look for it (`InTime`).

### Mutants

Definitions marked "Mutant of X" are plausible bugs of X. They are used by no
specification; each is substituted for X to see that the property it is listed with
is able to fail.

## 3. Runs

`tlc -workers 2 -config <cfg> <module>`; none takes longer than a few minutes.

| run | states | what it shows |
|---|---|---|
| `effect_journal` (`MCEffectJournal.cfg`) | 1,190,160 | two permission threads, two nodes, two workers, three runs, two answers, one fault: `EffectOnce` is implemented; `Budget`, `VerifiedHasReceipt`, `SuccessIsReal`, `ResolvedOnce` and `StopIsFinal` hold |
| `effect_retry` (`MCEffectRetry.cfg`) | 1,215,170 | the scheduler's requeue, a task retry or an answer, a concurrent reconciler and a fault: `AtMostOnce`; under fairness, a halt is reported (`HaltIsReported`) |
| `delivery` (`MCDelivery.cfg`) | 471,637 | one finishing thread, the scheduler's or a permission's, three sends, a confirmation, two faults, changing keys, failing lookups: `EffectOnce` is implemented; `OneReceiptPerKey`, `ClosedIsDelivered`; under fairness, `FaultFreeRetryIsTaken` |
| `routine_scheduler` (`MCRoutineScheduler.cfg`) | 943,006 | scheduler, user, approval, failing ticks and restarts: `OneRunPerOccurrence`, `DueOnlyWhereAsked`, `ThresholdStops`, `OnlyFailuresLeaveClaims`; under fairness, `AnnouncedWorkIsServed` |
| `occurrence_walk` (`MCOccurrenceWalk.cfg`) | 103,559 | every kind of schedule, policy and zone: `StaysOnCadence`, `ShortcutIsIteration`, `OverlapRunsOnce`, `RetiresOnlyAtItsEnd`, `CatchesUp`, `RunEachLeavesNoHole` |
| `chat_turns` (`MCChatTurn.cfg`) | 113,248 | two runs of one turn, seven calls of the window, a restart: `OneResult`, `OneResponder`, `ReportedIsStored`, `UnansweredIsRecoverable`; under fairness, `QueueSettles` |
| `remote_commands` (`MCRemoteCommand.cfg`) | 235,840 | two requests, two threads, two events of the Mac: `MacVersionWins`, `StopIsReal`, `SentOnceAsApproved`, `RevocationHolds` |
| `model_install` (`MCModelInstall.cfg`) | 973,422 | two attempts at two assets: `ReadyIsGenuine`, `PreviousIsKept`, `CancelIsHonoured` |
| `effect_scheduled_recovery` (`MCEffectScheduledRecovery.cfg`) | violation | `SavedForRecovery`, see findings |
| `occurrence_dst` (`MCOccurrenceDst.cfg`) | violation | `OncePerLocalDay`, see findings |
| `delivery_race` (`MCDeliveryRace.cfg`) | violation | `SentOnce` with two permission threads, see findings |
| `scheduler_drift` (`MCSchedulerDrift.cfg`) | violation | `NeverDrifts`, see findings |

Deadlock is not checked: work that is finished, with nothing left to do, is a normal
end of each of these systems.

**Bounds.**
- *Journal.* Two nodes are enough for a completed node behind a failing one; two
  workers for a late worker next to its successor, two permission threads for two loops
  over the same nodes; `MaxRuns = 3` for both of them after a run that paused, and for a
  retry of a retry (where an answer to an *old* request can be mistaken for an answer
  to the new one); one fault, because it falls between any two statements and a
  second adds only another restart; two answers because `ResolvedOnce` is about pairs. This
  run has no scheduler; the one that has, `effect_retry`, has a single worker, so that
  two calls at once next to a requeue are left to the theorems, which hold for any
  number of workers with and without a scheduler.
- *Notice.* Three sends give a first attempt, a retry and a retry after a confirmation;
  two faults give a lookup or a write that fails and a crash after it.
- *Schedules.* Days of 6 slots, weeks of 3 days and short months keep every wrap-around
  within the horizon; the clock changes once in the middle of it, forward or back. `Naps`
  of 2 and 9 slots are shorter and longer than a day, so that a sleep misses none, one or
  more occurrences than the cap. The code's loops have no bound; `MaxCatchUp` is at least
  the horizon (an assumption of the module), so that the modelled ones never meet theirs.
  A cron expression for one day of the week finds no next run within `CronReach` from
  some instants, which is the error path of the search.
- *Scheduler.* A cap of 2 under `run_each`, a threshold of 1 and an end boundary in reach
  let plans of two runs, failures, requeues and the retirement meet within `MaxTime`;
  the claim lease is longer than the scheduler lease, as in the code. `MaxEvents = 2` is
  a pair of commands, failed ticks or crashes, in any mixture.
- *Turns.* Two runs for a pair of responders; seven calls let a turn be accepted, run,
  replayed, interrupted, resumed, and cancelled or abandoned. All three kinds of turn are
  initial states.
- *Remote.* Two requests, two threads, and the pairs of kinds and nonces in `MCAsked`:
  two stops with one nonce or seen at different times, a stop next to a file, two files
  with one nonce, and the kinds that change nothing.
- *Install.* Two chunks give a partial file between empty and complete; two assets give
  a finished one before the one under way; two attempts and one crash give a resumption
  and a second take-over of the settings.

Every action of every specification fires in a passing run.

**Fairness.** `effect_retry`: weak fairness of each worker, whose calls end by the tool
timeout at the latest. Nothing is assumed about loops, the scheduler, the user, faults,
time or the outside world. `delivery`:
weak fairness of each delivery thread (calls to a channel return), of the backoff (time
passes) and of the scheduler's poll; the property is claimed for behaviours without a
fault. `routine_scheduler`: weak fairness of the
scheduler thread's steps (its calls return) and of the approval thread, and strong
fairness of the clock, which is not stopped by what the threads do between two ticks of
it; ticks may fail, but not for ever (`MaxEvents`). `chat_turns`: weak fairness of each
run, whose inference calls end or fail; the
window need not do anything.

## 4. Proofs

The theorems hold for every value of the constants that satisfies the named
assumptions of the modules (sets of workers, threads and devices of any size, any number
of runs, answers, requests, retries, crashes and faults). Each inductive invariant was
checked by TLC on a run's instance before it was proved. A step lemma has one case per
action; a lemma that says what an action leaves alone covers the rest.

### EffectJournal

- `TypeCorrect`: `Spec => []TypeOK`. `TypeOK` is inductive as it is; there is one
  lemma per action.
- `BudgetHolds`: `Spec => []Budget`. This is the inductive
  strengthening of at-most-once. `AtMostOnce` speaks of effects that have happened; it says
  nothing of a call that is out, of an abandoned call, or of a row that could be claimed
  again, so a step may break it without having been forbidden. `Budget` counts all of
  them: `Used(k) = performed + orphans + permits`, where a permit is a worker whose call is
  out without effect, or which is about to release its claim. `Used(k)` never exceeds
  `1 + pardons[k]`, and falls short of it while the row is absent or reserved. Only
  `ClaimEffectExecution` issues a permit, and it takes the row from reserved to executed
  in the same `UPDATE`; only a release by the permit's holder, or by the user, makes the row
  claimable again.
- `EffectAtMostOnce`: `Spec => []AtMostOnce`, from the budget.
- `JournalImplementsEffectOnce`: `Spec => ImplementsEffectOnce`. The
  refinement maps `done` to `performed` and `allowed` to `1 + pardons`. `CallLands` and
  `OrphanLands` are the abstract `Perform`, enabled by the budget;
  `ResolveDidNotHappen` is `TakeBack` or a stutter; every other action leaves the three
  variables alone.
- `ReportedSuccessIsReal` and `VerifiedRowsHaveReceipts` (`SuccessIsReal`,
  `VerifiedHasReceipt`), from the inductive invariant `RecordsAgree`. A success travels from
  the call to a worker's result, the receipt, the row, the worker's report, the loop's
  copy of the instance, the stored instance, the reconciler's copy of its status and the
  task, each in a step of its own. The invariant says what each of them may hold, that a
  loop waits for a worker of its own which runs the loop's node, and that a worker in
  `reconcile_all` has not begun with its effect (its return would send the worker back).
- `RequestsResolvedOnce` (`ResolvedOnce`): an answer names an earlier request for the same
  effect, so a second one would have found the request resolved.
- `StopsAreFinal` (`StopIsFinal`): while a stop stands, the row is neither absent nor
  reserved, and a call begins with a claim.

### RoutineDelivery

- `DeliveryTypes`, `DeliveryClosedIsDelivered`, `DeliveryOneReceiptPerKey`: for any
  number of threads that deliver, under every fault and with changing keys.
  `ClosedIsDelivered` needs `Evidence`, which says where a closed routine comes from: a
  delivered receipt is never taken back, and a thread at each of the steps that end in
  closing (`policy`, `reconcile`, `status`) has seen one. `OneReceiptPerKey` needs
  `KeysPay`: the reservation brings a new receipt only together with a new key.
- `DeliveryImplementsEffectOnce` has two hypotheses. `OneFinisher`: one thread finishes the
  run. Without it the promise is false, which is the finding of `delivery_race`.
  `OneKey`: the run did not end at a legacy empty collection, and the lookup of the task
  does not fail; it lets the proof speak of one key and one receipt (`KeyAndReceipt`). The
  run `delivery` is without `OneKey`. The budget
  counts notices that arrived, those that may still arrive and those whose receipt is about
  to be given back as unsent. It is inductive only together with `NothingYet` and
  `Orderly`: a permission thread makes the first attempt or none, and
  before the scheduler makes any, so that a retry-safe failure cannot be recorded over
  somebody else's attempt.

### RoutineScheduler

`SchedulerTypeOK`, `SchedulerDueOnlyWhereAsked`, `SchedulerOneRunPerOccurrence`,
`SchedulerThresholdStops`, `SchedulerOnlyFailuresLeaveClaims`, for every interval, backoff,
threshold, catch-up bound and number of failed ticks and restarts. `Types` is stronger than
`TypeOK`: every occurrence in a row, a run, a claim or a permission lies on a cadence that
the user, Run Now or a transient failure started (`Times`, closed under the interval),
and each step of the scheduler and of the approval thread holds the claim or the run that
the steps after it use (`Pointers`, `Stages`). `ClaimHeld` says that a claimed row has its
scheduler in the middle of it, or is marked as `left` by a tick that failed or died.
What a due claim plans is a walk over `Successors` (`RoutineSuccessors`, `PlanOfClaim`).

### Recurrence, OccurrenceWalk

`WalkStaysOnCadence`, `WalkShortcutIsIteration`, `WalkOverlapRunsOnce`,
`WalkRetiresOnlyAtItsEnd`, `WalkCatchesUp`, `WalkRunEachLeavesNoHole`: all properties of
`OccurrenceWalk`, for every schedule in `Schedule` (every expression, policy, cap, window and
end boundary), every zone and calendar, every instant of creation and every pattern of
sleeps up to any horizon. `Zone` says what is assumed of a clock: it is set back by less
than a day, and instants are counted from a day on which no local time is negative.

1. *One candidate* (`RecurrenceProofs`). The candidate after an instant is later than it,
   or the search has failed (`CandidateIsLater`, one lemma per expression and per
   code path: device-local, in a time zone, in a gap, in an overlap). Months of different
   lengths need that the first day of a month grows with its number, so that adding a
   month moves a day even if it is clamped (`MonthsMoveADay`). For a routine the candidate
   is also the first instant of its local time (`CandidateIsFirst`): two occurrences with
   one local time are one, which is `OverlapRunsOnce`.
2. *The walk.* `Successors` is a path of successors, it ends with None, an error or an
   instant after now, and it grows strictly (`SuccessorsIsPath`, `PathIncreases`). The
   induction runs over the well-founded order on the subsets of a finite segment (lemma
   `Segment`), because the induction theorems over numbers take an operator the provers
   cannot instantiate. For a fixed interval the points of the path are multiples, which
   gives `DivisionIsIteration`: the division and the loop agree.
3. *The cadence.* It is closed under the successor (`CadenceIs`), an occurrence
   without a successor is its last one (`EndOfCadence`), and the walk from one of its
   points passes all that is due (`DueIsOnThePath`).
4. *The invariant* `Walks`: what ran and what is next is on the cadence (`OnCadence`), what
   ran is behind what is next (`Ahead`), and a schedule without a next run has reached
   its end boundary or the last of its cadence (`Retired`). `RetiresOnlyAtItsEnd` is not
   inductive: it forgets *why* there is no next run. A tick finishes, releases or runs
   the first points of the walk (`TickStep`), from which the two action properties follow.

### ChatTurn

`TurnTypes`, `TurnOneResult`, `TurnOneResponder`, `TurnReportedIsStored`,
`TurnUnansweredIsRecoverable`. None of the properties is inductive, because the steps of a
run trust what an earlier transaction of the same run has seen. `RowsAgree` ties turn,
message and results together (a turn that is not there is untouched, one with a result
has its status, one without is open or failed); `RunsAgree` says that a run which answers
holds the claim of a turn bound to its route, so that no other run can claim,
interrupt or complete it; `AnswersAgree` that what was shown is what is stored.

### RemoteCommand

`RemoteTypes`, `RemoteStopIsReal`, `RemoteMacVersionWins`, `RemoteSentOnce`,
`RemoteRevocationHolds`. The stops are inductive next to the types. `SentOnceAsApproved`
needs `Ledgers`: a grant belongs to a stored command, stored commands have
different nonces, and a delivery has used its grant up. `RevocationHolds` is an
action property; it follows from `Revoked`: a revocation that has returned left no grant
open and nobody who could still add one.

### ModelInstall

`InstallTypes`, `InstallCancelIsHonoured`, `InstallPreviousIsKept`,
`InstallReadyIsGenuine`. A cancellation in time stays ahead of a check of the flag
(`CancelSeen`). The two journals never differ in what they know of the previous
configuration, and while the new model is set and not listed there is a package that
keeps the installation from being discarded (`SameJournals`, `KeepsPrevious`). The
identity of a package grows with each of its changes, so that one that was hashed
stands for one content (`HashedIsGenuine`); what is sealed has been verified
(`StagedIsGenuine`).

### Only model-checked

Liveness (`HaltIsReported`, `FaultFreeRetryIsTaken`, `AnnouncedWorkIsServed`,
`QueueSettles`), which is out of the prover's reach. Every other property of a passing run
is the statement of a theorem.

## 5. Findings

1. *A halted routine run loses its recovery* (`effect_scheduled_recovery`,
   `workflow_scheduler.rs:1056`). The worker halts, blocks the task as recoverable and
   asks the user; the loop ends Failed; the scheduler's projection then writes `failed`,
   `reconciled` over the task, and `resolve()` refuses every answer.
   The same state is reached without a scheduler when `reconcile_all` has asked for an
   unresolved verification (`tasks/repository.rs:398`) just before the halt and writes
   the task just after it: `SavedForRecovery` fails as well with `Scheduled = FALSE` and
   one caller in `Ledger`.
2. *A daily routine in the gap of a clock change runs again and again* (`occurrence_dst`,
   `schedule_expression.rs:131`). If the clock skips the local time of
   the routine, the next run after any instant up to 120 minutes past that time is the
   first existing minute after the instant. The run at the end of the gap is therefore
   followed by one a minute later, and so on until the two hours are over.

3. *Two threads that finish one run send its notice twice* (`delivery_race`,
   `workflow_scheduler/delivery.rs:106`). Both reserve, the second on the pending receipt
   of the first. The first dispatches and sends. The dispatch of the second changes no
   row, which its caller takes for a provider that has not been called: it fails the
   receipt as safe to retry, and `fail_routine_delivery` sets the executed effect back to
   reserved (`delivery.rs:477`). After the backoff a tick sends the notice again, without a
   confirmation. `SentOnce` fails with two permission threads and no fault at all.
4. *A transient failure moves the cadence* (`scheduler_drift`,
   `workflow_scheduler/retry.rs:125`). The requeue stores the wall clock plus the backoff
   as the next run. The retry is claimed as an occurrence of its own, and an interval is
   counted on from there, although the comments at `workflow_scheduler.rs:776` rule out
   "wall-clock drift" and say that a retry keeps its logical occurrence. `NeverDrifts` asks
   for the cadence once the retry is over; `DueOnlyWhereAsked` is claimed for
   behaviours without such a failure.

Seen while modelling, without a run of its own:

*Effects and notices.*
- A stop does not bind a call that is already out. If that call ends with a retry-safe
  error, `release_unchanged_effect` deletes the row whatever the user has answered
  (`effect_journal.rs:296`), and a worker that a timed-out loop left behind before its
  reservation may then claim the effect and call the tool. It takes two such workers next to
  the one that asked. Without this exception `StopIsFinal` holds with two workers, and TLC refutes it
  with three workers and three runs (`Scheduled = TRUE`).
- A halt after the node's timeout cannot be answered: the payload carries the timeout, and
  `resolve()` insists on the verification error (`workflow_runtime.rs:3132`).
- A lookup of the task that fails makes an attempt send the notice without a reservation,
  so that a later attempt may send it a second time (`workflow_scheduler/delivery.rs:74`).
  Such stray notices have no effect row and are not among those `ImplementsEffectOnce`
  counts.
- A reservation that fails parks the routine for a review, but there is neither a receipt
  nor an effect the user's confirmation could find (`delivery.rs:103`).
- A crash after the reservation of a retry leaves a pending receipt; only failed ones are
  retried, so the routine stays "retrying" (`delivery.rs:503`).
- The retry of a run that ended at a legacy empty collection uses another key
  (`workflow_scheduler.rs:625`), and with it a second receipt may appear, one per key
  (`OneReceiptPerKey`).
- The task of a parked delivery is marked completed by the next `reconcile_all`; a
  cancelled task becomes failed at the next projection.

*Scheduler.*
- A tick that returns early with an error after its claim (`workflow_scheduler.rs:274`)
  leaves the routine claimed, and shown as Running, for the thirty minutes of the claim
  lease (`OnlyFailuresLeaveClaims` says that nothing else does, `AnnouncedWorkIsServed`
  that it is served then).
- `resume_routine` does not wake the scheduler (`routines/commands.rs:80`): if it rests
  because nothing was active, a resumed routine waits for another reason to wake it.
  Hence the premise of `AnnouncedWorkIsServed`.
- The requeue of a transient failure sets `is_active = 1`, which also undoes a pause that
  came in between; a `run_each` plan goes on after a pause; `record_result_policy` may
  deactivate a routine after a Run Now that came in between.
- A crash during a retry leaves the instance Running, so that the routine cannot be
  deleted; an approval that ended in an error does the same.
- An approval that is reconciled before the scheduler has stored the result of a Run Now
  moves the cadence to the instant of the Run Now. AwaitingApproval resets the count
  of failures.
- The cron search gives up after 366 days ("Cron schedule has no run in the next year"), as
  it does for 29 February. `claimed_occurrences_at` needs the run after the due one and
  fails with it (`workflow_scheduler/recurrence.rs:198`): the due occurrence never runs,
  its row is claimed and fails again whenever the claim has expired, and the `?` in
  `run_scheduler_tick` (`workflow_scheduler.rs:274`) leaves the schedules claimed after it
  in the same poll unrun until their claims expire too. In `OccurrenceWalk` such a tick
  changes nothing; in `RoutineScheduler` it is a `TickErrs`, of which there are finitely many:
  `AnnouncedWorkIsServed` says nothing of a routine whose search errs on every tick.
- A monthly routine on the 31st moves to the 28th in February and stays there; a calendar
  "every day" keeps the hour it got from a gap.

*Chat turns.*
- A queued message that is executing when the process dies stays `executing`
  (`QueueSettles` excludes the crash). A failed one is offered "retry"
  (`tasks/repository.rs:34`), but the turn its id names has ended.
- A turn that was claimed when the process died is shown as interrupted and refuses to be
  resumed; only cancel and abandon close it.
- `accept_chat_turn` checks and writes in two transactions, so it may set the message of a
  turn that has ended meanwhile back to `accepted`.

*Remote access.*
- An accepted command whose execution fails or dies stays `accepted`; its id and nonce are
  refused from then on.
- `reconcile_all` and the end of an agent change the state of a task without an event, so
  the sequence a device compares does not see them.

*Model install.*
- A cancellation while the last asset is hashed, or in a later phase, is accepted and
  ignored: the package is activated (`InTime` draws the line).
- After a crash during the download the journal's `Downloading` is shown with
  `can_cancel`, and without `can_resume`, although nothing runs.
- A retried installation goes back to the configuration before its *first* attempt, over
  a choice the user made in between.
- A damaged package can be neither repaired nor discarded by the installer.
- A package that changes between its hashing and the binding of its identity goes
  unnoticed (`ReadyIsGenuine` excludes this); deleting an unfinished package by hand and
  discarding the installation loses the previous configuration (`PreviousIsKept`
  excludes it).

*Taskflow* (read, not modelled).
- Resuming or retrying a flow from the task list makes it `queued` without touching its
  failed step (`tasks/adapters.rs:67`), and the executor passes over every step that is
  not queued (`taskflow.rs:745`). If the failed step was the last one, the next execution
  marks the flow verified. The renderer checks the steps again before it says so.
- The executor walks the steps it read at the start, and its writes of a step or of the
  flow have no guard (`taskflow.rs:2248`): a cancellation from the task list during an
  execution is overwritten.

## 6. Not modelled

- `EffectJournal`: the gating of a one-shot's projection by its delivery (that is
  `RoutineDelivery`), `verify_scheduled_postcondition`, failing writes of the first
  checkpoint, of a pause and of the final write, the clean-up of rows older than 90
  days, a panic of a worker (it ends as a timeout does), the commands `reserve_task_effect`
  and `verify_task_effect`, and the ledger's acknowledge, cancel and resume.
- `RoutineDelivery`: what the notice says, quiet hours, and recurring routines, whose
  delivery closes nothing.
- `RoutineScheduler`: the permission to work in the background, duplication, proposals
  parsed from text, one-shot routines (their end is `RoutineDelivery`).
- `ChatTurn`: agent executions and permission waits that reopen turns, checkpoints, parent
  turns, the deletion of a session and its undo.
- `RemoteCommand`: pairing (compiled for tests only), the label of a device, stops of a
  taskflow or of a queued message; expiry, denial and failed writes are one action,
  `GiveUp`. An answer is given at the commit of its transaction: one that was committed
  before a revocation may in fact reach the device just after it.
- `ModelInstall`: the choice between destinations, redirects and address checks, links
  and permissions of files, free space, the resident runtime. The identity of a
  package is metadata (`destination.rs:106`): `PackageChanges` is a write by another
  program, which moves it; contents that a disk changes silently are not seen, by the
  code or by `ReadyIsGenuine`.
- Workflow compilation, templates, conditions and loops inside a workflow are data for
  these models: a node is something that guards an effect.
- Inference, the agentic loop, tools, connectors, MCP, documents, memory and search, the
  renderer and the release tooling: numeric code, model-driven control, parsing or I/O,
  whose durable consequences enter the models as external calls. They are most of the
  repository's lines.

## 7. Plan

1. `TaskLedger`: `control` and `reconcile_all` for every runtime, with cancellation,
   acknowledgement and resumption; taskflow as a second runtime, with the two
   observations above as its first properties.
2. `AgentExecution`: begin, heartbeat, lease, restart recovery, permission continuations, and
   its composition with `ChatTurn`; delegation budgets on top.
3. Decision codes of remote routines and their expiry; the destinations of the model
   install.
