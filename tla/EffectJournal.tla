--------------------------- MODULE EffectJournal ---------------------------
(***************************************************************************)
(* One workflow run and the protected effects of its nodes: the durable    *)
(* effect journal (workflow_runtime/task_tools/effect_journal.rs), the     *)
(* node loop that drives it and gives up on it, the ledger's task row and  *)
(* its reconciler, the scheduler's projection of a finished run, and the   *)
(* user's answer to "did the action happen?".                              *)
(*                                                                         *)
(* A node's tool call runs in a worker thread of its own. The loop waits   *)
(* for it with a timeout; a worker that outlives the timeout keeps going   *)
(* and only its answer is dropped. Every database statement that runs      *)
(* outside a transaction is a step of its own, so loops, workers, the      *)
(* reconciler and the user interleave between any two of them, and a crash *)
(* may fall between any two of them.                                       *)
(***************************************************************************)
EXTENDS Integers, Sequences, FiniteSets

CONSTANTS
    NodeCount,    \* nodes of the workflow, each guarding one protected effect
    Runner,       \* the thread that claims and runs the instance
    Approvers,    \* threads that resume it after a permission decision
    Workers,      \* bound: worker threads alive at once
    Ledger,       \* callers of reconcile_all outside a run (app start, UI)
    Scheduled,    \* TRUE: a routine run (routine_runs row); FALSE: run directly
    MaxRuns,      \* bound: times the instance is run or resumed
    MaxDecisions, \* bound: answers and retries of the user
    MaxFaults     \* bound: crashes and failed database accesses

NULL == 0         \* the SQL NULL, and no worker

ASSUME NodeCountAssumption == NodeCount \in Nat \ {0}
ASSUME ThreadsAssumption == Runner \notin Approvers /\ IsFiniteSet(Approvers)
ASSUME WorkersAssumption ==
    /\ IsFiniteSet(Workers) /\ NULL \notin Workers
    /\ Workers \cap Ledger = {}
ASSUME ScheduledAssumption == Scheduled \in BOOLEAN
ASSUME BoundsAssumption ==
    MaxRuns \in Nat /\ MaxDecisions \in Nat /\ MaxFaults \in Nat

Nodes == 1 .. NodeCount
Threads == Approvers \cup {Runner}
Callers == Workers \cup Ledger

EffectStates == {"absent", "reserved", "executed", "verified"}
TaskStates == {"absent", "queued", "awaiting_approval", "running", "blocked",
               "completed", "failed", "cancelled"}
InstanceStates == {"absent", "Pending", "Running", "AwaitingApproval",
                   "Completed", "Failed"}
NodeStates == {"todo", "Completed", "verify", "network", "other"}
Decisions == {"did_not_happen", "happened", "stop_without_repeating"}
LoopSteps == {"idle", "start", "next", "waiting", "completed", "failed",
              "finish", "requeue", "project", "projectWrite", "persist"}
WorkSteps == {"free", "bind", "reserve", "readBack", "receipt", "claim",
              "claimReceipt", "calling", "release", "verify", "record",
              "reconcile", "haltEffect", "haltTask", "haltEvent", "done"}
ReconSteps == {"idle", "retry", "rows", "check", "upsert", "list", "state",
               "update"}

VARIABLES
    effect,     \* task_effects.state of each node's idempotency key
    digest,     \* task_effects.result_digest: which occurrence it describes
    receipt,    \* digest in the latest workflow.effect.verified event
    log,        \* verification events, and the user's retries
    task,       \* task_runs: state and recovery_state
    inst,       \* execution_instances: status and node payloads
    sched,      \* workflow_schedules: due, claimed, last_instance_id is ours
    pc, at, on, \* each loop: its next step, its node, the worker it waits for
    code,       \* each loop: the error class of the node failure it holds
    mem,        \* each loop: its in-memory ExecutionInstance
    nextRun,    \* each loop: the schedule was due when it was read
    wpc, node,  \* each worker: its next step and its node
    inserted,   \* each worker: its INSERT created the row, still reserved
    seen,       \* each worker: the digest in the row it read back
    result,     \* each worker: digest of the result it holds
    outcome,    \* each worker: what it will report to its loop
    recon,      \* each caller of reconcile_all: its next step and what it read
    performed,  \* external: how often each effect really happened
    orphans,    \* external: abandoned calls that may still take effect
    pardons,    \* history: "did not happen" answered while the effect had
                \* happened or could still happen
    stopped,    \* history: the user stopped the effect; since then neither
                \* the user nor a call that changed nothing has released it
    runs, decisions, faults

journal == <<effect, digest, receipt>>
rows == <<log, task, inst, sched>>
loops == <<pc, at, on, code, mem, nextRun>>
works == <<wpc, node, inserted, seen, result, outcome>>
world == <<performed, orphans, pardons, stopped>>
bounds == <<runs, decisions, faults>>
vars == <<effect, digest, receipt, log, task, inst, sched, pc, at, on, code,
          mem, nextRun, wpc, node, inserted, seen, result, outcome, recon,
          performed, orphans, pardons, stopped, runs, decisions, faults>>

NoInstance == [status |-> "absent", nodes |-> [k \in Nodes |-> "todo"]]
NoRecon == [step |-> "idle", status |-> "absent"]

Init ==
    /\ effect = [k \in Nodes |-> "absent"]
    /\ digest = [k \in Nodes |-> NULL]
    /\ receipt = [k \in Nodes |-> NULL]
    /\ log = <<>>
    /\ task = [state |-> "absent", recovery |-> "reconciled"]
    /\ inst = NoInstance
    /\ sched = [due |-> Scheduled, claimed |-> FALSE, last |-> FALSE]
    /\ pc = [t \in Threads |-> "idle"]
    /\ at = [t \in Threads |-> 1]
    /\ on = [t \in Threads |-> NULL]
    /\ code = [t \in Threads |-> "other"]
    /\ mem = [t \in Threads |-> NoInstance]
    /\ nextRun = [t \in Threads |-> FALSE]
    /\ wpc = [w \in Workers |-> "free"]
    /\ node = [w \in Workers |-> 1]
    /\ inserted = [w \in Workers |-> FALSE]
    /\ seen = [w \in Workers |-> NULL]
    /\ result = [w \in Workers |-> NULL]
    /\ outcome = [w \in Workers |-> "other"]
    /\ recon = [c \in Callers |-> NoRecon]
    /\ performed = [k \in Nodes |-> 0]
    /\ orphans = [k \in Nodes |-> 0]
    /\ pardons = [k \in Nodes |-> 0]
    /\ stopped = [k \in Nodes |-> FALSE]
    /\ runs = 0
    /\ decisions = 0
    /\ faults = 0

(***************************************************************************)
(* Events and the ledger's view of them.                                   *)
(***************************************************************************)

Event(type, k, ref, d) == [type |-> type, key |-> k, ref |-> ref,
                           decision |-> d]
Required(k) == Event("required", k, 0, "none")
Resolved(k, seq, d) == Event("resolved", k, seq, d)

\* A required event with no later answer for the same effect.
Unresolved(k) ==
    {i \in DOMAIN log :
        /\ log[i].type = "required" /\ log[i].key = k
        /\ \A j \in i + 1 .. Len(log) :
              ~(log[j].type = "resolved" /\ log[j].key = k)}

\* Required events whose own sequence no answer names.
Unanswered ==
    {i \in DOMAIN log :
        /\ log[i].type = "required"
        /\ \A j \in i + 1 .. Len(log) :
              ~(log[j].type = "resolved" /\ log[j].ref = i)}

\* TASK_SELECT's effect_verification_required.
EffectVerificationRequired ==
    \E k \in Nodes : effect[k] = "executed" /\ Unresolved(k) # {}

HasUnverifiedEffects ==
    \E k \in Nodes : effect[k] \in {"reserved", "executed"}

\* Mutant of CanonicalState: the runtime's status is stored as it is.
RawState(status) == status

\* The task state an instance status stands for.
CanonicalState(status) ==
    CASE status = "Pending" -> "queued"
      [] status = "Running" -> "running"
      [] status = "AwaitingApproval" -> "awaiting_approval"
      [] status = "Completed" -> "completed"
      [] OTHER -> "failed"

Terminal(state) == state \in {"completed", "failed", "cancelled"}

(***************************************************************************)
(* Steps of loops and workers.                                             *)
(***************************************************************************)

Goto(t, step) == pc' = [pc EXCEPT ![t] = step]
WorkTo(w, step) == wpc' = [wpc EXCEPT ![w] = step]

\* The loops in S return or die, and their local variables with them.
Leave(S) ==
    /\ pc' = [t \in Threads |-> IF t \in S THEN "idle" ELSE pc[t]]
    /\ at' = [t \in Threads |-> IF t \in S THEN 1 ELSE at[t]]
    /\ on' = [t \in Threads |-> IF t \in S THEN NULL ELSE on[t]]
    /\ code' = [t \in Threads |-> IF t \in S THEN "other" ELSE code[t]]
    /\ mem' = [t \in Threads |-> IF t \in S THEN NoInstance ELSE mem[t]]
    /\ nextRun' = [t \in Threads |-> t \notin S /\ nextRun[t]]

\* The workers in S end.
Exit(S) ==
    /\ wpc' = [w \in Workers |-> IF w \in S THEN "free" ELSE wpc[w]]
    /\ node' = [w \in Workers |-> IF w \in S THEN 1 ELSE node[w]]
    /\ inserted' = [w \in Workers |-> w \notin S /\ inserted[w]]
    /\ seen' = [w \in Workers |-> IF w \in S THEN NULL ELSE seen[w]]
    /\ result' = [w \in Workers |-> IF w \in S THEN NULL ELSE result[w]]
    /\ outcome' = [w \in Workers |-> IF w \in S THEN "other" ELSE outcome[w]]

\* The worker reports o to its loop, and holds nothing else any more.
Report(w, o) ==
    /\ WorkTo(w, "done")
    /\ outcome' = [outcome EXCEPT ![w] = o]
    /\ result' = [result EXCEPT ![w] = NULL]

\* The worker abandons the result it may hold and halts for verification.
Halt(w) ==
    /\ WorkTo(w, "haltEffect")
    /\ result' = [result EXCEPT ![w] = NULL]

(***************************************************************************)
(* Starting and resuming a run.                                            *)
(***************************************************************************)

\* The first run: instance, task and routine_runs row in one transaction.
BeginRun ==
    /\ runs < MaxRuns /\ runs' = runs + 1
    /\ pc[Runner] = "idle" /\ inst.status = "absent"
    /\ Scheduled => sched.due /\ ~sched.claimed
    /\ inst' = [inst EXCEPT !.status = "Pending"]
    /\ task' = [state |-> "running", recovery |-> "reconciled"]
    /\ sched' = [sched EXCEPT !.claimed = Scheduled]
    /\ mem' = [mem EXCEPT ![Runner] = inst']
    /\ Goto(Runner, "start")
    /\ UNCHANGED <<journal, log, at, on, code, nextRun, works, recon, world,
                   decisions, faults>>

\* A claimed schedule whose last instance is Pending runs it again.
RetryRun ==
    /\ runs < MaxRuns /\ runs' = runs + 1
    /\ pc[Runner] = "idle" /\ Scheduled
    /\ sched.due /\ ~sched.claimed /\ sched.last
    /\ inst.status = "Pending"
    /\ task' = [state |-> "running", recovery |-> "reconciled"]
    /\ sched' = [sched EXCEPT !.claimed = TRUE]
    /\ mem' = [mem EXCEPT ![Runner] = inst]
    /\ Goto(Runner, "start")
    /\ UNCHANGED <<journal, log, inst, at, on, code, nextRun, works, recon,
                   world, decisions, faults>>

\* A claimed schedule whose last instance is not Pending starts another
\* instance, or only advances when its occurrence is already recorded.
OtherRun ==
    /\ pc[Runner] = "idle" /\ Scheduled
    /\ sched.due /\ ~sched.claimed
    /\ inst.status # "absent"
    /\ ~(sched.last /\ inst.status = "Pending")
    /\ \E last \in {sched.last, FALSE} :
          sched' = [due |-> FALSE, claimed |-> FALSE, last |-> last]
    /\ UNCHANGED <<journal, log, task, inst, loops, works, recon, world,
                   bounds>>

\* Time reaches the next occurrence.
OccurrenceDue ==
    /\ Scheduled /\ ~sched.due /\ inst.status # "absent"
    /\ sched' = [sched EXCEPT !.due = TRUE]
    /\ UNCHANGED <<journal, log, task, inst, loops, works, recon, world,
                   bounds>>

\* The claim of a scheduler that died lapses after CLAIM_LEASE_MS.
ClaimLapses ==
    /\ sched.claimed /\ pc[Runner] = "idle"
    /\ sched' = [sched EXCEPT !.claimed = FALSE]
    /\ UNCHANGED <<journal, log, task, inst, loops, works, recon, world,
                   bounds>>

\* A permission decision claims the paused instance for one thread, which
\* runs the loop from the node that paused.
ResumeAfterPermission(t) ==
    /\ runs < MaxRuns /\ runs' = runs + 1
    /\ pc[t] = "idle" /\ t \in Approvers
    /\ inst.status = "AwaitingApproval"
    /\ inst' = [inst EXCEPT !.status = "Running"]
    /\ mem' = [mem EXCEPT ![t] = inst']
    /\ Goto(t, "start")
    /\ UNCHANGED <<journal, log, task, sched, at, on, code, nextRun, works,
                   recon, world, decisions, faults>>

(***************************************************************************)
(* The node loop of execute_workflow.                                      *)
(***************************************************************************)

\* checkpoint(instance): the loop's copy replaces the row.
Checkpoint(t, instance) ==
    /\ mem' = [mem EXCEPT ![t] = instance]
    /\ inst' = instance
    /\ UNCHANGED <<journal, log, task, sched, at, on, code, nextRun, works,
                   recon, world, bounds>>

StartLoop(t) ==
    /\ pc[t] = "start"
    /\ Checkpoint(t, [mem[t] EXCEPT !.status = "Running"])
    /\ Goto(t, "next")

\* The first node in topological order that is not Completed.
IsNext(t, k) ==
    /\ mem[t].nodes[k] # "Completed"
    /\ \A m \in 1 .. k - 1 : mem[t].nodes[m] = "Completed"

\* The loop spawns a worker for the node and waits for it.
NextNode(t) ==
    /\ pc[t] = "next"
    /\ \E k \in Nodes, w \in Workers :
          /\ IsNext(t, k) /\ wpc[w] = "free"
          /\ at' = [at EXCEPT ![t] = k]
          /\ on' = [on EXCEPT ![t] = w]
          /\ node' = [node EXCEPT ![w] = k]
          /\ WorkTo(w, "bind")
    /\ Goto(t, "waiting")
    /\ UNCHANGED <<journal, rows, code, mem, nextRun, inserted, seen, result,
                   outcome, recon, world, bounds>>

\* The node fails before it needs a worker: its arguments do not resolve, the
\* permission was rejected, an earlier step of the workflow failed.
NextNodeFails(t) ==
    /\ pc[t] = "next"
    /\ \E k \in Nodes : IsNext(t, k) /\ at' = [at EXCEPT ![t] = k]
    /\ \E c \in {"network", "other"} : code' = [code EXCEPT ![t] = c]
    /\ Goto(t, "failed")
    /\ UNCHANGED <<journal, rows, on, mem, nextRun, works, recon, world,
                   bounds>>

\* The node needs a permission that no ledger holds: the run pauses.
PauseForPermission(t) ==
    /\ pc[t] = "next" /\ \E k \in Nodes : IsNext(t, k)
    /\ Checkpoint(t, [mem[t] EXCEPT !.status = "AwaitingApproval"])
    /\ Goto(t, "finish")

AllCompleted(t) ==
    /\ pc[t] = "next" /\ \A k \in Nodes : mem[t].nodes[k] = "Completed"
    /\ mem' = [mem EXCEPT ![t].status = "Completed"]
    /\ Goto(t, "finish")
    /\ UNCHANGED <<journal, rows, at, on, code, nextRun, works, recon, world,
                   bounds>>

\* recv_timeout returns the worker's report.
WorkerReports(t) ==
    /\ pc[t] = "waiting"
    /\ \E w \in Workers :
          /\ on[t] = w /\ wpc[w] = "done"
          /\ Exit({w})
          /\ IF outcome[w] = "Completed"
             THEN Goto(t, "completed") /\ UNCHANGED code
             ELSE /\ Goto(t, "failed")
                  /\ code' = [code EXCEPT ![t] = outcome[w]]
    /\ on' = [on EXCEPT ![t] = NULL]
    /\ UNCHANGED <<journal, rows, at, mem, nextRun, recon, world, bounds>>

\* recv_timeout gives up; the worker is not stopped. The message says "Timed
\* Out", so with a label that speaks of the network the failure is transient.
NodeTimesOut(t) ==
    /\ pc[t] = "waiting"
    /\ \E w \in Workers : on[t] = w /\ wpc[w] # "done"
    /\ on' = [on EXCEPT ![t] = NULL]
    /\ \E c \in {"network", "other"} : code' = [code EXCEPT ![t] = c]
    /\ Goto(t, "failed")
    /\ UNCHANGED <<journal, rows, at, mem, nextRun, works, recon, world,
                   bounds>>

\* A worker nobody waits for sends into a closed channel and ends.
WorkerExits(w) ==
    /\ wpc[w] = "done" /\ \A t \in Threads : on[t] # w
    /\ Exit({w})
    /\ UNCHANGED <<journal, rows, loops, recon, world, bounds>>

NodeCompleted(t) ==
    /\ pc[t] = "completed"
    /\ Checkpoint(t, [mem[t] EXCEPT !.nodes[at[t]] = "Completed"])
    /\ Goto(t, "next")

NodeFailed(t) ==
    /\ pc[t] = "failed"
    /\ Checkpoint(t, [status |-> "Failed",
                      nodes |-> [mem[t].nodes EXCEPT ![at[t]] = code[t]]])
    /\ Goto(t, "finish")

\* The checkpoint after a completed node fails: the run ends Failed, and its
\* last write tries again with the node Completed.
CheckpointFails(t) ==
    /\ pc[t] = "completed" /\ faults < MaxFaults /\ faults' = faults + 1
    /\ mem' = [mem EXCEPT ![t] = [status |-> "Failed",
                                  nodes |-> [mem[t].nodes EXCEPT
                                                ![at[t]] = "Completed"]]]
    /\ code' = [code EXCEPT ![t] = "other"]
    /\ Goto(t, "finish")
    /\ UNCHANGED <<journal, rows, at, on, nextRun, works, recon, world,
                   runs, decisions>>

(***************************************************************************)
(* tasks/repository.rs: reconcile_all. A worker runs it before it reserves *)
(* an effect; app start, the task list and a task control run it too.      *)
(***************************************************************************)

ReconTo(c, step, status) ==
    recon' = [recon EXCEPT ![c] = [step |-> step, status |-> status]]

\* SELECT from execution_instances, collected before anything is written.
ReconcileRows(c) ==
    /\ inst.status # "absent"
    /\ \/ recon[c].step = "rows"
       \/ recon[c].step = "idle" /\ c \in Ledger
       \/ recon[c].step = "idle" /\ c \in Workers /\ wpc[c] = "bind"
    /\ ReconTo(c, "check", inst.status)
    /\ UNCHANGED <<journal, rows, loops, works, world, bounds>>

\* upsert_runtime asks whether a verification is unresolved ...
ReconcileCheck(c) ==
    /\ recon[c].step = "check"
    /\ IF EffectVerificationRequired
       THEN ReconTo(c, "list", "absent")
       ELSE ReconTo(c, "upsert", recon[c].status)
    /\ UNCHANGED <<journal, rows, loops, works, world, bounds>>

\* ... and writes the state in another statement.
WriteTask(status) == task' = [state |-> CanonicalState(status),
                              recovery |-> "reconciled"]

ReconcileUpsert(c) ==
    /\ recon[c].step = "upsert"
    /\ WriteTask(recon[c].status)
    /\ ReconTo(c, "list", "absent")
    /\ UNCHANGED <<journal, log, inst, sched, loops, works, world, bounds>>

\* reconcile_all returns; a worker goes on to its reservation.
ReconcileReturns(c) ==
    /\ recon' = [recon EXCEPT ![c] = NoRecon]
    /\ wpc' = IF c \in Workers THEN [wpc EXCEPT ![c] = "reserve"] ELSE wpc
    /\ UNCHANGED <<node, inserted, seen, result, outcome>>

\* The second pass lists the tasks and skips those that are terminal or wait
\* for verification ...
ReconcileList(c) ==
    /\ recon[c].step = "list"
    /\ IF Terminal(task.state) \/ EffectVerificationRequired
       THEN ReconcileReturns(c)
       ELSE ReconTo(c, "state", "absent") /\ UNCHANGED works
    /\ UNCHANGED <<journal, rows, loops, world, bounds>>

\* ... reads the others' instances again and writes their state.
ReconcileState(c) ==
    /\ recon[c].step = "state"
    /\ ReconTo(c, "update", inst.status)
    /\ UNCHANGED <<journal, rows, loops, works, world, bounds>>

ReconcileUpdate(c) ==
    /\ recon[c].step = "update"
    /\ WriteTask(recon[c].status)
    /\ ReconcileReturns(c)
    /\ UNCHANGED <<journal, log, inst, sched, loops, world, bounds>>

(***************************************************************************)
(* effect_journal.rs: reservation and claim.                               *)
(***************************************************************************)

\* A journal statement changes this one row.
SetEffect(k, state) == effect' = [effect EXCEPT ![k] = state]

\* Mutant of ReserveEffect: INSERT ... ON CONFLICT DO UPDATE.
ReserveEffectReplaces(w) ==
    /\ wpc[w] = "reserve"
    /\ inserted' = [inserted EXCEPT ![w] = TRUE]
    /\ SetEffect(node[w], "reserved")
    /\ WorkTo(w, "readBack")
    /\ UNCHANGED <<digest, receipt, rows, loops, node, seen, result, outcome,
                   recon, world, bounds>>

\* INSERT ... ON CONFLICT DO NOTHING.
ReserveEffect(w) ==
    /\ wpc[w] = "reserve"
    /\ inserted' = [inserted EXCEPT ![w] = effect[node[w]] = "absent"]
    /\ SetEffect(node[w], IF effect[node[w]] = "absent" THEN "reserved"
                                                        ELSE effect[node[w]])
    /\ WorkTo(w, "readBack")
    /\ UNCHANGED <<digest, receipt, rows, loops, node, seen, result, outcome,
                   recon, world, bounds>>

\* The row is read back; a reservation that is gone fails the node.
ReadBack(w) ==
    /\ wpc[w] = "readBack"
    /\ IF effect[node[w]] = "absent"
       THEN Report(w, "other") /\ UNCHANGED <<inserted, seen>>
       ELSE /\ seen' = [seen EXCEPT ![w] = digest[node[w]]]
            /\ inserted' = [inserted EXCEPT
                               ![w] = @ /\ effect[node[w]] = "reserved"]
            /\ WorkTo(w, "receipt") /\ UNCHANGED <<result, outcome>>
    /\ UNCHANGED <<journal, rows, loops, node, recon, world, bounds>>

\* With a receipt the effect is replayed; without one only the worker that
\* inserted a row that is still reserved may go on.
LoadReceipt(w) ==
    /\ wpc[w] = "receipt"
    /\ LET r == receipt[node[w]]
       IN  IF r # NULL /\ seen[w] \in {NULL, r}
           THEN WorkTo(w, "reconcile") /\ result' = [result EXCEPT ![w] = r]
           ELSE /\ WorkTo(w, IF r = NULL /\ inserted[w] THEN "claim"
                                                       ELSE "haltEffect")
                /\ UNCHANGED result
    /\ inserted' = [inserted EXCEPT ![w] = FALSE]
    /\ seen' = [seen EXCEPT ![w] = NULL]
    /\ UNCHANGED <<journal, rows, loops, node, outcome, recon, world, bounds>>

\* UPDATE reserved -> executed: the worker that changes the row may act.
ClaimEffectExecution(w) ==
    /\ wpc[w] = "claim"
    /\ IF effect[node[w]] = "reserved"
       THEN SetEffect(node[w], "executed") /\ WorkTo(w, "calling")
       ELSE WorkTo(w, "claimReceipt") /\ UNCHANGED effect
    /\ UNCHANGED <<digest, receipt, rows, loops, node, inserted, seen, result,
                   outcome, recon, world, bounds>>

ClaimLoadReceipt(w) ==
    /\ wpc[w] = "claimReceipt"
    /\ IF receipt[node[w]] # NULL
       THEN /\ WorkTo(w, "reconcile")
            /\ result' = [result EXCEPT ![w] = receipt[node[w]]]
       ELSE WorkTo(w, "haltEffect") /\ UNCHANGED result
    /\ UNCHANGED <<journal, rows, loops, node, inserted, seen, outcome, recon,
                   world, bounds>>

(***************************************************************************)
(* The protected call. The outside world decides when it takes effect.     *)
(***************************************************************************)

\* External: the effect of the call a worker is waiting on takes place.
CallLands(w) ==
    /\ wpc[w] = "calling" /\ result[w] = NULL
    /\ performed' = [performed EXCEPT ![node[w]] = @ + 1]
    /\ result' = [result EXCEPT ![w] = performed'[node[w]]]
    /\ UNCHANGED <<journal, rows, loops, wpc, node, inserted, seen, outcome,
                   recon, orphans, pardons, stopped, bounds>>

\* External: an abandoned call takes effect late, or never will.
OrphanLands(k) ==
    /\ orphans[k] > 0
    /\ orphans' = [orphans EXCEPT ![k] = @ - 1]
    /\ \/ performed' = [performed EXCEPT ![k] = @ + 1]
       \/ UNCHANGED performed
    /\ UNCHANGED <<journal, rows, loops, works, recon, pardons, stopped,
                   bounds>>

\* Mutant of CallSucceeds: any answer of the tool counts as a success.
CallSucceedsUnverified(w) ==
    /\ wpc[w] = "calling"
    /\ WorkTo(w, "verify")
    /\ UNCHANGED <<journal, rows, loops, node, inserted, seen, result, outcome,
                   recon, world, bounds>>

\* The tool reports a verified result: the effect has taken place.
CallSucceeds(w) ==
    /\ wpc[w] = "calling" /\ result[w] # NULL
    /\ WorkTo(w, "verify")
    /\ UNCHANGED <<journal, rows, loops, node, inserted, seen, result, outcome,
                   recon, world, bounds>>

\* A retry-safe error: the tool says that nothing changed and nothing will.
CallUnchanged(w) ==
    /\ wpc[w] = "calling" /\ result[w] = NULL
    /\ \E c \in {"network", "other"} : outcome' = [outcome EXCEPT ![w] = c]
    /\ WorkTo(w, "release")
    /\ UNCHANGED <<journal, rows, loops, node, inserted, seen, result, recon,
                   world, bounds>>

\* Mutant of CallAmbiguous: a timeout is taken for a call that did nothing.
CallAmbiguousReleases(w) ==
    /\ wpc[w] = "calling"
    /\ WorkTo(w, "release")
    /\ result' = [result EXCEPT ![w] = NULL]
    /\ \/ result[w] = NULL /\ orphans' = [orphans EXCEPT ![node[w]] = @ + 1]
       \/ UNCHANGED orphans
    /\ UNCHANGED <<journal, rows, loops, node, inserted, seen, outcome, recon,
                   performed, pardons, stopped, bounds>>

\* Timeout, any other error or an unverifiable response: the call is
\* abandoned, with its effect done, still to come, or never to come.
CallAmbiguous(w) ==
    /\ wpc[w] = "calling"
    /\ Halt(w)
    /\ \/ result[w] = NULL /\ orphans' = [orphans EXCEPT ![node[w]] = @ + 1]
       \/ UNCHANGED orphans
    /\ UNCHANGED <<journal, rows, loops, node, inserted, seen, outcome, recon,
                   performed, pardons, stopped, bounds>>

(***************************************************************************)
(* effect_journal.rs: verification, release and halt.                      *)
(***************************************************************************)

\* Mutant of VerifyEffect: the row is updated without a receipt event.
VerifyEffectUnrecorded(w) ==
    /\ wpc[w] = "verify"
    /\ WorkTo(w, "reconcile")
    /\ UNCHANGED <<journal, rows, loops, node, inserted, seen, result, outcome,
                   recon, world, bounds>>

VerifyEffect(w) ==
    /\ wpc[w] = "verify"
    /\ IF receipt[node[w]] \in {NULL, result[w]}
       THEN /\ WorkTo(w, IF receipt[node[w]] = NULL THEN "record"
                                                    ELSE "reconcile")
            /\ UNCHANGED result
       ELSE Halt(w)
    /\ UNCHANGED <<journal, rows, loops, node, inserted, seen, outcome, recon,
                   world, bounds>>

\* The receipt event is durable before the row says verified.
RecordReceipt(w) ==
    /\ wpc[w] = "record"
    /\ receipt' = [receipt EXCEPT ![node[w]] = result[w]]
    /\ WorkTo(w, "reconcile")
    /\ UNCHANGED <<effect, digest, rows, loops, node, inserted, seen, result,
                   outcome, recon, world, bounds>>

ReconcileVerifiedEffect(w) ==
    /\ wpc[w] = "reconcile"
    /\ LET k == node[w]
       IN  IF effect[k] # "absent" /\ digest[k] \in {NULL, result[w]}
           THEN /\ SetEffect(k, "verified")
                /\ digest' = [digest EXCEPT ![k] = result[w]]
                /\ Report(w, "Completed")
           ELSE Halt(w) /\ UNCHANGED <<effect, digest, outcome>>
    /\ UNCHANGED <<receipt, rows, loops, node, inserted, seen, recon, world,
                   bounds>>

\* DELETE the claim of a call that changed nothing, and report its error.
ReleaseUnchangedEffect(w) ==
    /\ wpc[w] = "release"
    /\ IF effect[node[w]] = "executed" /\ digest[node[w]] = NULL
       THEN /\ SetEffect(node[w], "absent") /\ WorkTo(w, "done")
            /\ stopped' = [stopped EXCEPT ![node[w]] = FALSE]
       ELSE WorkTo(w, "haltEffect") /\ UNCHANGED <<effect, stopped>>
    /\ UNCHANGED <<digest, receipt, rows, loops, node, inserted, seen, result,
                   outcome, recon, performed, orphans, pardons, bounds>>

\* halt_for_effect_verification, statement by statement. The stored digest
\* is kept.
HaltEffect(w) ==
    /\ wpc[w] = "haltEffect"
    /\ IF effect[node[w]] # "absent"
       THEN /\ SetEffect(node[w], "executed")
            /\ WorkTo(w, "haltTask") /\ UNCHANGED <<result, outcome>>
       ELSE Report(w, "other") /\ UNCHANGED effect
    /\ UNCHANGED <<digest, receipt, rows, loops, node, inserted, seen, recon,
                   world, bounds>>

\* Mutant of HaltTask: the task is blocked, and no event says why.
HaltTaskSilently(w) ==
    /\ wpc[w] = "haltTask"
    /\ task' = [state |-> "blocked", recovery |-> "recoverable"]
    /\ Report(w, "verify")
    /\ UNCHANGED <<journal, log, inst, sched, loops, node, inserted, seen,
                   recon, world, bounds>>

HaltTask(w) ==
    /\ wpc[w] = "haltTask"
    /\ task' = [state |-> IF task.state \in {"queued", "awaiting_approval",
                                             "running"}
                          THEN "blocked" ELSE task.state,
                recovery |-> "recoverable"]
    /\ WorkTo(w, "haltEvent")
    /\ UNCHANGED <<journal, log, inst, sched, loops, node, inserted, seen,
                   result, outcome, recon, world, bounds>>

HaltEvent(w) ==
    /\ wpc[w] = "haltEvent"
    /\ log' = Append(log, Required(node[w]))
    /\ Report(w, "verify")
    /\ UNCHANGED <<journal, task, inst, sched, loops, node, inserted, seen,
                   recon, world, bounds>>

\* A database access of a worker fails. Once the row is read back and the
\* call is not out, the worker halts for verification; before that, while it
\* releases and while it halts, the node fails with the database error.
JournalFails(w) ==
    /\ faults < MaxFaults /\ faults' = faults + 1
    /\ \/ /\ wpc[w] \in {"receipt", "claimReceipt", "verify", "record",
                         "reconcile"}
          /\ Halt(w)
          /\ UNCHANGED <<outcome, recon>>
       \/ /\ wpc[w] \in {"bind", "reserve", "readBack", "claim", "release",
                         "haltEffect", "haltTask", "haltEvent"}
          /\ Report(w, "other")
          /\ recon' = [recon EXCEPT ![w] = NoRecon]
    /\ inserted' = [inserted EXCEPT ![w] = FALSE]
    /\ seen' = [seen EXCEPT ![w] = NULL]
    /\ UNCHANGED <<journal, rows, loops, node, world, runs, decisions>>

(***************************************************************************)
(* The end of a run: the final write of the instance, and for a routine    *)
(* the scheduler's requeue, projection and result.                         *)
(***************************************************************************)

FinishRun(t) ==
    /\ pc[t] = "finish"
    /\ inst' = mem[t]
    /\ IF Scheduled
       THEN /\ Goto(t, IF t = Runner THEN "requeue" ELSE "project")
            /\ UNCHANGED <<at, on, code, mem, nextRun>>
       ELSE Leave({t})
    /\ UNCHANGED <<journal, log, task, sched, works, recon, world, bounds>>

\* A transient failure of a run without any effect row is requeued in one
\* transaction.
RequeueTransientFailure(t) ==
    /\ pc[t] = "requeue"
    /\ IF /\ mem[t].status = "Failed" /\ code[t] = "network"
          /\ \A k \in Nodes : effect[k] = "absent"
          /\ inst.status = "Failed"
       THEN /\ inst' = [inst EXCEPT !.status = "Pending"]
            /\ task' = [state |-> "blocked", recovery |-> "recoverable"]
            /\ sched' = [due |-> FALSE, claimed |-> FALSE, last |-> TRUE]
            /\ Leave({t})
       ELSE /\ Goto(t, "project")
            /\ UNCHANGED <<inst, task, sched, at, on, code, mem, nextRun>>
    /\ UNCHANGED <<journal, log, works, recon, world, bounds>>

\* reconcile_remote_workflow_task reads the instance's status, and an
\* approver's caller has read the schedule ...
ProjectTask(t) ==
    /\ pc[t] = "project"
    /\ mem' = [mem EXCEPT ![t] = [NoInstance EXCEPT !.status = inst.status]]
    /\ code' = [code EXCEPT ![t] = "other"]
    /\ nextRun' = [nextRun EXCEPT ![t] = sched.due]
    /\ Goto(t, "projectWrite")
    /\ UNCHANGED <<journal, rows, at, on, works, recon, world, bounds>>

\* ... and the task takes that state, whatever its own was.
ProjectTaskWrite(t) ==
    /\ pc[t] = "projectWrite"
    /\ WriteTask(mem[t].status)
    /\ Goto(t, "persist")
    /\ UNCHANGED <<journal, log, inst, sched, at, on, code, mem, nextRun,
                   works, recon, world, bounds>>

\* The runner writes the occurrence's successor; a resumed run writes back
\* the next_run_at_ms it read.
PersistResult(t) ==
    /\ pc[t] = "persist"
    /\ sched' = [due |-> t # Runner /\ nextRun[t],
                 claimed |-> FALSE, last |-> TRUE]
    /\ Leave({t})
    /\ UNCHANGED <<journal, log, task, inst, works, recon, world, bounds>>

(***************************************************************************)
(* The user: task retry and the answer to a verification request.          *)
(***************************************************************************)

\* control("retry") checks the task and its effects ...
TaskRetryCheck(c) ==
    /\ c \in Ledger /\ recon[c].step = "idle"
    /\ decisions < MaxDecisions /\ decisions' = decisions + 1
    /\ task.state = "failed" /\ ~HasUnverifiedEffects
    /\ ReconTo(c, "retry", "absent")
    /\ UNCHANGED <<journal, rows, loops, works, world, runs, faults>>

\* ... then updates a Failed instance, and reconciles.
TaskRetry(c) ==
    /\ recon[c].step = "retry"
    /\ IF inst.status = "Failed"
       THEN /\ inst' = [inst EXCEPT !.status = "Pending"]
            /\ log' = Append(log, Event("retry", 1, 0, "none"))
            /\ ReconTo(c, "rows", "absent")
            /\ stopped' = [k \in Nodes |-> FALSE]
       ELSE /\ recon' = [recon EXCEPT ![c] = NoRecon]
            /\ UNCHANGED <<inst, log, stopped>>
    /\ UNCHANGED <<journal, task, sched, loops, works, performed, orphans,
                   pardons, bounds>>

\* Mutant of Resolvable: any verification request of k will do.
ResolvableStale(k, i) ==
    /\ task.state = "blocked" /\ task.recovery = "recoverable"
    /\ EffectVerificationRequired
    /\ log[i].type = "required" /\ log[i].key = k
    /\ effect[k] = "executed" /\ digest[k] = NULL
    /\ inst.status = "Failed" /\ inst.nodes[k] = "verify"

\* Everything resolve() requires before it accepts any decision on event i.
Resolvable(k, i) ==
    /\ task.state = "blocked" /\ task.recovery = "recoverable"
    /\ EffectVerificationRequired
    /\ i \in Unresolved(k) /\ \A j \in Unresolved(k) : j <= i
    /\ effect[k] = "executed" /\ digest[k] = NULL
    /\ inst.status = "Failed" /\ inst.nodes[k] = "verify"

\* The effect of node k has happened, or may still happen.
MayHaveHappened(k) ==
    \/ performed[k] > 0 \/ orphans[k] > 0
    \/ \E w \in Workers : node[w] = k /\ wpc[w] \in {"calling", "release"}

ResolveDidNotHappen(k, i) ==
    /\ decisions < MaxDecisions /\ decisions' = decisions + 1
    /\ Resolvable(k, i)
    /\ Scheduled /\ sched.last
    /\ SetEffect(k, "absent")
    /\ inst' = [inst EXCEPT !.status = "Pending"]
    /\ sched' = [due |-> TRUE, claimed |-> FALSE, last |-> TRUE]
    /\ task' = [state |-> "queued", recovery |-> "reconciled"]
    /\ log' = Append(log, Resolved(k, i, "did_not_happen"))
    /\ pardons' = IF MayHaveHappened(k) THEN [pardons EXCEPT ![k] = @ + 1]
                                        ELSE pardons
    /\ stopped' = [stopped EXCEPT ![k] = FALSE]
    /\ UNCHANGED <<digest, receipt, loops, works, recon, performed, orphans,
                   runs, faults>>

\* Mutant of ResolveStop: a stop releases the effect and requeues the run.
ResolveStopRequeues(k, i, d) ==
    /\ decisions < MaxDecisions /\ decisions' = decisions + 1
    /\ Resolvable(k, i)
    /\ SetEffect(k, "absent")
    /\ inst' = [inst EXCEPT !.status = "Pending"]
    /\ sched' = [due |-> TRUE, claimed |-> FALSE, last |-> TRUE]
    /\ task' = [state |-> "queued", recovery |-> "reconciled"]
    /\ log' = Append(log, Resolved(k, i, d))
    /\ stopped' = [stopped EXCEPT ![k] = TRUE]
    /\ UNCHANGED <<digest, receipt, loops, works, recon, performed, orphans,
                   pardons, runs, faults>>

ResolveStop(k, i, d) ==
    /\ decisions < MaxDecisions /\ decisions' = decisions + 1
    /\ Resolvable(k, i)
    /\ task' = [state |-> IF d = "happened" THEN "failed" ELSE "cancelled",
                recovery |-> "reconciled"]
    /\ log' = Append(log, Resolved(k, i, d))
    /\ stopped' = [stopped EXCEPT ![k] = TRUE]
    /\ UNCHANGED <<journal, inst, sched, loops, works, recon, performed,
                   orphans, pardons, runs, faults>>

\* Without the event's details only a stop is accepted, and only when a
\* single event is unanswered.
ResolveStopWithoutDetails(k, i) ==
    /\ Unanswered = {i}
    /\ ResolveStop(k, i, "stop_without_repeating")

(***************************************************************************)
(* Crash: every thread is lost; a call that was out may still take effect. *)
(***************************************************************************)

\* Workers whose call on k is out and has not taken effect.
Outstanding(k) == {w \in Workers : /\ wpc[w] = "calling" /\ node[w] = k
                                   /\ result[w] = NULL}

Crash ==
    /\ faults < MaxFaults /\ faults' = faults + 1
    /\ Leave(Threads) /\ Exit(Workers)
    /\ recon' = [c \in Callers |-> NoRecon]
    /\ \E late \in SUBSET Workers :
          orphans' = [k \in Nodes |->
                         orphans[k] + Cardinality(Outstanding(k) \cap late)]
    /\ UNCHANGED <<journal, rows, performed, pardons, stopped, runs, decisions>>

(***************************************************************************)
(* Specification.                                                          *)
(***************************************************************************)

LoopStep(t) ==
    \/ StartLoop(t) \/ NextNode(t) \/ NextNodeFails(t) \/ PauseForPermission(t)
    \/ AllCompleted(t) \/ WorkerReports(t) \/ NodeTimesOut(t)
    \/ NodeCompleted(t) \/ NodeFailed(t)
    \/ FinishRun(t) \/ RequeueTransientFailure(t)
    \/ ProjectTask(t) \/ ProjectTaskWrite(t) \/ PersistResult(t)

ReconcileStep(c) ==
    \/ ReconcileRows(c) \/ ReconcileCheck(c) \/ ReconcileUpsert(c)
    \/ ReconcileList(c) \/ ReconcileState(c) \/ ReconcileUpdate(c)

WorkStep(w) ==
    \/ ReconcileStep(w)
    \/ ReserveEffect(w) \/ ReadBack(w) \/ LoadReceipt(w)
    \/ ClaimEffectExecution(w) \/ ClaimLoadReceipt(w)
    \/ CallSucceeds(w) \/ CallUnchanged(w) \/ CallAmbiguous(w)
    \/ VerifyEffect(w) \/ RecordReceipt(w) \/ ReconcileVerifiedEffect(w)
    \/ ReleaseUnchangedEffect(w)
    \/ HaltEffect(w) \/ HaltTask(w) \/ HaltEvent(w) \/ WorkerExits(w)

SchedulerStep == BeginRun \/ RetryRun \/ OtherRun

Next ==
    \/ SchedulerStep \/ OccurrenceDue \/ ClaimLapses
    \/ \E t \in Threads :
          LoopStep(t) \/ ResumeAfterPermission(t) \/ CheckpointFails(t)
    \/ \E w \in Workers : WorkStep(w) \/ CallLands(w) \/ JournalFails(w)
    \/ \E c \in Ledger : ReconcileStep(c) \/ TaskRetryCheck(c) \/ TaskRetry(c)
    \/ \E k \in Nodes : OrphanLands(k)
    \/ \E k \in Nodes, i \in DOMAIN log :
          \/ ResolveDidNotHappen(k, i)
          \/ \E d \in {"happened", "stop_without_repeating"} :
                ResolveStop(k, i, d)
          \/ ResolveStopWithoutDetails(k, i)
    \/ Crash

Spec == Init /\ [][Next]_vars

\* A worker that runs keeps running: its calls end, by a timeout of the tool at
\* the latest. Loops, the scheduler and the user need not do anything.
FairSpec ==
    /\ Spec
    /\ \A w \in Workers : WF_vars(WorkStep(w))

(***************************************************************************)
(* Properties.                                                             *)
(***************************************************************************)

Instances == [status : InstanceStates, nodes : [Nodes -> NodeStates]]
Events == [type : {"required", "resolved", "retry"}, key : Nodes, ref : Nat,
           decision : Decisions \cup {"none"}]

TypeJournal ==
    /\ effect \in [Nodes -> EffectStates]
    /\ digest \in [Nodes -> Nat] /\ receipt \in [Nodes -> Nat]

TypeRows ==
    /\ log \in Seq(Events)
    /\ task \in [state : TaskStates,
                 recovery : {"reconciled", "recoverable"}]
    /\ inst \in Instances
    /\ sched \in [due : BOOLEAN, claimed : BOOLEAN, last : BOOLEAN]

TypeLoops ==
    /\ pc \in [Threads -> LoopSteps] /\ at \in [Threads -> Nodes]
    /\ on \in [Threads -> Workers \cup {NULL}]
    /\ code \in [Threads -> NodeStates]
    /\ mem \in [Threads -> Instances]
    /\ nextRun \in [Threads -> BOOLEAN]

TypeWorks ==
    /\ wpc \in [Workers -> WorkSteps] /\ node \in [Workers -> Nodes]
    /\ inserted \in [Workers -> BOOLEAN] /\ seen \in [Workers -> Nat]
    /\ result \in [Workers -> Nat] /\ outcome \in [Workers -> NodeStates]

TypeRecon ==
    recon \in [Callers -> [step : ReconSteps, status : InstanceStates]]

TypeWorld ==
    /\ performed \in [Nodes -> Nat] /\ orphans \in [Nodes -> Nat]
    /\ pardons \in [Nodes -> Nat] /\ stopped \in [Nodes -> BOOLEAN]
    /\ runs \in Nat /\ decisions \in Nat /\ faults \in Nat

\* Every variable holds a value of its column, local or counter.
TypeOK == TypeJournal /\ TypeRows /\ TypeLoops /\ TypeWorks /\ TypeRecon
              /\ TypeWorld

\* A protected effect happens at most once, whatever the interleaving of
\* loops, workers that outlived their timeout, crashes, failed writes and
\* abandoned calls, except once more for each "did not happen" the user
\* answers while the effect had happened or could still happen ("It will not
\* repeat the action automatically").
AtMostOnce == \A k \in Nodes : performed[k] <= 1 + pardons[k]

\* The calls on k that may still take effect or give their claim back.
Permits(k) ==
    {w \in Workers : /\ node[w] = k
                     /\ \/ wpc[w] = "calling" /\ result[w] = NULL
                        \/ wpc[w] = "release"}

\* Everything that has used up or may still use up a claim on k.
Used(k) == performed[k] + orphans[k] + Cardinality(Permits(k))

\* Why AtMostOnce holds: occurrences, abandoned calls and calls under way
\* share one claim per row, and a row that could be claimed again has none.
Budget ==
    \A k \in Nodes :
        /\ Used(k) <= 1 + pardons[k]
        /\ effect[k] \in {"absent", "reserved"} => Used(k) <= pardons[k]

Once == INSTANCE EffectOnce WITH Effects <- Nodes, done <- performed,
                                 allowed <- [k \in Nodes |-> 1 + pardons[k]]

\* The journal implements the abstract promise step by step: every step of a
\* loop, worker, reconciler or user performs one effect that is still allowed,
\* takes one back, or does neither.
ImplementsEffectOnce == Once!Spec

\* Neither a node payload nor the ledger reports success for an effect that
\* never happened: a replayed result always comes from a real occurrence.
SuccessIsReal ==
    /\ \A k \in Nodes : inst.nodes[k] = "Completed" => performed[k] > 0
    /\ task.state = "completed" => \A k \in Nodes : performed[k] > 0

\* A verified row is backed by a durable receipt: the event is written first,
\* so no crash leaves the row ahead of the evidence it is replayed from.
VerifiedHasReceipt ==
    \A k \in Nodes : effect[k] = "verified" => receipt[k] # NULL

\* No verification request is answered twice, although answers, halts and
\* reconciliation race for the task row.
ResolvedOnce ==
    \A i, j \in DOMAIN log :
        /\ log[i].type = "resolved" /\ log[j].type = "resolved"
        /\ log[i].ref = log[j].ref
        => i = j

\* No worker starts the call of an effect the user has stopped: neither an
\* automatic retry nor a worker that was already under way when the answer
\* came ("OOMU stopped this run without repeating it"). A stop ends when the
\* user retries the task or releases the effect, and when a call that was
\* already out reports that it changed nothing: it deletes the row, stopped
\* or not.
StopIsFinal ==
    [][\A w \in Workers :
          wpc'[w] = "calling" /\ wpc[w] # "calling" => ~stopped[node[w]]]_vars

\* A worker that halts at an ambiguous effect tells the user, even when its
\* loop has long given up on it: a verification request follows, unless a
\* fault takes the process down.
HaltIsReported ==
    \A w \in Workers, k \in Nodes :
        wpc[w] = "haltEffect" /\ node[w] = k /\ effect[k] # "absent"
            ~> Unresolved(k) # {} \/ stopped[k] \/ effect[k] = "absent"
                  \/ faults > 0

\* No loop, worker or reconciliation is at work.
AtRest ==
    /\ \A t \in Threads : pc[t] = "idle"
    /\ \A w \in Workers : wpc[w] = "free"
    /\ \A c \in Callers : recon[c].step = "idle"

\* "The Task is saved for verification-only recovery" (effect_journal.rs,
\* halt_for_effect_verification): when nothing is at work and the run is
\* stopped at an action whose verification is unresolved, the task is in the
\* state in which resolve() accepts the user's answer.
SavedForRecovery ==
    /\ AtRest
    /\ \E k \in Nodes : /\ effect[k] = "executed" /\ Unresolved(k) # {}
                        /\ inst.status = "Failed" /\ inst.nodes[k] = "verify"
    => task.state = "blocked" /\ task.recovery = "recoverable"

=============================================================================
