----------------------------- MODULE RemoteCommand -----------------------------
(***************************************************************************)
(* The requests of a paired device (remote_access/): the acceptance of a   *)
(* signed command, its execution against a task or a file of this Mac, the *)
(* retrieval of a granted file, and the revocation of the device.          *)
(*                                                                         *)
(* There is one device, one task that an agent execution runs, and one     *)
(* verified file.  execute_remote_command, retrieve_remote_artifact and    *)
(* revoke_remote_device run in threads of their own, while the agent and   *)
(* the task ledger of the Mac go on.  Every statement outside a            *)
(* transaction is an action, and so is every transaction.                  *)
(***************************************************************************)
EXTENDS Naturals, Sequences

CONSTANTS
    Requests,       \* the command ids that the device uses
    Nonces,         \* the nonces that it uses
    Asked,          \* what it asks for: the signed requests, by command id
    Calls,          \* the threads that serve the device
    MaxEvents       \* how many events the Mac appends to the task

\* The four kinds that must be finished on the Mac are one, "local_review".
Kinds == {"view_task", "stop_task", "request_artifact", "local_review"}

\* A SignedRemoteCommand; expected_task_sequence counts for a stop only.
SignedRequest == [kind : Kinds, nonce : Nonces, expected : Nat]

ASSUME RemoteAssumption ==
    /\ Asked \subseteq [Requests -> SignedRequest]
    /\ "mac" \notin Requests /\ "none" \notin Requests
    /\ MaxEvents \in Nat

Contents == {"verified", "changed"}

VARIABLES
    request,        \* the signed requests
    command,        \* remote_commands.status
    grant,          \* remote_artifact_grants, by the command that asked
    paired,         \* remote_devices.revoked_at_ms IS NULL
    revocation,     \* where revoke is
    file,           \* what is behind the artifact's private path
    runtime,        \* agent_executions.status
    task,           \* task_runs.state
    events,         \* task_events: who appended each
    mac,            \* the thread of the Mac in control or reconcile_all
    call,           \* the threads that serve the device
    delivered       \* history: what the device received, by grant

taskRows == <<runtime, task, events>>
vars == <<request, command, grant, paired, revocation, file, taskRows, mac, call, delivered>>

Idle == [pc |-> "idle", req |-> "none", bytes |-> "verified"]
MacIdle == [pc |-> "idle", seen |-> "none", control |-> FALSE]

Init ==
    /\ request \in Asked
    /\ command = [r \in Requests |-> "none"]
    /\ grant = [r \in Requests |-> [there |-> FALSE, opened |-> FALSE, revoked |-> FALSE]]
    /\ paired = TRUE /\ revocation = "idle"
    /\ file = "verified"
    /\ runtime = "running" /\ task = "running" /\ events = <<>>
    /\ mac = MacIdle
    /\ call = [p \in Calls |-> Idle]
    /\ delivered = [r \in Requests |-> <<>>]

GoTo(p, pc) == call' = [call EXCEPT ![p].pc = pc]
Return(p) == call' = [call EXCEPT ![p] = Idle]

-----------------------------------------------------------------------------
(* command_store::accept.  A refusal stores nothing.                       *)

Stored == {r \in Requests : command[r] /= "none"}

\* duplicate_error, and the two unique keys of the table.
Duplicate(r) == \E q \in Stored : q = r \/ request[q].nonce = request[r].nonce

\* A request arrives, for the first time or again, and passes the reads.
Receive(p, r) ==
    /\ call[p].pc = "idle"
    /\ paired /\ ~Duplicate(r)
    /\ call' = [call EXCEPT ![p] = [Idle EXCEPT !.pc = "insert", !.req = r]]
    /\ UNCHANGED <<request, command, grant, paired, revocation, file, taskRows, mac, delivered>>

\* current_task_sequence
Sequence == Len(events)

InSequence(r) == request[r].kind = "stop_task" => request[r].expected = Sequence

\* The sequence is compared and the command inserted, which the keys of the
\* table may still refuse.
InsertCommand(p) ==
    LET r == call[p].req IN
    /\ call[p].pc = "insert"
    /\ IF Duplicate(r) THEN Return(p) /\ UNCHANGED command
       ELSE /\ command' = [command EXCEPT ![r] = "accepted"]
            /\ GoTo(p, CASE ~InSequence(r) -> "conflict"
                         [] request[r].kind = "request_artifact" -> "resolve"
                         [] OTHER -> "commit")
    /\ UNCHANGED <<request, grant, paired, revocation, file, taskRows, mac, delivered>>

-----------------------------------------------------------------------------
(* execution_commit                                                        *)

\* commit_sequence_conflict
CommitConflict(p) ==
    /\ call[p].pc = "conflict" /\ command[call[p].req] = "accepted"
    /\ command' = [command EXCEPT ![call[p].req] = "rejected"]
    /\ Return(p)
    /\ UNCHANGED <<request, grant, paired, revocation, file, taskRows, mac, delivered>>

\* resolve_candidate: the file must be the one that was verified.
ResolveCandidate(p) ==
    /\ call[p].pc = "resolve"
    /\ IF file = "verified" THEN GoTo(p, "approve") ELSE Return(p)
    /\ UNCHANGED <<request, command, grant, paired, revocation, file, taskRows, mac, delivered>>

\* native_approval and revalidate_prepared: it must still be after the dialog.
Approve(p) ==
    /\ call[p].pc = "approve"
    /\ IF file = "verified" THEN GoTo(p, "commit") ELSE Return(p)
    /\ UNCHANGED <<request, command, grant, paired, revocation, file, taskRows, mac, delivered>>

\* The task states and the agent's that can be stopped.
Live == {"queued", "planning", "awaiting_approval", "running", "blocked"}
Cancellable == {"running", "halted"}

\* Mutant of ApplyStopTask: the number of changed rows is not looked at.
ApplyStopTaskUnchecked(r) ==
    /\ task \in Live
    /\ runtime' = IF runtime \in Cancellable THEN "cancelled" ELSE runtime
    /\ task' = "cancelled"
    /\ events' = Append(events, r)

ApplyStopTask(r) ==
    /\ task \in Live /\ runtime \in Cancellable
    /\ runtime' = "cancelled"
    /\ task' = "cancelled"
    /\ events' = Append(events, r)

\* Mutant of Unchanged: what accept has seen is trusted.
UnchangedSinceAcceptance(r) == TRUE

\* The sequence, read again in the transaction.
Unchanged(r) == InSequence(r)

\* The transaction of execute_accepted.
Commit(p) ==
    LET r == call[p].req
        kind == request[r].kind
        Finalize(status) == command' = [command EXCEPT ![r] = status]
    IN  /\ call[p].pc = "commit"
        /\ command[r] = "accepted" /\ paired
        /\ \/ /\ kind = "stop_task" /\ Unchanged(r)
              /\ ApplyStopTask(r) /\ Finalize("completed") /\ UNCHANGED grant
           \/ /\ kind = "stop_task" /\ ~Unchanged(r)
              /\ Finalize("rejected") /\ UNCHANGED <<grant, taskRows>>
           \/ /\ kind = "request_artifact"
              /\ grant' = [grant EXCEPT ![r].there = TRUE]
              /\ Finalize("completed") /\ UNCHANGED taskRows
           \/ /\ kind = "view_task"
              /\ Finalize("completed") /\ UNCHANGED <<grant, taskRows>>
           \/ /\ kind = "local_review"
              /\ Finalize("rejected") /\ UNCHANGED <<grant, taskRows>>
        /\ Return(p)
        /\ UNCHANGED <<request, paired, revocation, file, mac, delivered>>

-----------------------------------------------------------------------------
(* artifact_transfer::retrieve                                             *)

\* The query for the grant, its device and its approval receipt.
LookupGrant(p, r) ==
    /\ call[p].pc = "idle"
    /\ grant[r].there /\ ~grant[r].opened /\ ~grant[r].revoked /\ paired
    /\ call' = [call EXCEPT ![p] = [Idle EXCEPT !.pc = "read", !.req = r]]
    /\ UNCHANGED <<request, command, grant, paired, revocation, file, taskRows, mac, delivered>>

\* The bytes are read once, compared with the receipt's digest and encrypted.
ReadFile(p) ==
    /\ call[p].pc = "read"
    /\ IF file = "verified" THEN call' = [call EXCEPT ![p].pc = "consume", ![p].bytes = file]
       ELSE Return(p)
    /\ UNCHANGED <<request, command, grant, paired, revocation, file, taskRows, mac, delivered>>

\* Mutants of Consumable: only the query looks at the revocation, or at the opening.
ConsumableIfRevoked(r) == ~grant[r].opened
ConsumableAgain(r) == ~grant[r].revoked

\* The condition of the update; the time it compares is that of the query.
Consumable(r) == ~grant[r].opened /\ ~grant[r].revoked

\* The transaction that uses the grant up, and the answer.
Consume(p) ==
    LET r == call[p].req IN
    /\ call[p].pc = "consume" /\ Consumable(r)
    /\ grant' = [grant EXCEPT ![r].opened = TRUE]
    /\ delivered' = [delivered EXCEPT ![r] = Append(@, call[p].bytes)]
    /\ Return(p)
    /\ UNCHANGED <<request, command, paired, revocation, file, taskRows, mac>>

\* Any of these calls ends with an error and rolls its transaction back: a check
\* above has failed, the user has declined, the pairing, the request or the grant
\* has run out, the file is gone, a statement or a signature fails.
GiveUp(p) ==
    /\ call[p].pc /= "idle"
    /\ Return(p)
    /\ UNCHANGED <<request, command, grant, paired, revocation, file, taskRows, mac, delivered>>

-----------------------------------------------------------------------------
(* repository::revoke: two statements without a transaction.               *)

RevokeDevice ==
    /\ revocation = "idle"
    /\ paired' = FALSE
    /\ revocation' = "grants"
    /\ UNCHANGED <<request, command, grant, file, taskRows, mac, call, delivered>>

RevokeGrants ==
    /\ revocation = "grants"
    /\ grant' = [r \in Requests |-> [grant[r] EXCEPT !.revoked = @ \/ grant[r].there]]
    /\ revocation' = "returned"
    /\ UNCHANGED <<request, command, paired, file, taskRows, mac, call, delivered>>

-----------------------------------------------------------------------------
(* The Mac goes on.                                                        *)

\* The agent ends or halts: its row and the task's in one transaction, which
\* refuses an execution that is no longer running.  No event is appended.
\* "completed" stands for failed too.
AgentEnds(status) ==
    /\ runtime = "running"
    /\ runtime' = status
    /\ task' = IF status = "halted" THEN "blocked" ELSE status
    /\ UNCHANGED <<request, command, grant, paired, revocation, file, events, mac, call, delivered>>

\* resume_agent_execution
AgentResumes ==
    /\ runtime = "halted"
    /\ runtime' = "running" /\ task' = "running"
    /\ UNCHANGED <<request, command, grant, paired, revocation, file, events, mac, call, delivered>>

\* control("cancel"): the agent's row, then reconcile_all, then the event.
MacCancels ==
    /\ mac.pc = "idle" /\ Sequence < MaxEvents
    /\ task \in Live /\ runtime \in Cancellable
    /\ runtime' = "cancelled"
    /\ mac' = [mac EXCEPT !.pc = "read", !.control = TRUE]
    /\ UNCHANGED <<request, command, grant, paired, revocation, file, task, events, call, delivered>>

\* Mutant of CanonicalState: the runtime's word for it is kept.
CanonicalStateVerbatim(status) == status

\* canonical_state, for an agent
CanonicalState(status) == IF status = "halted" THEN "blocked" ELSE status

\* reconcile_all reads the runtime's status ...
LedgerReads ==
    /\ mac.pc \in {"idle", "read"}
    /\ mac' = [mac EXCEPT !.pc = "write", !.seen = CanonicalState(runtime)]
    /\ UNCHANGED <<request, command, grant, paired, revocation, file, taskRows, call, delivered>>

\* ... and writes it to the task.
LedgerWrites ==
    /\ mac.pc = "write"
    /\ task' = mac.seen
    /\ mac' = IF mac.control THEN [mac EXCEPT !.pc = "event", !.seen = "none"] ELSE MacIdle
    /\ UNCHANGED <<request, command, grant, paired, revocation, file, runtime, events, call, delivered>>

\* append_event, at the end of control or for anything else that is recorded.
AppendEvent ==
    /\ mac.pc \in {"idle", "event"} /\ Sequence < MaxEvents
    /\ events' = Append(events, "mac")
    /\ mac' = MacIdle
    /\ UNCHANGED <<request, command, grant, paired, revocation, file, runtime, task, call, delivered>>

\* The file behind the private path is changed, or restored.
FileChanges ==
    /\ file' \in Contents \ {file}
    /\ UNCHANGED <<request, command, grant, paired, revocation, taskRows, mac, call, delivered>>

\* The process dies and is started again: a running execution is halted, and a
\* revocation that has not returned is up to the user again.
Restart ==
    /\ runtime' = IF runtime = "running" THEN "halted" ELSE runtime
    /\ task' = IF task = "running" /\ runtime' = "halted" THEN "blocked" ELSE task
    /\ call' = [p \in Calls |-> Idle] /\ mac' = MacIdle
    /\ revocation' = IF revocation = "grants" THEN "idle" ELSE revocation
    /\ UNCHANGED <<request, command, grant, paired, file, events, delivered>>

-----------------------------------------------------------------------------

CallStep(p) ==
    \/ \E r \in Requests : Receive(p, r) \/ LookupGrant(p, r)
    \/ InsertCommand(p) \/ CommitConflict(p) \/ ResolveCandidate(p) \/ Approve(p) \/ Commit(p)
    \/ ReadFile(p) \/ Consume(p) \/ GiveUp(p)

MacStep ==
    \/ \E status \in {"completed", "halted"} : AgentEnds(status)
    \/ AgentResumes \/ MacCancels \/ LedgerReads \/ LedgerWrites \/ AppendEvent
    \/ FileChanges \/ Restart

Next ==
    \/ \E p \in Calls : CallStep(p)
    \/ RevokeDevice \/ RevokeGrants
    \/ MacStep

Spec == Init /\ [][Next]_vars

-----------------------------------------------------------------------------
(* Properties.                                                             *)

TypeOK ==
    /\ request \in [Requests -> SignedRequest]
    /\ command \in [Requests -> {"none", "accepted", "completed", "rejected"}]
    /\ grant \in [Requests -> [there : BOOLEAN, opened : BOOLEAN, revoked : BOOLEAN]]
    /\ paired \in BOOLEAN
    /\ revocation \in {"idle", "grants", "returned"}
    /\ file \in Contents
    /\ runtime \in {"running", "halted", "completed", "cancelled"}
    /\ task \in {"running", "blocked", "completed", "cancelled"}
    /\ events \in Seq(Requests \union {"mac"})
    /\ mac \in [pc : {"idle", "read", "write", "event"}, control : BOOLEAN,
                seen : {"none", "running", "blocked", "completed", "cancelled"}]
    /\ mac.pc = "write" => mac.seen /= "none"
    /\ call \in [Calls -> [pc : {"idle", "insert", "conflict", "resolve", "approve", "commit",
                                 "read", "consume"},
                           req : Requests \union {"none"}, bytes : Contents]]
    /\ \A p \in Calls : call[p].pc /= "idle" => call[p].req \in Requests
    /\ delivered \in [Requests -> Seq(Contents)]

StopsOf(status) == {r \in Requests : request[r].kind = "stop_task" /\ command[r] = status}

\* "OOMU kept the Mac's version": a device stops a task only if nothing was
\* recorded since it looked.  Its event is the very next one, and a command that
\* did not complete has left none.
MacVersionWins ==
    /\ \A r \in StopsOf("completed") :
           request[r].expected < Len(events) /\ events[request[r].expected + 1] = r
    /\ \A i \in DOMAIN events : events[i] /= "mac" =>
           events[i] \in StopsOf("completed") /\ request[events[i]].expected + 1 = i

\* A device that was told its stop was applied has stopped the agent, not only
\* the task that shows it, whatever the agent, the ledger and a restart do.
StopIsReal == StopsOf("completed") /= {} => runtime = "cancelled"

\* "The link works once": a request that arrives twice at once, or under a second
\* id with its nonce, delivers one file once; of the threads that found a grant
\* one delivers, and what it delivers is what the user has approved.
SentOnceAsApproved ==
    \A r, q \in Requests :
        /\ delivered[r] \in {<<>>, <<"verified">>}
        /\ request[r].nonce = request[q].nonce /\ delivered[r] /= <<>> /\ r /= q =>
               command[q] = "none" /\ delivered[q] = <<>>

\* Once revoke has returned, no thread that was let in before delivers a file,
\* stops the task or completes a request.
RevocationHolds ==
    [][revocation = "returned" =>
          /\ delivered' = delivered
          /\ \A r \in Requests : command'[r] = "completed" => command[r] = "completed"]_vars
=============================================================================
