------------------------------- MODULE ChatTurn -------------------------------
(***************************************************************************)
(* One chat turn: the row of chat_turns, the user's message, and the       *)
(* terminal message that is its result.  Several runs of run_chat_turn may *)
(* work on the turn at once (a reloaded window replays what it finds       *)
(* accepted), each of them a sequence of short transactions; the window    *)
(* sends its own commands in between, and the process may die and restart  *)
(* (db/chat_turn_acceptance.rs, db/chat_turn_resume.rs,                    *)
(* db/chat_turn_cancel.rs, db/response_claim.rs, db/queued_messages.rs,    *)
(* inference/chat_turn_persistence.rs and the callers in inference/).      *)
(*                                                                         *)
(* Every transaction is an action.  The session stays, and a turn has one  *)
(* generation token.  Agent executions and permission waits, which reopen  *)
(* turns on their own, are not part of this module.                        *)
(***************************************************************************)
EXTENDS Naturals, Sequences, FiniteSets

CONSTANTS
    Runs,           \* the calls of run_chat_turn that may be alive at once
    Routes,         \* the concrete provider and model pairs
    Home,           \* the one a session without Auto-route is bound to
    Kinds,          \* the kinds of turn in this model
    MaxCalls,       \* how many calls of the window there are
    MaxCrashes      \* how often the process dies

ASSUME TurnAssumption ==
    /\ Home \in Routes /\ "dynamic" \notin Routes
    /\ Kinds \subseteq {"auto", "static", "queued"}
    /\ MaxCalls \in Nat /\ MaxCrashes \in Nat

Terminal == {"completed", "failed", "cancelled", "escalated"}

VARIABLES
    kind,           \* "auto" and "static" turns come from the window, by session
    turn,           \* the row of chat_turns
    user,           \* the user message with this turn id
    results,        \* the messages with terminalResultForTurnId, oldest first
    queue,          \* the status of the message_queue row of a queued turn
    run,            \* the calls of run_chat_turn
    window,         \* accept_chat_turn is two transactions
    calls, crashes,
    shown           \* history: the runs whose answer was returned as the reply

stored == <<turn, user, results, queue>>
bounds == <<calls, crashes>>
vars == <<kind, stored, run, window, bounds, shown>>

NoTurn == [there |-> FALSE, status |-> "running", claimed |-> FALSE, route |-> "dynamic"]
NoUser == [there |-> FALSE, state |-> "none", route |-> "dynamic", policy |-> FALSE]
NoRun == [pc |-> "idle", guard |-> FALSE, route |-> "dynamic", error |-> "none"]

Init ==
    /\ kind \in Kinds
    /\ turn = NoTurn /\ user = NoUser /\ results = <<>>
    /\ queue = IF kind = "queued" THEN "queued" ELSE "none"
    /\ run = [p \in Runs |-> NoRun]
    /\ window = "idle"
    /\ calls = 0 /\ crashes = 0 /\ shown = {}

\* The route the window asks for: "dynamic" in a session with Auto-route.
Asked == IF kind = "auto" THEN "dynamic" ELSE Home

SessionIsDynamic == kind = "auto"

Live == kind /= "queued"

-----------------------------------------------------------------------------
(* The transactions of PersistenceEngine.                                  *)

\* begin_chat_turn: the insert fails when the turn is there.
Begun(route) ==
    IF turn.there THEN turn
    ELSE [there |-> TRUE, status |-> "running", claimed |-> FALSE, route |-> route]

\* validate_chat_turn_generation
Current(route) == turn.there /\ turn.status = "running" /\ turn.route = route

\* ensure_chat_turn_user_message_acceptance_with_metadata: inserts the message,
\* or patches the one that is there; a patch without a state keeps the state.
Ensured(route, state) ==
    IF ~user.there THEN [there |-> TRUE, state |-> state, route |-> route, policy |-> FALSE]
    ELSE IF state = "none" THEN user ELSE [user EXCEPT !.state = state]

\* All messages with the turn id get the state.
Marked(state) == IF user.there THEN [user EXCEPT !.state = state] ELSE user

\* claim_prebound_chat_turn_response, with rebind_claimed_user_message_route.
Claimable(route) ==
    /\ turn.there /\ turn.status = "running" /\ ~turn.claimed
    /\ turn.route = route \/ SessionIsDynamic
    /\ user.there => user.state = "accepted"

\* Mutant of Interruptible: the route of the context is not compared.
InterruptibleOnAnyRoute(route) ==
    /\ turn.there /\ user.there
    /\ turn.status = "running" /\ results = <<>>

\* accepted_turn_interrupt_state and can_interrupt
Interruptible(route) ==
    /\ turn.there /\ user.there /\ turn.route = route
    /\ turn.status = "running" /\ results = <<>>

\* Mutant of InterruptedTurn: the state of the message, which the column refuses.
InterruptedTurnAsMessage == [turn EXCEPT !.status = "interrupted", !.claimed = FALSE]

\* interrupt_accepted_chat_turn
InterruptedTurn == [turn EXCEPT !.status = "failed", !.claimed = FALSE]

Interrupt(route) ==
    IF Interruptible(route) THEN turn' = InterruptedTurn /\ user' = Marked("interrupted")
    ELSE UNCHANGED <<turn, user>>

AlreadyInterrupted(route) ==
    /\ turn.there /\ user.there /\ turn.route = route
    /\ turn.status = "failed" /\ ~turn.claimed /\ user.state = "interrupted" /\ results = <<>>

\* resume_interrupted_chat_turn: the same condition, and the turn starts over.
Resumable(route) == AlreadyInterrupted(route)

ResumeTurn(route) ==
    /\ turn' = [turn EXCEPT !.status = "running",
                            !.route = IF SessionIsDynamic THEN "dynamic" ELSE route]
    /\ user' = Marked("accepted")

\* complete_claimed_chat_turn, unless the turn already has that status.
Eligible == turn.status = "running" /\ turn.claimed /\ results = <<>>

Store(status, by) ==
    /\ turn' = [turn EXCEPT !.status = status]
    /\ user' = Marked(status)
    /\ results' = Append(results, [status |-> status, by |-> by])

Completable(p) == turn.there /\ turn.route = run[p].route /\ Eligible

-----------------------------------------------------------------------------
(* run_chat_turn up to the response claim.                                 *)

GoTo(p, pc) == run' = [run EXCEPT ![p].pc = pc]

\* The call returns: for a queued message its row is still to be marked.
Return(p, ok) ==
    run' = [run EXCEPT ![p] = [NoRun EXCEPT !.pc =
              IF Live THEN "idle" ELSE IF ok THEN "mark_completed" ELSE "mark_failed"]]

Call == calls < MaxCalls /\ calls' = calls + 1

\* The window calls run_chat_turn once its accept_chat_turn has returned.  A
\* turn that is not routed automatically goes straight to the claim.
Start(p) ==
    /\ Live /\ user.there /\ run[p].pc = "idle" /\ Call
    /\ GoTo(p, IF kind = "auto" THEN "policy" ELSE "begin")
    /\ UNCHANGED <<kind, stored, window, crashes, shown>>

\* finish_prebound_chat_turn, when an approved file is gone: the first
\* statement of finish_chat_turn, with the context that is stored.
PreparationFails(p) ==
    /\ Live /\ user.there /\ run[p].pc = "idle" /\ Call
    /\ turn.there /\ turn.status = "running"
    /\ turn' = [turn EXCEPT !.status = "failed"]
    /\ GoTo(p, "finish")
    /\ UNCHANGED <<kind, user, results, queue, window, crashes, shown>>

\* The second statement of finish_chat_turn: there is no transaction.
PreparationMarks(p) ==
    /\ run[p].pc = "finish"
    /\ user' = Marked("failed")
    /\ Return(p, FALSE)
    /\ UNCHANGED <<kind, turn, results, queue, window, bounds, shown>>

\* resumable_auto_route_turn_policy: a frozen policy needs no new acceptance,
\* and then nothing guards the turn before the claim.
CheckPolicy(p) ==
    /\ run[p].pc = "policy"
    /\ IF ~user.policy THEN GoTo(p, "accept")
       ELSE IF turn.status = "running" /\ ~turn.claimed THEN GoTo(p, "begin")
       ELSE Return(p, FALSE)
    /\ UNCHANGED <<kind, stored, window, bounds, shown>>

\* accept_chat_turn: begin_or_validate_running_chat_turn.
AcceptBegin(p) ==
    /\ run[p].pc = "accept"
    /\ turn' = Begun("dynamic")
    /\ GoTo(p, IF ~turn.there \/ Current("dynamic") THEN "message" ELSE "resume")
    /\ UNCHANGED <<kind, user, results, queue, window, bounds, shown>>

\* The accepted message, and PreClaimAcceptedTurnGuard::new.
AcceptMessage(p) ==
    /\ run[p].pc = "message"
    /\ user' = Ensured("dynamic", "accepted")
    /\ run' = [run EXCEPT ![p].pc = "freeze", ![p].guard = TRUE]
    /\ UNCHANGED <<kind, turn, results, queue, window, bounds, shown>>

\* The acceptance failed: resume_interrupted_chat_turn instead.
AcceptResumes(p) ==
    /\ run[p].pc = "resume"
    /\ IF Resumable("dynamic")
       THEN ResumeTurn("dynamic") /\ run' = [run EXCEPT ![p].pc = "freeze", ![p].guard = TRUE]
       ELSE Return(p, FALSE) /\ UNCHANGED <<turn, user>>
    /\ UNCHANGED <<kind, results, queue, window, bounds, shown>>

\* An error before the claim: the guard, if there is one, is dropped.
Preclaim(p) == IF run[p].guard THEN GoTo(p, "drop") ELSE Return(p, FALSE)

\* freeze_auto_route_turn_policy
Freeze(p) ==
    /\ run[p].pc = "freeze"
    /\ \/ /\ user.policy \/ (Current("dynamic") /\ ~turn.claimed)
          /\ user' = [user EXCEPT !.policy = TRUE]
          /\ GoTo(p, "begin")
       \/ /\ ~user.policy /\ ~(Current("dynamic") /\ ~turn.claimed)
          /\ Preclaim(p) /\ UNCHANGED user
    /\ UNCHANGED <<kind, turn, results, queue, window, bounds, shown>>

\* Route resolution, an audit or the provider policy refuses the turn.
PreclaimFails(p) ==
    /\ run[p].pc = "begin"
    /\ Preclaim(p)
    /\ UNCHANGED <<kind, stored, window, bounds, shown>>

\* The turn is handed to the planner or waits for a consent: the guard is
\* disarmed, the turn stays accepted, and a queued message fails.
HandOver(p) ==
    /\ run[p].pc = "begin"
    /\ Return(p, FALSE)
    /\ UNCHANGED <<kind, stored, window, bounds, shown>>

\* Drop of PreClaimAcceptedTurnGuard.
DropGuard(p) ==
    /\ run[p].pc = "drop"
    /\ Interrupt("dynamic")
    /\ Return(p, FALSE)
    /\ UNCHANGED <<kind, results, queue, window, bounds, shown>>

\* begin_or_claim_chat_turn_response with the selected route: the insert ...
Begin(p, route) ==
    /\ run[p].pc = "begin" /\ (kind = "static" => route = Home)
    /\ turn' = Begun(route)
    /\ run' = [run EXCEPT ![p].pc = "claim", ![p].route = route]
    /\ UNCHANGED <<kind, user, results, queue, window, bounds, shown>>

\* ... and the claim, which binds the turn and its message to the route.
Claim(p) ==
    /\ run[p].pc = "claim"
    /\ IF Claimable(run[p].route)
       THEN /\ turn' = [turn EXCEPT !.claimed = TRUE, !.route = run[p].route]
            /\ user' = IF user.there THEN [user EXCEPT !.route = run[p].route] ELSE user
            /\ run' = [run EXCEPT ![p].pc = "save", ![p].guard = FALSE]
       ELSE Preclaim(p) /\ UNCHANGED <<turn, user>>
    /\ UNCHANGED <<kind, results, queue, window, bounds, shown>>

-----------------------------------------------------------------------------
(* run_chat_turn after the claim: ChatTurnPersistenceGuard.                *)

SaveMessage(p) ==
    /\ run[p].pc = "save"
    /\ user' = Ensured(run[p].route, "none")
    /\ GoTo(p, "answering")
    /\ UNCHANGED <<kind, turn, results, queue, window, bounds, shown>>

\* The model answers: validate_chat_turn_generation comes first.
Answer(p) ==
    /\ run[p].pc = "answering"
    /\ run' = IF Current(run[p].route) THEN [run EXCEPT ![p].pc = "complete"]
              ELSE [run EXCEPT ![p].pc = "failing", ![p].error = "error"]
    /\ UNCHANGED <<kind, stored, window, bounds, shown>>

\* It does not: an error, a private-egress consent, or the user's stop.
AnswerFails(p, error) ==
    /\ run[p].pc = "answering"
    /\ run' = [run EXCEPT ![p].pc = "failing", ![p].error = error]
    /\ UNCHANGED <<kind, stored, window, bounds, shown>>

\* Mutant of AlreadyCompleted: any end counts.
AlreadyEnded(p) == turn.there /\ turn.route = run[p].route /\ turn.status /= "running"

\* The replay of a result by complete_claimed_chat_turn.
AlreadyCompleted(p) ==
    turn.there /\ turn.route = run[p].route /\ turn.status = "completed" /\ results /= <<>>

\* complete_claimed_chat_turn with the answer.  A turn that is completed
\* already gives back its result.
Complete(p) ==
    /\ run[p].pc = "complete"
    /\ IF Completable(p) \/ AlreadyCompleted(p)
       THEN Return(p, TRUE) /\ shown' = shown \union {p}
       ELSE run' = [run EXCEPT ![p].pc = "failing", ![p].error = "error"] /\ UNCHANGED shown
    /\ IF Completable(p) THEN Store("completed", p) ELSE UNCHANGED <<turn, user, results>>
    /\ UNCHANGED <<kind, queue, window, bounds>>

\* finish_with_error; when it fails too, the drop of the guard tries "failed".
FinishWith(p, status) ==
    IF Completable(p) THEN Store(status, p) ELSE UNCHANGED <<turn, user, results>>

\* Mutant of FinishConsent: the call just returns.
FinishConsentSilently(p) == UNCHANGED <<turn, user, results>>

\* release_chat_turn_response_claim, or else the drop of the guard.
FinishConsent(p) ==
    IF Completable(p) THEN turn' = [turn EXCEPT !.claimed = FALSE] /\ UNCHANGED <<user, results>>
    ELSE FinishWith(p, "failed")

\* interrupt_accepted_chat_turn, or else the turn is cancelled.
FinishStop(p) ==
    IF Interruptible(run[p].route) THEN Interrupt(run[p].route) /\ UNCHANGED results
    ELSE IF AlreadyInterrupted(run[p].route) THEN UNCHANGED <<turn, user, results>>
    ELSE FinishWith(p, "cancelled")

\* finish_inference_error
FinishError(p) ==
    /\ run[p].pc = "failing"
    /\ CASE run[p].error = "consent" -> FinishConsent(p)
         [] run[p].error = "stopped" -> FinishStop(p)
         [] OTHER -> FinishWith(p, "failed")
    /\ Return(p, FALSE)
    /\ UNCHANGED <<kind, queue, window, bounds, shown>>

-----------------------------------------------------------------------------
(* The queue.                                                              *)

\* execute_queued_messages: claim_queued_messages, then run_chat_turn.
ClaimQueued(p) ==
    /\ queue = "queued" /\ run[p].pc = "idle" /\ Call
    /\ queue' = "executing"
    /\ GoTo(p, "begin")
    /\ UNCHANGED <<kind, turn, user, results, window, crashes, shown>>

\* Mutant of MarkQueued: a failure is not written.
MarkQueuedIfCompleted(p) ==
    /\ run[p].pc \in {"mark_completed", "mark_failed"}
    /\ queue' = IF run[p].pc = "mark_completed" THEN "completed" ELSE queue
    /\ GoTo(p, "idle")
    /\ UNCHANGED <<kind, turn, user, results, window, bounds, shown>>

\* mark_queued_message_completed, mark_queued_message_failed
MarkQueued(p) ==
    /\ run[p].pc \in {"mark_completed", "mark_failed"}
    /\ queue' = IF run[p].pc = "mark_completed" THEN "completed" ELSE "failed"
    /\ GoTo(p, "idle")
    /\ UNCHANGED <<kind, turn, user, results, window, bounds, shown>>

\* cancel and retry of the task (tasks/adapters.rs).
CancelQueued ==
    /\ queue = "queued" /\ Call
    /\ queue' = "cancelled"
    /\ UNCHANGED <<kind, turn, user, results, run, window, crashes, shown>>

RetryQueued ==
    /\ queue \in {"failed", "cancelled"} /\ Call
    /\ queue' = "queued"
    /\ UNCHANGED <<kind, turn, user, results, run, window, crashes, shown>>

-----------------------------------------------------------------------------
(* The commands of the window.                                             *)

Command == Live /\ Call /\ UNCHANGED <<kind, queue, run, crashes, shown>>

\* accept_chat_turn
WindowAccepts ==
    /\ Command /\ window = "idle"
    /\ ~turn.there \/ Current(Asked)
    /\ turn' = Begun(Asked)
    /\ window' = "message"
    /\ UNCHANGED <<user, results>>

WindowAcceptsMessage ==
    /\ window = "message"
    /\ user' = Ensured(Asked, "accepted")
    /\ window' = "idle"
    /\ UNCHANGED <<kind, turn, results, queue, run, bounds, shown>>

\* resume_interrupted_chat_turn, with the route of the message the window shows.
Resume ==
    /\ Command /\ Resumable(user.route)
    /\ ResumeTurn(user.route)
    /\ UNCHANGED <<results, window>>

\* finalize_accepted_chat_turn
Finalize(status) ==
    /\ Command /\ turn.there /\ (turn.route = Asked \/ SessionIsDynamic)
    /\ ~(turn.status = "running" /\ turn.claimed)
    /\ turn.status \in {"running", status}
    /\ turn' = [turn EXCEPT !.status = status]
    /\ user' = Marked(status)
    /\ results' = IF results = <<>> THEN <<[status |-> status, by |-> "window"]>> ELSE results
    /\ UNCHANGED window

\* Mutant of Abandon: the explanation is written every time.
AbandonAgain ==
    /\ Command /\ turn.there
    /\ turn.route = Asked \/ (SessionIsDynamic /\ turn.claimed)
    /\ ~(turn.status = "running" /\ turn.claimed)
    /\ ~AlreadyInterrupted(turn.route)
    /\ turn.status \in {"running", "failed"}
    /\ Store("failed", "window")
    /\ UNCHANGED window

\* abandon_accepted_chat_turn: recoverable work is left alone.
Abandon ==
    /\ Command /\ turn.there
    /\ turn.route = Asked \/ (SessionIsDynamic /\ turn.claimed)
    /\ ~(turn.status = "running" /\ turn.claimed)
    /\ ~AlreadyInterrupted(turn.route)
    /\ turn.status \in {"running", "failed"}
    /\ IF results = <<>> THEN Store("failed", "window")
       ELSE turn' = [turn EXCEPT !.status = "failed"] /\ user' = Marked("failed") /\ UNCHANGED results
    /\ UNCHANGED window

\* cancel_saved_chat_turn
CancelSaved ==
    /\ Command /\ turn.there /\ user.there /\ results = <<>>
    /\ turn.status = "failed" \/ (turn.status = "running" /\ ~turn.claimed)
    /\ Store("cancelled", "window")
    /\ UNCHANGED window

-----------------------------------------------------------------------------

\* The process dies and starts again: mark_interrupted_actions.  The claim of
\* an answer that was being written stays, and so does the queue.
Restart ==
    /\ crashes < MaxCrashes /\ crashes' = crashes + 1
    /\ run' = [p \in Runs |-> NoRun] /\ window' = "idle"
    /\ IF turn.there /\ turn.status = "running"
       THEN /\ turn' = [turn EXCEPT !.status = "failed"]
            /\ user' = IF user.state = "accepted" THEN Marked("interrupted") ELSE user
       ELSE UNCHANGED <<turn, user>>
    /\ UNCHANGED <<kind, results, queue, calls, shown>>

RunStep(p) ==
    \/ PreparationMarks(p) \/ CheckPolicy(p) \/ AcceptBegin(p) \/ AcceptMessage(p)
    \/ AcceptResumes(p) \/ Freeze(p) \/ PreclaimFails(p) \/ HandOver(p) \/ DropGuard(p)
    \/ \E route \in Routes : Begin(p, route)
    \/ Claim(p) \/ SaveMessage(p) \/ Answer(p)
    \/ \E error \in {"error", "consent", "stopped"} : AnswerFails(p, error)
    \/ Complete(p) \/ FinishError(p) \/ MarkQueued(p)

WindowStep ==
    \/ \E p \in Runs : Start(p) \/ PreparationFails(p) \/ ClaimQueued(p)
    \/ CancelQueued \/ RetryQueued
    \/ WindowAccepts \/ WindowAcceptsMessage \/ Resume \/ Abandon \/ CancelSaved
    \/ \E status \in Terminal : Finalize(status)

Next == (\E p \in Runs : RunStep(p)) \/ WindowStep \/ Restart

Spec == Init /\ [][Next]_vars

\* A call of run_chat_turn goes on until it returns.
FairSpec == Spec /\ \A p \in Runs : WF_vars(RunStep(p))

-----------------------------------------------------------------------------
(* Properties.                                                             *)

\* The values the table's CHECK constraint and the metadata allow.
TypeOK ==
    /\ kind \in Kinds
    /\ turn \in [there : BOOLEAN, status : Terminal \union {"running"}, claimed : BOOLEAN,
                 route : Routes \union {"dynamic"}]
    /\ user \in [there : BOOLEAN, state : Terminal \union {"none", "accepted", "interrupted"},
                 route : Routes \union {"dynamic"}, policy : BOOLEAN]
    /\ results \in Seq([status : Terminal, by : Runs \union {"window"}])
    /\ queue \in {"none", "queued", "executing", "completed", "failed", "cancelled"}
    /\ run \in [Runs -> [pc : {"idle", "finish", "policy", "accept", "message", "resume", "freeze",
                               "begin", "drop", "claim", "save", "answering", "complete", "failing",
                               "mark_completed", "mark_failed"},
                         guard : BOOLEAN, route : Routes \union {"dynamic"},
                         error : {"none", "error", "consent", "stopped"}]]
    /\ window \in {"idle", "message"}
    /\ calls \in Nat /\ crashes \in Nat /\ shown \subseteq Runs

\* A turn never has two results, whichever runs, commands, retries and restarts
\* end it, and the one in the conversation says what the turn's row says: once
\* there is one, nothing reopens the turn or changes its status.
OneResult ==
    /\ Len(results) <= 1
    /\ results /= <<>> => turn.status = results[1].status

\* One run answers at a time.  A second run whose claim is refused drops its
\* guard, and that takes nothing from the first one.
OneResponder ==
    \A p, q \in Runs :
        /\ run[p].pc \in {"save", "answering", "complete", "failing"}
        /\ run[q].pc \in {"save", "answering", "complete", "failing"}
        => p = q

\* An answer that a run returned, or for which a queued message was marked
\* completed, is the stored result of the turn, and stays it.
ReportedIsStored ==
    /\ \A p \in shown : results = <<[status |-> "completed", by |-> p]>>
    /\ queue = "completed" => shown /= {}

\* A turn without a result can be taken up again or closed.  A message shown as
\* interrupted belongs to a failed turn, with no claim unless the process died
\* while it was answered; and when every call has returned, the turn failed or
\* runs unclaimed.
UnansweredIsRecoverable ==
    /\ user.state = "interrupted" =>
           turn.status = "failed" /\ results = <<>> /\ (turn.claimed => crashes > 0)
    /\ (\A p \in Runs : run[p].pc = "idle") /\ turn.there /\ results = <<>> =>
           turn.status = "failed" \/ (turn.status = "running" /\ ~turn.claimed)

\* A queued message that is being executed is settled, unless the process dies
\* meanwhile: nothing takes such a message up again after a restart.
QueueSettles == queue = "executing" ~> (queue /= "executing" \/ crashes > 0)
=============================================================================
