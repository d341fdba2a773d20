--------------------------- MODULE ChatTurnProofs ---------------------------
(***************************************************************************)
(* The properties of ChatTurn for any number of runs, routes, calls and    *)
(* restarts.                                                               *)
(*                                                                         *)
(* None of the properties is inductive.  The rows are consistent among     *)
(* themselves (RowsAgree): a turn that is not there is untouched, one with *)
(* a result has its status, one without is open or failed.  And a run that *)
(* answers holds the claim of a turn bound to its route (RunsAgree), so    *)
(* that a second run cannot claim, interrupt or complete it.               *)
(***************************************************************************)
EXTENDS ChatTurn, TLAPS

Statuses == Terminal \union {"running"}
States == Terminal \union {"none", "accepted", "interrupted"}
AnyRoute == Routes \union {"dynamic"}
Steps == {"idle", "finish", "policy", "accept", "message", "resume", "freeze", "begin", "drop",
          "claim", "save", "answering", "complete", "failing", "mark_completed", "mark_failed"}
Errors == {"none", "error", "consent", "stopped"}

Turns == [there : BOOLEAN, status : Statuses, claimed : BOOLEAN, route : AnyRoute]
Users == [there : BOOLEAN, state : States, route : AnyRoute, policy : BOOLEAN]
Results == [status : Terminal, by : Runs \union {"window"}]
RunStates == [pc : Steps, guard : BOOLEAN, route : AnyRoute, error : Errors]

\* The rows of the turn and its messages.
TypeTurn == kind \in Kinds /\ turn \in Turns /\ user \in Users /\ results \in Seq(Results)

\* The rest of the state.
TypeRest ==
    /\ queue \in {"none", "queued", "executing", "completed", "failed", "cancelled"}
    /\ run \in [Runs -> RunStates]
    /\ window \in {"idle", "message"}
    /\ calls \in Nat /\ crashes \in Nat /\ shown \subseteq Runs

\* The two parts are all of TypeOK.
LEMMA TypeParts == TypeOK <=> TypeTurn /\ TypeRest
BY DEF TypeOK, TypeTurn, TypeRest, Turns, Users, Results, RunStates, Statuses, States, AnyRoute,
       Steps, Errors

\* And so they are after a step.
LEMMA TypePartsPrimed == TypeOK' <=> TypeTurn' /\ TypeRest'
BY DEF TypeOK, TypeTurn, TypeRest, Turns, Users, Results, RunStates, Statuses, States, AnyRoute,
       Steps, Errors

-----------------------------------------------------------------------------
(* The inductive invariants                                                *)

\* A turn that is not there is untouched; the result of a turn has its status,
\* and a turn without one is running or failed; a message is shown as
\* interrupted for a failed turn without a result only.
RowsAgree ==
    /\ ~turn.there => turn.status = "running" /\ ~turn.claimed
    /\ OneResult
    /\ results = <<>> => turn.status \in {"running", "failed"}
    /\ user.state = "interrupted" =>
           /\ user.there /\ turn.there /\ turn.status = "failed" /\ results = <<>>
           /\ turn.claimed => crashes > 0

Responding(p) == run[p].pc \in {"save", "answering", "complete", "failing"}

\* A run that answers holds the claim of the turn, which is bound to its route;
\* it does so alone, and a claim of a running turn is held.
RunsAgree ==
    /\ \A p \in Runs : run[p].pc = "claim" => run[p].route \in Routes
    /\ \A p \in Runs : Responding(p) =>
           /\ turn.there /\ turn.claimed /\ turn.status /= "completed"
           /\ turn.route = run[p].route /\ run[p].route \in Routes
    /\ \A p, q \in Runs : Responding(p) /\ Responding(q) => p = q
    /\ turn.status = "running" /\ turn.claimed => \E p \in Runs : Responding(p)

\* An answer that was returned is the stored one; a run that goes on to mark
\* its queued message completed has returned one.
AnswersAgree ==
    /\ ReportedIsStored
    /\ \A p \in Runs : run[p].pc = "mark_completed" => shown /= {}

-----------------------------------------------------------------------------
(* The operators the actions are built from                                *)

\* A row of chat_turns that is inserted is well-formed.
LEMMA BegunType ==
    ASSUME TypeTurn, NEW route \in AnyRoute
    PROVE  Begun(route) \in Turns
BY DEF TypeTurn, Begun, Turns, Statuses

\* A column of a turn changes.
LEMMA TurnType ==
    ASSUME TypeTurn, NEW s \in Statuses, NEW c \in BOOLEAN, NEW route \in AnyRoute
    PROVE  /\ [turn EXCEPT !.status = s] \in Turns /\ [turn EXCEPT !.claimed = c] \in Turns
           /\ [turn EXCEPT !.status = s, !.claimed = c] \in Turns
           /\ [turn EXCEPT !.status = s, !.route = route] \in Turns
           /\ [turn EXCEPT !.claimed = c, !.route = route] \in Turns
BY DEF TypeTurn, Turns

\* A message is inserted, patched, or marked.
LEMMA UserType ==
    ASSUME TypeTurn, NEW route \in AnyRoute, NEW s \in States
    PROVE  /\ Ensured(route, s) \in Users /\ Marked(s) \in Users
           /\ [user EXCEPT !.route = route] \in Users
           /\ [user EXCEPT !.policy = TRUE] \in Users
BY DEF TypeTurn, Ensured, Marked, Users

\* An ended turn stores its result.
LEMMA StoreType ==
    ASSUME TypeTurn, NEW s \in Terminal, NEW b \in Runs \union {"window"}, Store(s, b)
    PROVE  turn' \in Turns /\ user' \in Users /\ results' \in Seq(Results)
<1>1. s \in Statuses /\ s \in States
  BY DEF Statuses, States
<1>2. turn' \in Turns /\ user' \in Users
  BY <1>1, TurnType, UserType DEF Store, TypeTurn, AnyRoute
<1>3. [status |-> s, by |-> b] \in Results
  BY DEF Results
<1> QED
  BY <1>2, <1>3 DEF Store, TypeTurn

\* A run goes on.
LEMMA GoToType ==
    ASSUME TypeRest, NEW p \in Runs, NEW s \in Steps, GoTo(p, s)
    PROVE  /\ run' \in [Runs -> RunStates] /\ run'[p].pc = s /\ run'[p].route = run[p].route
           /\ \A q \in Runs \ {p} : run'[q] = run[q]
BY DEF TypeRest, GoTo, RunStates

\* A run returns.
LEMMA ReturnType ==
    ASSUME TypeRest, NEW p \in Runs, NEW ok \in BOOLEAN, Return(p, ok)
    PROVE  /\ run' \in [Runs -> RunStates]
           /\ run'[p].pc \in {"idle", "mark_completed", "mark_failed"}
           /\ run'[p].pc = "mark_completed" => ok
           /\ \A q \in Runs \ {p} : run'[q] = run[q]
<1>1. /\ [NoRun EXCEPT !.pc = "idle"] \in RunStates
      /\ [NoRun EXCEPT !.pc = "mark_completed"] \in RunStates
      /\ [NoRun EXCEPT !.pc = "mark_failed"] \in RunStates
  BY DEF NoRun, RunStates, Steps, AnyRoute, Errors
<1>2. PICK s \in {"idle", "mark_completed", "mark_failed"} :
         run' = [run EXCEPT ![p] = [NoRun EXCEPT !.pc = s]] /\ (s = "mark_completed" => ok)
  BY DEF Return
<1>3. [NoRun EXCEPT !.pc = s] \in RunStates /\ [NoRun EXCEPT !.pc = s].pc = s
  BY <1>1 DEF NoRun
<1>4. /\ run' \in [Runs -> RunStates] /\ run'[p] = [NoRun EXCEPT !.pc = s]
      /\ \A q \in Runs \ {p} : run'[q] = run[q]
  BY <1>2, <1>3 DEF TypeRest
<1> QED
  BY <1>2, <1>3, <1>4

\* A run is interrupted before its claim: it drops its guard or returns.
LEMMA PreclaimType ==
    ASSUME TypeRest, NEW p \in Runs, Preclaim(p)
    PROVE  /\ run' \in [Runs -> RunStates]
           /\ run'[p].pc \in {"idle", "mark_failed", "drop"}
           /\ \A q \in Runs \ {p} : run'[q] = run[q]
<1>1. CASE run[p].guard
  BY <1>1, GoToType DEF Preclaim, Steps
<1>2. CASE ~run[p].guard
  BY <1>2, ReturnType DEF Preclaim
<1> QED
  BY <1>1, <1>2

\* interrupt_accepted_chat_turn keeps the rows well-formed.
LEMMA InterruptType ==
    ASSUME TypeTurn, NEW route, Interrupt(route)
    PROVE  turn' \in Turns /\ user' \in Users
<1>1. CASE Interruptible(route)
  <2>1. turn' = [turn EXCEPT !.status = "failed", !.claimed = FALSE]
    BY <1>1 DEF Interrupt, InterruptedTurn
  <2>2. user' = Marked("interrupted")
    BY <1>1 DEF Interrupt
  <2> QED
    BY <2>1, <2>2, TurnType, UserType DEF Statuses, States, Terminal, AnyRoute
<1>2. CASE ~Interruptible(route)
  BY <1>2 DEF Interrupt, TypeTurn
<1> QED
  BY <1>1, <1>2

\* resume_interrupted_chat_turn keeps the rows well-formed.
LEMMA ResumeType ==
    ASSUME TypeTurn, NEW route \in AnyRoute, ResumeTurn(route)
    PROVE  turn' \in Turns /\ user' \in Users
<1>1. /\ "running" \in Statuses /\ "accepted" \in States
      /\ (IF SessionIsDynamic THEN "dynamic" ELSE route) \in AnyRoute
  BY DEF Statuses, States, AnyRoute
<1> QED
  BY <1>1, TurnType, UserType DEF ResumeTurn

\* A run that ends stores its result or leaves the rows alone.
LEMMA FinishWithType ==
    ASSUME TypeTurn, NEW p \in Runs, NEW s \in Terminal, FinishWith(p, s)
    PROVE  turn' \in Turns /\ user' \in Users /\ results' \in Seq(Results)
<1>1. CASE Completable(p)
  BY <1>1, StoreType DEF FinishWith
<1>2. CASE ~Completable(p)
  BY <1>2 DEF FinishWith, TypeTurn
<1> QED
  BY <1>1, <1>2

\* finish_inference_error keeps the rows well-formed.
LEMMA FinishErrorType ==
    ASSUME TypeTurn, NEW p \in Runs, FinishError(p)
    PROVE  turn' \in Turns /\ user' \in Users /\ results' \in Seq(Results)
<1>0. "failed" \in Terminal /\ "cancelled" \in Terminal
  BY DEF Terminal
<1>1. CASE run[p].error = "consent" /\ Completable(p)
  <2>1. turn' = [turn EXCEPT !.claimed = FALSE] /\ UNCHANGED <<user, results>>
    BY <1>1 DEF FinishError, FinishConsent
  <2> QED
    BY <2>1, TurnType DEF TypeTurn, Statuses, AnyRoute
<1>2. CASE run[p].error = "consent" /\ ~Completable(p)
  BY <1>0, <1>2, FinishWithType DEF FinishError, FinishConsent
<1>3. CASE run[p].error = "stopped"
  <2>1. CASE Interrupt(run[p].route) /\ UNCHANGED results
    BY <2>1, InterruptType DEF TypeTurn
  <2>2. CASE UNCHANGED <<turn, user, results>>
    BY <2>2 DEF TypeTurn
  <2>3. CASE FinishWith(p, "cancelled")
    BY <1>0, <2>3, FinishWithType
  <2> QED
    BY <1>3, <2>1, <2>2, <2>3 DEF FinishError, FinishStop
<1>4. CASE run[p].error \notin {"consent", "stopped"}
  BY <1>0, <1>4, FinishWithType DEF FinishError
<1> QED
  BY <1>1, <1>2, <1>3, <1>4

-----------------------------------------------------------------------------
(* Types                                                                   *)

\* The steps of run_chat_turn up to the claim preserve TypeOK.
LEMMA PreclaimStepType ==
    ASSUME TypeOK, NEW p \in Runs,
           \/ PreparationMarks(p) \/ CheckPolicy(p) \/ AcceptBegin(p) \/ AcceptMessage(p)
           \/ AcceptResumes(p) \/ Freeze(p) \/ PreclaimFails(p) \/ HandOver(p) \/ DropGuard(p)
           \/ \E route \in Routes : Begin(p, route)
    PROVE  TypeOK'
<1> SUFFICES TypeTurn' /\ TypeRest'
  BY TypePartsPrimed
<1>0. TypeTurn /\ TypeRest
  BY TypeParts
<1>1. /\ "dynamic" \in AnyRoute /\ "failed" \in States /\ "accepted" \in States
      /\ {"idle", "accept", "begin", "message", "resume", "freeze", "drop", "claim"} \subseteq Steps
  BY DEF AnyRoute, States, Terminal, Steps
<1>2. CASE PreparationMarks(p)
  <2>1. user' \in Users
    BY <1>0, <1>1, <1>2, UserType DEF PreparationMarks
  <2>2. run' \in [Runs -> RunStates]
    BY <1>0, <1>2, ReturnType DEF PreparationMarks
  <2> QED
    BY <1>0, <1>2, <2>1, <2>2 DEF PreparationMarks, TypeTurn, TypeRest, bounds
<1>3. CASE CheckPolicy(p)
  <2>1. run' \in [Runs -> RunStates]
    BY <1>0, <1>1, <1>3, ReturnType, GoToType DEF CheckPolicy
  <2> QED
    BY <1>0, <1>3, <2>1 DEF CheckPolicy, TypeTurn, TypeRest, bounds, stored
<1>4. CASE AcceptBegin(p)
  <2>1. turn' \in Turns
    BY <1>0, <1>1, <1>4, BegunType DEF AcceptBegin
  <2>2. run' \in [Runs -> RunStates]
    BY <1>0, <1>1, <1>4, GoToType DEF AcceptBegin
  <2> QED
    BY <1>0, <1>4, <2>1, <2>2 DEF AcceptBegin, TypeTurn, TypeRest, bounds
<1>5. ASSUME run' = [run EXCEPT ![p].pc = "freeze", ![p].guard = TRUE]
      PROVE  run' \in [Runs -> RunStates]
  BY <1>0, <1>1, <1>5 DEF TypeRest, RunStates
<1>6. CASE AcceptMessage(p)
  <2>1. user' \in Users
    BY <1>0, <1>1, <1>6, UserType DEF AcceptMessage
  <2> QED
    BY <1>0, <1>5, <1>6, <2>1 DEF AcceptMessage, TypeTurn, TypeRest, bounds
<1>7. CASE AcceptResumes(p)
  <2>1. turn' \in Turns /\ user' \in Users
    BY <1>0, <1>1, <1>7, ResumeType DEF AcceptResumes, TypeTurn
  <2>2. run' \in [Runs -> RunStates]
    BY <1>0, <1>5, <1>7, ReturnType DEF AcceptResumes
  <2> QED
    BY <1>0, <1>7, <2>1, <2>2 DEF AcceptResumes, TypeTurn, TypeRest, bounds
<1>8. CASE Freeze(p)
  <2>1. user' \in Users
    BY <1>0, <1>1, <1>8, UserType DEF Freeze, TypeTurn
  <2>2. run' \in [Runs -> RunStates]
    BY <1>0, <1>1, <1>8, GoToType, PreclaimType DEF Freeze
  <2> QED
    BY <1>0, <1>8, <2>1, <2>2 DEF Freeze, TypeTurn, TypeRest, bounds
<1>9. CASE PreclaimFails(p) \/ HandOver(p)
  <2>1. run' \in [Runs -> RunStates]
    BY <1>0, <1>9, ReturnType, PreclaimType DEF PreclaimFails, HandOver
  <2> QED
    BY <1>0, <1>9, <2>1 DEF PreclaimFails, HandOver, TypeTurn, TypeRest, bounds, stored
<1>10. CASE DropGuard(p)
  <2>1. turn' \in Turns /\ user' \in Users
    BY <1>0, <1>10, InterruptType DEF DropGuard
  <2>2. run' \in [Runs -> RunStates]
    BY <1>0, <1>10, ReturnType DEF DropGuard
  <2> QED
    BY <1>0, <1>10, <2>1, <2>2 DEF DropGuard, TypeTurn, TypeRest, bounds
<1>11. ASSUME NEW route \in Routes, Begin(p, route)
       PROVE  TypeTurn' /\ TypeRest'
  <2>0. route \in AnyRoute
    BY DEF AnyRoute
  <2>1. turn' \in Turns
    BY <1>0, <1>11, <2>0, BegunType DEF Begin
  <2>2. run' \in [Runs -> RunStates]
    <3>1. run[p] \in RunStates /\ run \in [Runs -> RunStates]
      BY <1>0 DEF TypeRest
    <3>2. [run[p] EXCEPT !.pc = "claim", !.route = route] \in RunStates
      BY <1>1, <2>0, <3>1 DEF RunStates
    <3> QED
      BY <1>11, <3>1, <3>2 DEF Begin
  <2> QED
    BY <1>0, <1>11, <2>1, <2>2 DEF Begin, TypeTurn, TypeRest, bounds
<1> QED
  BY <1>2, <1>3, <1>4, <1>6, <1>7, <1>8, <1>9, <1>10, <1>11

\* The claim and the steps after it preserve TypeOK.
LEMMA AnswerStepType ==
    ASSUME TypeOK, NEW p \in Runs,
           \/ Claim(p) \/ SaveMessage(p) \/ Answer(p)
           \/ \E error \in {"error", "consent", "stopped"} : AnswerFails(p, error)
           \/ Complete(p) \/ FinishError(p) \/ MarkQueued(p)
    PROVE  TypeOK'
<1> SUFFICES TypeTurn' /\ TypeRest'
  BY TypePartsPrimed
<1>0. TypeTurn /\ TypeRest
  BY TypeParts
<1>1. /\ run[p].route \in AnyRoute /\ "none" \in States /\ "completed" \in Terminal
      /\ {"idle", "save", "answering", "complete", "failing"} \subseteq Steps
  BY <1>0 DEF TypeRest, RunStates, States, Terminal, Steps
<1>2. CASE Claim(p)
  <2>1. turn' \in Turns
    BY <1>0, <1>1, <1>2, TurnType DEF Claim, TypeTurn, Statuses
  <2>2. user' \in Users
    BY <1>0, <1>1, <1>2, UserType DEF Claim, TypeTurn
  <2>3. run' \in [Runs -> RunStates]
    <3>1. CASE run' = [run EXCEPT ![p].pc = "save", ![p].guard = FALSE]
      BY <1>0, <1>1, <3>1 DEF TypeRest, RunStates
    <3>2. CASE Preclaim(p)
      BY <1>0, <3>2, PreclaimType
    <3> QED
      BY <1>2, <3>1, <3>2 DEF Claim
  <2> QED
    BY <1>0, <1>2, <2>1, <2>2, <2>3 DEF Claim, TypeTurn, TypeRest, bounds
<1>3. CASE SaveMessage(p)
  <2>1. user' \in Users
    BY <1>0, <1>1, <1>3, UserType DEF SaveMessage
  <2>2. run' \in [Runs -> RunStates]
    BY <1>0, <1>1, <1>3, GoToType DEF SaveMessage
  <2> QED
    BY <1>0, <1>3, <2>1, <2>2 DEF SaveMessage, TypeTurn, TypeRest, bounds
<1>4. ASSUME NEW e \in {"error", "consent", "stopped"},
             run' = [run EXCEPT ![p].pc = "failing", ![p].error = e]
      PROVE  run' \in [Runs -> RunStates]
  BY <1>0, <1>1, <1>4 DEF TypeRest, RunStates, Errors
<1>5. CASE Answer(p)
  <2>1. run' \in [Runs -> RunStates]
    <3>1. CASE run' = [run EXCEPT ![p].pc = "complete"]
      BY <1>0, <1>1, <3>1 DEF TypeRest, RunStates
    <3> QED
      BY <1>4, <1>5, <3>1 DEF Answer
  <2> QED
    BY <1>0, <1>5, <2>1 DEF Answer, TypeTurn, TypeRest, bounds, stored
<1>6. ASSUME NEW e \in {"error", "consent", "stopped"}, AnswerFails(p, e)
      PROVE  TypeTurn' /\ TypeRest'
  BY <1>0, <1>4, <1>6 DEF AnswerFails, TypeTurn, TypeRest, bounds, stored
<1>7. CASE Complete(p)
  <2>1. turn' \in Turns /\ user' \in Users /\ results' \in Seq(Results)
    BY <1>0, <1>1, <1>7, StoreType DEF Complete, TypeTurn
  <2>2. run' \in [Runs -> RunStates] /\ shown' \subseteq Runs
    BY <1>0, <1>4, <1>7, ReturnType DEF Complete, TypeRest
  <2> QED
    BY <1>0, <1>7, <2>1, <2>2 DEF Complete, TypeTurn, TypeRest, bounds
<1>8. CASE FinishError(p)
  <2>1. turn' \in Turns /\ user' \in Users /\ results' \in Seq(Results)
    BY <1>0, <1>8, FinishErrorType
  <2>2. run' \in [Runs -> RunStates]
    BY <1>0, <1>8, ReturnType DEF FinishError
  <2> QED
    BY <1>0, <1>8, <2>1, <2>2 DEF FinishError, TypeTurn, TypeRest, bounds
<1>9. CASE MarkQueued(p)
  <2>1. run' \in [Runs -> RunStates]
    BY <1>0, <1>1, <1>9, GoToType DEF MarkQueued
  <2> QED
    BY <1>0, <1>9, <2>1 DEF MarkQueued, TypeTurn, TypeRest, bounds
<1> QED
  BY <1>2, <1>3, <1>5, <1>6, <1>7, <1>8, <1>9

\* The calls of the window, the queue and a restart preserve TypeOK.
LEMMA WindowStepType ==
    ASSUME TypeOK, WindowStep \/ Restart \/ UNCHANGED vars
    PROVE  TypeOK'
<1> SUFFICES TypeTurn' /\ TypeRest'
  BY TypePartsPrimed
<1>0. TypeTurn /\ TypeRest
  BY TypeParts
<1>1. /\ Asked \in AnyRoute /\ user.route \in AnyRoute /\ Terminal \subseteq Statuses
      /\ Terminal \subseteq States /\ {"accepted", "interrupted"} \subseteq States
      /\ "failed" \in Terminal /\ "cancelled" \in Terminal
      /\ {"idle", "finish", "policy", "begin"} \subseteq Steps
  BY <1>0, TurnAssumption DEF TypeTurn, Users, Asked, AnyRoute, Statuses, States, Terminal, Steps
<1>2. ASSUME NEW p \in Runs, Start(p)
      PROVE  TypeTurn' /\ TypeRest'
  <2>1. run' \in [Runs -> RunStates]
    BY <1>0, <1>1, <1>2, GoToType DEF Start
  <2> QED
    BY <1>0, <1>2, <2>1 DEF Start, Call, TypeTurn, TypeRest, stored
<1>3. ASSUME NEW p \in Runs, PreparationFails(p)
      PROVE  TypeTurn' /\ TypeRest'
  <2>1. run' \in [Runs -> RunStates]
    BY <1>0, <1>1, <1>3, GoToType DEF PreparationFails
  <2>2. turn' \in Turns
    BY <1>0, <1>1, <1>3, TurnType DEF PreparationFails, AnyRoute
  <2> QED
    BY <1>0, <1>3, <2>1, <2>2 DEF PreparationFails, Call, TypeTurn, TypeRest
<1>4. ASSUME NEW p \in Runs, ClaimQueued(p)
      PROVE  TypeTurn' /\ TypeRest'
  <2>1. run' \in [Runs -> RunStates]
    BY <1>0, <1>1, <1>4, GoToType DEF ClaimQueued
  <2> QED
    BY <1>0, <1>4, <2>1 DEF ClaimQueued, Call, TypeTurn, TypeRest
<1>5. CASE CancelQueued \/ RetryQueued
  BY <1>0, <1>5 DEF CancelQueued, RetryQueued, Call, TypeTurn, TypeRest
<1>6. CASE WindowAccepts
  <2>1. turn' \in Turns
    BY <1>0, <1>1, <1>6, BegunType DEF WindowAccepts
  <2> QED
    BY <1>0, <1>6, <2>1 DEF WindowAccepts, Command, Call, TypeTurn, TypeRest
<1>7. CASE WindowAcceptsMessage
  <2>1. user' \in Users
    BY <1>0, <1>1, <1>7, UserType DEF WindowAcceptsMessage
  <2> QED
    BY <1>0, <1>7, <2>1 DEF WindowAcceptsMessage, TypeTurn, TypeRest, bounds
<1>8. ASSUME Command, UNCHANGED window,
             turn' \in Turns /\ user' \in Users /\ results' \in Seq(Results)
      PROVE  TypeTurn' /\ TypeRest'
  BY <1>0, <1>8 DEF Command, Call, TypeTurn, TypeRest
<1>9. CASE Resume
  <2>1. turn' \in Turns /\ user' \in Users
    BY <1>0, <1>1, <1>9, ResumeType DEF Resume
  <2> QED
    BY <1>0, <1>8, <1>9, <2>1 DEF Resume, TypeTurn
<1>10. CASE Abandon
  <2>1. turn' \in Turns /\ user' \in Users /\ results' \in Seq(Results)
    BY <1>0, <1>1, <1>10, StoreType, TurnType, UserType DEF Abandon, TypeTurn
  <2> QED
    BY <1>8, <1>10, <2>1 DEF Abandon
<1>11. CASE CancelSaved
  BY <1>0, <1>1, <1>8, <1>11, StoreType DEF CancelSaved
<1>12. ASSUME NEW status \in Terminal, Finalize(status)
       PROVE  TypeTurn' /\ TypeRest'
  <2>1. turn' \in Turns /\ user' \in Users
    BY <1>0, <1>1, <1>12, TurnType, UserType DEF Finalize
  <2>2. results' \in Seq(Results)
    <3>1. [status |-> status, by |-> "window"] \in Results
      BY DEF Results
    <3> QED
      BY <1>0, <1>12, <3>1 DEF Finalize, TypeTurn
  <2> QED
    BY <1>8, <1>12, <2>1, <2>2 DEF Finalize
<1>13. CASE Restart
  <2>1. turn' \in Turns /\ user' \in Users
    BY <1>0, <1>1, <1>13, TurnType, UserType DEF Restart, TypeTurn
  <2>2. run' \in [Runs -> RunStates]
    <3>1. NoRun \in RunStates
      BY DEF NoRun, RunStates, Steps, AnyRoute, Errors
    <3> QED
      BY <1>13, <3>1 DEF Restart
  <2> QED
    BY <1>0, <1>13, <2>1, <2>2 DEF Restart, TypeTurn, TypeRest
<1>14. CASE UNCHANGED vars
  BY <1>0, <1>14 DEF vars, stored, bounds, TypeTurn, TypeRest
<1> QED
  BY <1>2, <1>3, <1>4, <1>5, <1>6, <1>7, <1>9, <1>10, <1>11, <1>12, <1>13, <1>14 DEF WindowStep

\* The rows of a turn only hold what their columns allow, whatever the runs,
\* the window and restarts do.
THEOREM TurnTypes == Spec => []TypeOK
<1>1. Init => TypeOK
  BY TurnAssumption DEF Init, TypeOK, NoTurn, NoUser, NoRun, Terminal
<1>2. TypeOK /\ [Next]_vars => TypeOK'
  BY PreclaimStepType, AnswerStepType, WindowStepType DEF Next, RunStep
<1> QED
  BY <1>1, <1>2, PTL DEF Spec

-----------------------------------------------------------------------------
(* The rows                                                                *)

\* The result of a turn has a terminal status, so a running turn has none.
LEMMA ResultIsTerminal ==
    ASSUME TypeTurn, RowsAgree
    PROVE  /\ results /= <<>> => results[1].status \in Terminal /\ turn.there
           /\ turn.status = "running" => results = <<>>
<1>1. ASSUME results /= <<>>
      PROVE  results[1].status \in Terminal /\ turn.status = results[1].status
  <2>1. results[1] \in Results
    BY <1>1 DEF TypeTurn
  <2> QED
    BY <1>1, <2>1 DEF Results, RowsAgree, OneResult
<1>2. "running" \notin Terminal
  BY DEF Terminal
<1> QED
  BY <1>1, <1>2 DEF RowsAgree

\* A stored result is the first one, and ends the turn.
LEMMA StoreRows ==
    ASSUME TypeTurn, RowsAgree, turn.there, results = <<>>,
           NEW s \in Terminal, NEW b \in Runs \union {"window"}, Store(s, b)
    PROVE  RowsAgree'
<1>1. turn'.status = s /\ turn'.there
  BY DEF Store, TypeTurn, Turns
<1>2. Len(results') = 1 /\ results'[1].status = s /\ results' /= <<>>
  BY DEF Store
<1>3. user'.state /= "interrupted"
  BY DEF Store, Marked, TypeTurn, Users, Terminal, RowsAgree
<1> QED
  BY <1>1, <1>2, <1>3 DEF RowsAgree, OneResult

\* An interruption leaves a failed turn without a claim.
LEMMA InterruptRows ==
    ASSUME TypeTurn, RowsAgree, NEW route, Interrupt(route), UNCHANGED results, crashes \in Nat,
           crashes' \in Nat, crashes' >= crashes
    PROVE  RowsAgree'
<1>1. CASE Interruptible(route)
  <2>1. turn'.status = "failed" /\ turn'.there /\ ~turn'.claimed
    BY <1>1 DEF Interrupt, InterruptedTurn, Interruptible, TypeTurn, Turns
  <2>2. user'.there /\ results = <<>>
    BY <1>1 DEF Interrupt, Interruptible, Marked, TypeTurn, Users
  <2> QED
    BY <2>1, <2>2 DEF RowsAgree, OneResult
<1>2. CASE ~Interruptible(route)
  BY <1>2 DEF Interrupt, RowsAgree, OneResult
<1> QED
  BY <1>1, <1>2

\* A turn that is taken up again has no result and no interrupted message.
LEMMA ResumeRows ==
    ASSUME TypeTurn, RowsAgree, NEW r1, NEW r2, Resumable(r1), ResumeTurn(r2), UNCHANGED results
    PROVE  RowsAgree'
<1>1. turn'.status = "running" /\ turn'.there /\ results = <<>>
  BY DEF Resumable, AlreadyInterrupted, ResumeTurn, TypeTurn, Turns
<1>2. user'.state = "accepted"
  BY DEF Resumable, AlreadyInterrupted, ResumeTurn, Marked, TypeTurn, Users
<1> QED
  BY <1>1, <1>2 DEF RowsAgree, OneResult

\* An insert of the turn starts it without a result.
LEMMA BegunRows ==
    ASSUME TypeTurn, RowsAgree, NEW route, turn' = Begun(route), UNCHANGED <<user, results, crashes>>
    PROVE  RowsAgree'
<1>1. CASE turn.there
  BY <1>1 DEF Begun, RowsAgree, OneResult
<1>2. CASE ~turn.there
  <2>1. turn'.status = "running" /\ turn'.there /\ turn.status = "running"
    BY <1>2 DEF Begun, RowsAgree
  <2>2. results = <<>>
    BY <2>1, ResultIsTerminal
  <2> QED
    BY <1>2, <2>1, <2>2 DEF RowsAgree, OneResult
<1> QED
  BY <1>1, <1>2

\* A step that leaves the turn and its result alone, and does not interrupt the
\* message, preserves RowsAgree.
LEMMA UserRows ==
    ASSUME TypeOK, RowsAgree, UNCHANGED <<turn, results>>, crashes' \in Nat, crashes' >= crashes,
           \/ user'.state /= "interrupted"
           \/ user'.state = user.state /\ user'.there = user.there
    PROVE  RowsAgree'
BY DEF RowsAgree, OneResult, TypeOK

\* The messages that are inserted or patched, as UserRows wants them.
LEMMA EnsuredRows ==
    ASSUME TypeTurn, NEW route, NEW s \in {"accepted", "none"}, user' = Ensured(route, s)
    PROVE  \/ user'.state /= "interrupted"
           \/ user'.state = user.state /\ user'.there = user.there
BY DEF TypeTurn, Users, Ensured

\* The steps of run_chat_turn preserve RowsAgree.
LEMMA RunStepRows ==
    ASSUME TypeOK, RowsAgree, RunsAgree, NEW p \in Runs, RunStep(p)
    PROVE  RowsAgree'
<1>0. TypeTurn /\ TypeRest /\ crashes \in Nat
  BY TypeParts DEF TypeRest
<1>1. CASE PreparationMarks(p)
  <2>1. \/ user'.state /= "interrupted"
        \/ user'.state = user.state /\ user'.there = user.there
    BY <1>0, <1>1 DEF PreparationMarks, Marked, TypeTurn, Users
  <2> QED
    BY <1>0, <1>1, <2>1, UserRows DEF PreparationMarks, bounds
<1>2. CASE CheckPolicy(p) \/ PreclaimFails(p) \/ HandOver(p) \/ Answer(p) \/ MarkQueued(p)
  <2>1. UNCHANGED <<turn, user, results, crashes>>
    BY <1>2 DEF CheckPolicy, PreclaimFails, HandOver, Answer, MarkQueued, stored, bounds
  <2> QED
    BY <1>0, <2>1, UserRows
<1>3. CASE \E error \in {"error", "consent", "stopped"} : AnswerFails(p, error)
  <2>1. UNCHANGED <<turn, user, results, crashes>>
    BY <1>3 DEF AnswerFails, stored, bounds
  <2> QED
    BY <1>0, <2>1, UserRows
<1>4. CASE AcceptBegin(p)
  BY <1>0, <1>4, BegunRows DEF AcceptBegin, bounds
<1>5. CASE AcceptMessage(p)
  BY <1>0, <1>5, UserRows, EnsuredRows DEF AcceptMessage, bounds
<1>6. CASE AcceptResumes(p)
  <2>1. CASE Resumable("dynamic")
    BY <1>0, <1>6, <2>1, ResumeRows DEF AcceptResumes
  <2>2. CASE ~Resumable("dynamic")
    BY <1>0, <1>6, <2>2, UserRows DEF AcceptResumes, bounds
  <2> QED
    BY <2>1, <2>2
<1>7. CASE Freeze(p)
  <2>1. user'.state = user.state /\ user'.there = user.there
    BY <1>0, <1>7 DEF Freeze, TypeTurn, Users
  <2> QED
    BY <1>0, <1>7, <2>1, UserRows DEF Freeze, bounds
<1>8. CASE DropGuard(p)
  BY <1>0, <1>8, InterruptRows DEF DropGuard, bounds
<1>9. ASSUME NEW route \in Routes, Begin(p, route)
      PROVE  RowsAgree'
  BY <1>0, <1>9, BegunRows DEF Begin, bounds
<1>10. CASE Claim(p)
  <2>1. CASE Claimable(run[p].route)
    <3>1. /\ turn.status = "running" /\ turn.there
          /\ turn'.status = "running" /\ turn'.there
      BY <1>0, <1>10, <2>1 DEF Claim, Claimable, TypeTurn, Turns
    <3>2. user'.state = user.state
      BY <1>0, <1>10, <2>1 DEF Claim, TypeTurn, Users
    <3>3. results' = results /\ results = <<>>
      BY <1>0, <1>10, <3>1, ResultIsTerminal DEF Claim
    <3> QED
      BY <3>1, <3>2, <3>3 DEF RowsAgree, OneResult
  <2>2. CASE ~Claimable(run[p].route)
    BY <1>0, <1>10, <2>2, UserRows DEF Claim, bounds
  <2> QED
    BY <2>1, <2>2
<1>11. CASE SaveMessage(p)
  BY <1>0, <1>11, UserRows, EnsuredRows DEF SaveMessage, bounds
<1>12. ASSUME NEW s \in Terminal, FinishWith(p, s), UNCHANGED crashes
       PROVE  RowsAgree'
  <2>1. CASE Completable(p)
    BY <1>0, <1>12, <2>1, StoreRows DEF FinishWith, Completable, Eligible
  <2>2. CASE ~Completable(p)
    BY <1>0, <1>12, <2>2, UserRows DEF FinishWith
  <2> QED
    BY <2>1, <2>2
<1>13. CASE Complete(p)
  BY <1>12, <1>13 DEF Complete, FinishWith, bounds, Terminal
<1>14. CASE FinishError(p)
  <2>0. UNCHANGED crashes /\ "failed" \in Terminal /\ "cancelled" \in Terminal
    BY <1>14 DEF FinishError, bounds, Terminal
  <2>1. CASE turn' = [turn EXCEPT !.claimed = FALSE] /\ UNCHANGED <<user, results>>
    <3>1. turn'.status = turn.status /\ turn'.there = turn.there /\ ~turn'.claimed
      BY <1>0, <2>1 DEF TypeTurn, Turns
    <3> QED
      BY <2>0, <2>1, <3>1 DEF RowsAgree, OneResult
  <2>2. CASE Interrupt(run[p].route) /\ UNCHANGED results
    BY <1>0, <2>0, <2>2, InterruptRows
  <2>3. CASE UNCHANGED <<turn, user, results>>
    BY <1>0, <2>0, <2>3, UserRows
  <2>4. CASE FinishWith(p, "failed") \/ FinishWith(p, "cancelled")
    BY <1>12, <2>0, <2>4
  <2> QED
    BY <1>14, <2>1, <2>2, <2>3, <2>4 DEF FinishError, FinishConsent, FinishStop
<1> QED
  BY <1>1, <1>2, <1>3, <1>4, <1>5, <1>6, <1>7, <1>8, <1>9, <1>10, <1>11, <1>13, <1>14 DEF RunStep

\* The calls of the window, the queue and a restart preserve RowsAgree.
LEMMA WindowStepRows ==
    ASSUME TypeOK, RowsAgree, WindowStep \/ Restart \/ UNCHANGED vars
    PROVE  RowsAgree'
<1>0. TypeTurn /\ TypeRest /\ crashes \in Nat
  BY TypeParts DEF TypeRest
<1>1. ASSUME NEW p \in Runs, Start(p) \/ ClaimQueued(p)
      PROVE  UNCHANGED <<turn, user, results, crashes>>
  BY <1>1 DEF Start, ClaimQueued, stored
<1>2. ASSUME CancelQueued \/ RetryQueued \/ UNCHANGED vars
      PROVE  UNCHANGED <<turn, user, results, crashes>>
  BY <1>2 DEF CancelQueued, RetryQueued, vars, stored, bounds
<1>3. ASSUME UNCHANGED <<turn, user, results, crashes>>
      PROVE  RowsAgree'
  BY <1>0, <1>3, UserRows
<1>4. ASSUME NEW p \in Runs, PreparationFails(p)
      PROVE  RowsAgree'
  <2>1. turn.status = "running" /\ turn'.status = "failed" /\ turn'.there
    BY <1>0, <1>4 DEF PreparationFails, TypeTurn, Turns
  <2>2. UNCHANGED <<user, results>> /\ results = <<>>
    BY <1>0, <1>4, <2>1, ResultIsTerminal DEF PreparationFails
  <2> QED
    BY <2>1, <2>2 DEF RowsAgree, OneResult
<1>5. CASE WindowAccepts
  BY <1>0, <1>5, BegunRows DEF WindowAccepts, Command
<1>6. CASE WindowAcceptsMessage
  BY <1>0, <1>6, UserRows, EnsuredRows DEF WindowAcceptsMessage, bounds
<1>7. CASE Resume
  BY <1>0, <1>7, ResumeRows DEF Resume
<1>8. CASE Abandon
  <2>1. CASE results = <<>>
    BY <1>0, <1>8, <2>1, StoreRows DEF Abandon, Terminal
  <2>2. CASE results /= <<>>
    <3>1. turn'.status = "failed" /\ turn'.there /\ UNCHANGED results
      BY <1>0, <1>8, <2>2 DEF Abandon, TypeTurn, Turns
    <3>2. turn.status = "failed"
      BY <1>0, <1>8, <2>2, ResultIsTerminal DEF Abandon
    <3>3. user.state /= "interrupted" /\ user'.state /= "interrupted"
      BY <1>0, <1>8, <2>2 DEF Abandon, Marked, TypeTurn, Users, RowsAgree
    <3> QED
      BY <2>2, <3>1, <3>2, <3>3 DEF RowsAgree, OneResult
  <2> QED
    BY <2>1, <2>2
<1>9. CASE CancelSaved
  BY <1>0, <1>9, StoreRows DEF CancelSaved, Terminal
<1>10. ASSUME NEW status \in Terminal, Finalize(status)
       PROVE  RowsAgree'
  <2>1. turn'.status = status /\ turn'.there
    BY <1>0, <1>10 DEF Finalize, TypeTurn, Turns
  <2>2. user'.state /= "interrupted"
    BY <1>0, <1>10 DEF Finalize, Marked, TypeTurn, Users, Terminal, RowsAgree
  <2>3. Len(results') <= 1 /\ results' /= <<>> /\ results'[1].status = status
    <3>1. CASE results = <<>>
      BY <1>10, <3>1 DEF Finalize
    <3>2. CASE results /= <<>>
      <4>1. results' = results /\ turn.status \in {"running", status}
        BY <1>10, <3>2 DEF Finalize
      <4> QED
        BY <1>0, <3>2, <4>1, ResultIsTerminal DEF RowsAgree, OneResult
    <3> QED
      BY <3>1, <3>2
  <2> QED
    BY <2>1, <2>2, <2>3 DEF RowsAgree, OneResult
<1>11. CASE Restart
  <2>0. UNCHANGED results /\ crashes' = crashes + 1
    BY <1>11 DEF Restart
  <2>1. CASE turn.there /\ turn.status = "running"
    <3>1. turn'.status = "failed" /\ turn'.there /\ results = <<>>
      BY <1>0, <1>11, <2>1, ResultIsTerminal DEF Restart, TypeTurn, Turns
    <3>2. user'.state = "interrupted" => user'.there
      BY <1>0, <1>11, <2>1 DEF Restart, Marked, TypeTurn, Users, RowsAgree
    <3> QED
      BY <1>0, <2>0, <3>1, <3>2 DEF RowsAgree, OneResult
  <2>2. CASE ~(turn.there /\ turn.status = "running")
    BY <1>0, <1>11, <2>0, <2>2, UserRows DEF Restart
  <2> QED
    BY <2>1, <2>2
<1> QED
  BY <1>1, <1>2, <1>3, <1>4, <1>5, <1>6, <1>7, <1>8, <1>9, <1>10, <1>11 DEF WindowStep

-----------------------------------------------------------------------------
(* The runs                                                                *)

\* A step that lets nobody in preserves RunsAgree when those who answer keep
\* their claim, and a claim of a running turn keeps its holder.
LEMMA RunsFrame ==
    ASSUME RunsAgree,
           \A q \in Runs : run'[q].pc = "claim" => run'[q].route \in Routes,
           \A q \in Runs : Responding(q)' => Responding(q) /\ run'[q].route = run[q].route,
           (\E q \in Runs : Responding(q)') =>
               /\ turn'.there = turn.there /\ turn'.claimed = turn.claimed
               /\ turn'.route = turn.route /\ turn'.status /= "completed",
           turn'.status = "running" /\ turn'.claimed => \E q \in Runs : Responding(q)'
    PROVE  RunsAgree'
BY DEF RunsAgree

\* The same for a step of one run that does not answer, with the turn unchanged.
LEMMA BystanderRuns ==
    ASSUME RunsAgree, NEW p \in Runs, ~Responding(p), ~Responding(p)', UNCHANGED turn,
           run'[p].pc = "claim" => run'[p].route \in Routes,
           \A q \in Runs \ {p} : run'[q] = run[q]
    PROVE  RunsAgree'
<1>1. \A q \in Runs : Responding(q)' <=> Responding(q)
  BY DEF Responding
<1>2. \A q \in Runs : Responding(q)' => run'[q].route = run[q].route
  BY DEF Responding
<1>3. \A q \in Runs : run'[q].pc = "claim" => run'[q].route \in Routes
  BY DEF RunsAgree
<1> QED
  BY <1>1, <1>2, <1>3 DEF RunsAgree

\* A step of one run that does not answer, when nobody does and the turn is not
\* left running and claimed.
LEMMA NobodyRuns ==
    ASSUME RunsAgree, NEW p \in Runs, \A q \in Runs : Responding(q) => q = p, ~Responding(p)',
           ~(turn'.status = "running" /\ turn'.claimed),
           run'[p].pc = "claim" => run'[p].route \in Routes,
           \A q \in Runs \ {p} : run'[q] = run[q]
    PROVE  RunsAgree'
<1>1. \A q \in Runs : ~Responding(q)'
  BY DEF Responding
<1>2. \A q \in Runs : run'[q].pc = "claim" => run'[q].route \in Routes
  BY DEF RunsAgree
<1> QED
  BY <1>1, <1>2, RunsFrame

\* An insert is only done when nobody answers.
LEMMA BegunRuns ==
    ASSUME TypeTurn, RowsAgree, RunsAgree, NEW p \in Runs, NEW route, turn' = Begun(route),
           ~Responding(p), ~Responding(p)', run'[p].pc = "claim" => run'[p].route \in Routes,
           \A q \in Runs \ {p} : run'[q] = run[q]
    PROVE  RunsAgree'
<1>1. CASE turn.there
  BY <1>1, BystanderRuns DEF Begun
<1>2. CASE ~turn.there
  <2>1. \A q \in Runs : ~Responding(q)
    BY <1>2 DEF RunsAgree
  <2>2. ~turn'.claimed
    BY <1>2 DEF Begun
  <2> QED
    BY <2>1, <2>2, NobodyRuns
<1> QED
  BY <1>1, <1>2

\* The steps of run_chat_turn up to the claim preserve RunsAgree.
LEMMA PreclaimStepRuns ==
    ASSUME TypeOK, RowsAgree, RunsAgree, NEW p \in Runs,
           \/ PreparationMarks(p) \/ CheckPolicy(p) \/ AcceptBegin(p) \/ AcceptMessage(p)
           \/ AcceptResumes(p) \/ Freeze(p) \/ PreclaimFails(p) \/ HandOver(p) \/ DropGuard(p)
           \/ \E route \in Routes : Begin(p, route)
    PROVE  RunsAgree'
<1>0. TypeTurn /\ TypeRest
  BY TypeParts
<1>1. {"accept", "begin", "message", "resume", "freeze", "drop"} \subseteq Steps
  BY DEF Steps
<1>2. ~Responding(p)
  BY DEF Responding, PreparationMarks, CheckPolicy, AcceptBegin, AcceptMessage, AcceptResumes,
         Freeze, PreclaimFails, HandOver, DropGuard, Begin
<1>3. CASE PreparationMarks(p) \/ CheckPolicy(p) \/ Freeze(p) \/ PreclaimFails(p) \/ HandOver(p)
  <2>1. /\ UNCHANGED turn
        /\ \/ \E ok \in BOOLEAN : Return(p, ok)
           \/ \E s \in {"accept", "begin"} : GoTo(p, s)
           \/ Preclaim(p)
    BY <1>3 DEF PreparationMarks, CheckPolicy, Freeze, PreclaimFails, HandOver, stored
  <2>2. /\ run'[p].pc \notin {"claim", "save", "answering", "complete", "failing"}
        /\ \A q \in Runs \ {p} : run'[q] = run[q]
    BY <1>0, <1>1, <2>1, ReturnType, GoToType, PreclaimType
  <2> QED
    BY <1>2, <2>1, <2>2, BystanderRuns DEF Responding
<1>4. CASE AcceptBegin(p)
  <2>1. /\ run'[p].pc \notin {"claim", "save", "answering", "complete", "failing"}
        /\ \A q \in Runs \ {p} : run'[q] = run[q]
    BY <1>0, <1>1, <1>4, GoToType DEF AcceptBegin
  <2> QED
    BY <1>0, <1>2, <1>4, <2>1, BegunRuns DEF AcceptBegin, Responding
<1>5. ASSUME run' = [run EXCEPT ![p].pc = "freeze", ![p].guard = TRUE]
      PROVE  /\ run'[p].pc = "freeze"
             /\ \A q \in Runs \ {p} : run'[q] = run[q]
  BY <1>0, <1>5 DEF TypeRest, RunStates
<1>6. CASE AcceptMessage(p)
  BY <1>2, <1>5, <1>6, BystanderRuns DEF AcceptMessage, Responding
<1>7. CASE AcceptResumes(p)
  <2>1. /\ run'[p].pc \notin {"claim", "save", "answering", "complete", "failing"}
        /\ \A q \in Runs \ {p} : run'[q] = run[q]
    BY <1>0, <1>5, <1>7, ReturnType DEF AcceptResumes
  <2>2. CASE Resumable("dynamic")
    <3>1. ~turn.claimed /\ ~turn'.claimed
      BY <1>0, <1>7, <2>2 DEF AcceptResumes, ResumeTurn, Resumable, AlreadyInterrupted, TypeTurn, Turns
    <3>2. \A q \in Runs : ~Responding(q)
      BY <3>1 DEF RunsAgree
    <3> QED
      BY <2>1, <3>1, <3>2, NobodyRuns DEF Responding
  <2>3. CASE ~Resumable("dynamic")
    BY <1>2, <1>7, <2>1, <2>3, BystanderRuns DEF AcceptResumes, Responding
  <2> QED
    BY <2>2, <2>3
<1>8. CASE DropGuard(p)
  <2>1. /\ run'[p].pc \notin {"claim", "save", "answering", "complete", "failing"}
        /\ \A q \in Runs \ {p} : run'[q] = run[q]
    BY <1>0, <1>8, ReturnType DEF DropGuard
  <2>2. CASE Interruptible("dynamic")
    <3>1. \A q \in Runs : ~Responding(q)
      BY <2>2, TurnAssumption DEF RunsAgree, Interruptible
    <3>2. turn'.status = "failed"
      BY <1>0, <1>8, <2>2 DEF DropGuard, Interrupt, InterruptedTurn, TypeTurn, Turns
    <3> QED
      BY <2>1, <3>1, <3>2, NobodyRuns DEF Responding
  <2>3. CASE ~Interruptible("dynamic")
    BY <1>2, <1>8, <2>1, <2>3, BystanderRuns DEF DropGuard, Interrupt, Responding
  <2> QED
    BY <2>2, <2>3
<1>9. ASSUME NEW route \in Routes, Begin(p, route)
      PROVE  RunsAgree'
  <2> DEFINE begun == [run[p] EXCEPT !.pc = "claim", !.route = route]
  <2>1. run \in [Runs -> RunStates] /\ run[p] \in RunStates
    BY <1>0 DEF TypeRest
  <2>2. begun.pc = "claim" /\ begun.route = route
    BY <2>1 DEF RunStates
  <2>3. run' = [run EXCEPT ![p] = begun]
    BY <1>9 DEF Begin
  <2> HIDE DEF begun
  <2>4. /\ run'[p].pc = "claim" /\ run'[p].route = route
        /\ \A q \in Runs \ {p} : run'[q] = run[q]
    BY <2>1, <2>2, <2>3
  <2> QED
    BY <1>0, <1>2, <1>9, <2>4, BegunRuns DEF Begin, Responding
<1> QED
  BY <1>3, <1>4, <1>6, <1>7, <1>8, <1>9

\* The claim lets one run in when nobody answers, and the steps after it let
\* nobody in.
LEMMA AnswerStepRuns ==
    ASSUME TypeOK, RowsAgree, RunsAgree, NEW p \in Runs,
           \/ Claim(p) \/ SaveMessage(p) \/ Answer(p)
           \/ \E error \in {"error", "consent", "stopped"} : AnswerFails(p, error)
           \/ Complete(p) \/ FinishError(p) \/ MarkQueued(p)
    PROVE  RunsAgree'
<1>0. TypeTurn /\ TypeRest
  BY TypeParts
<1>1. {"idle", "answering"} \subseteq Steps
  BY DEF Steps
<1>2. CASE Claim(p)
  <2>1. CASE Claimable(run[p].route)
    <3>1. /\ ~turn.claimed /\ turn'.there /\ turn'.claimed /\ turn'.status = "running"
          /\ turn'.route = run[p].route
      BY <1>0, <1>2, <2>1 DEF Claim, Claimable, TypeTurn, Turns
    <3>2. \A q \in Runs : ~Responding(q)
      BY <3>1 DEF RunsAgree
    <3>3. /\ run'[p].pc = "save" /\ run'[p].route = run[p].route /\ run[p].route \in Routes
          /\ \A q \in Runs \ {p} : run'[q] = run[q]
      BY <1>0, <1>2, <2>1 DEF Claim, TypeRest, RunStates, RunsAgree
    <3>4. \A q \in Runs : Responding(q)' <=> q = p
      BY <3>2, <3>3 DEF Responding
    <3>5. \A q \in Runs : run'[q].pc = "claim" => run'[q].route \in Routes
      BY <3>3 DEF RunsAgree
    <3> QED
      BY <3>1, <3>3, <3>4, <3>5 DEF RunsAgree
  <2>2. CASE ~Claimable(run[p].route)
    <3>1. /\ run'[p].pc \in {"idle", "mark_failed", "drop"} /\ run[p].pc = "claim"
          /\ UNCHANGED turn
          /\ \A q \in Runs \ {p} : run'[q] = run[q]
      BY <1>0, <1>2, <2>2, PreclaimType DEF Claim
    <3> QED
      BY <3>1, BystanderRuns DEF Responding
  <2> QED
    BY <2>1, <2>2
<1>3. ASSUME UNCHANGED turn, Responding(p), Responding(p)', run'[p].route = run[p].route,
             \A q \in Runs \ {p} : run'[q] = run[q]
      PROVE  RunsAgree'
  <2>1. \A q \in Runs : /\ Responding(q)' <=> Responding(q)
                        /\ run'[q].route = run[q].route
                        /\ run'[q].pc = "claim" => run'[q].route \in Routes
    BY <1>3 DEF Responding, RunsAgree
  <2> QED
    BY <1>3, <2>1 DEF RunsAgree
<1>4. ASSUME NEW e, run' = [run EXCEPT ![p].pc = "failing", ![p].error = e]
      PROVE  /\ run'[p].pc = "failing" /\ run'[p].route = run[p].route
             /\ \A q \in Runs \ {p} : run'[q] = run[q]
  BY <1>0, <1>4 DEF TypeRest, RunStates
<1>5. CASE SaveMessage(p)
  <2>1. /\ run'[p].pc = "answering" /\ run'[p].route = run[p].route /\ run[p].pc = "save"
        /\ \A q \in Runs \ {p} : run'[q] = run[q]
    BY <1>0, <1>1, <1>5, GoToType DEF SaveMessage
  <2> QED
    BY <1>3, <1>5, <2>1 DEF SaveMessage, Responding
<1>6. CASE Answer(p) \/ \E error \in {"error", "consent", "stopped"} : AnswerFails(p, error)
  <2>1. /\ UNCHANGED turn /\ run[p].pc = "answering"
        /\ \/ run' = [run EXCEPT ![p].pc = "complete"]
           \/ \E e \in Errors : run' = [run EXCEPT ![p].pc = "failing", ![p].error = e]
    BY <1>6 DEF Answer, AnswerFails, stored, Errors
  <2>2. /\ run'[p].pc \in {"complete", "failing"} /\ run'[p].route = run[p].route
        /\ \A q \in Runs \ {p} : run'[q] = run[q]
    <3>1. CASE run' = [run EXCEPT ![p].pc = "complete"]
      BY <1>0, <3>1 DEF TypeRest, RunStates
    <3> QED
      BY <1>4, <2>1, <3>1
  <2> QED
    BY <1>3, <2>1, <2>2 DEF Responding
<1>7. ASSUME Responding(p)
      PROVE  /\ turn.there /\ turn.claimed /\ turn.status /= "completed"
             /\ turn.route = run[p].route
             /\ \A q \in Runs : Responding(q) => q = p
  BY <1>7 DEF RunsAgree
<1>8. CASE Complete(p)
  <2>0. Responding(p) /\ ~AlreadyCompleted(p)
    <3>1. Responding(p)
      BY <1>8 DEF Complete, Responding
    <3> QED
      BY <1>7, <3>1 DEF AlreadyCompleted
  <2>1. CASE Completable(p)
    <3>1. turn'.status = "completed"
      BY <1>0, <1>8, <2>1 DEF Complete, Store, TypeTurn, Turns
    <3>2. /\ run'[p].pc \in {"idle", "mark_completed", "mark_failed"}
          /\ \A q \in Runs \ {p} : run'[q] = run[q]
      BY <1>0, <1>8, <2>1, ReturnType DEF Complete
    <3> QED
      BY <1>7, <2>0, <3>1, <3>2, NobodyRuns DEF Responding
  <2>2. CASE ~Completable(p)
    <3>1. UNCHANGED turn /\ run' = [run EXCEPT ![p].pc = "failing", ![p].error = "error"]
      BY <1>8, <2>0, <2>2 DEF Complete
    <3> QED
      BY <1>3, <1>4, <2>0, <3>1 DEF Responding
  <2> QED
    BY <2>1, <2>2
<1>9. CASE FinishError(p)
  <2>0. Responding(p)
    BY <1>9 DEF FinishError, Responding
  <2>1. /\ run'[p].pc \in {"idle", "mark_completed", "mark_failed"}
        /\ \A q \in Runs \ {p} : run'[q] = run[q]
    BY <1>0, <1>9, ReturnType DEF FinishError
  <2>2. turn.status = "running" => Completable(p)
    BY <1>0, <1>7, <2>0, ResultIsTerminal DEF Completable, Eligible
  <2>3. ASSUME NEW s \in Terminal, FinishWith(p, s)
        PROVE  turn'.status /= "running"
    <3>1. CASE Completable(p)
      <4>1. turn'.status = s
        BY <1>0, <2>3, <3>1 DEF FinishWith, Store, TypeTurn, Turns
      <4> QED
        BY <4>1 DEF Terminal
    <3>2. CASE ~Completable(p)
      BY <2>2, <2>3, <3>2 DEF FinishWith
    <3> QED
      BY <3>1, <3>2
  <2>4. ~(turn'.status = "running" /\ turn'.claimed)
    <3>1. CASE turn' = [turn EXCEPT !.claimed = FALSE]
      BY <1>0, <3>1 DEF TypeTurn, Turns
    <3>2. CASE Interruptible(run[p].route) /\ Interrupt(run[p].route)
      BY <1>0, <3>2 DEF Interrupt, InterruptedTurn, TypeTurn, Turns
    <3>3. CASE AlreadyInterrupted(run[p].route) /\ UNCHANGED turn
      BY <3>3 DEF AlreadyInterrupted
    <3>4. CASE FinishWith(p, "failed") \/ FinishWith(p, "cancelled")
      BY <2>3, <3>4 DEF Terminal
    <3> QED
      BY <1>9, <3>1, <3>2, <3>3, <3>4 DEF FinishError, FinishConsent, FinishStop
  <2> QED
    BY <1>7, <2>0, <2>1, <2>4, NobodyRuns DEF Responding
<1>10. CASE MarkQueued(p)
  <2>1. /\ run'[p].pc = "idle" /\ run[p].pc \in {"mark_completed", "mark_failed"}
        /\ \A q \in Runs \ {p} : run'[q] = run[q]
    BY <1>0, <1>1, <1>10, GoToType DEF MarkQueued
  <2> QED
    BY <1>10, <2>1, BystanderRuns DEF MarkQueued, Responding
<1> QED
  BY <1>2, <1>5, <1>6, <1>8, <1>9, <1>10

\* The calls of the window, the queue and a restart preserve RunsAgree: none of
\* them takes a claim away from a run that answers.
LEMMA WindowStepRuns ==
    ASSUME TypeOK, RowsAgree, RunsAgree, WindowStep \/ Restart \/ UNCHANGED vars
    PROVE  RunsAgree'
<1>0. TypeTurn /\ TypeRest
  BY TypeParts
<1>1. {"finish", "policy", "begin"} \subseteq Steps
  BY DEF Steps
<1>2. ASSUME NEW p \in Runs, Start(p) \/ ClaimQueued(p) \/ PreparationFails(p)
      PROVE  /\ ~Responding(p) /\ ~Responding(p)' /\ run'[p].pc /= "claim"
             /\ \A q \in Runs \ {p} : run'[q] = run[q]
  <2>1. run[p].pc = "idle" /\ \E s \in {"finish", "policy", "begin"} : GoTo(p, s)
    BY <1>2 DEF Start, ClaimQueued, PreparationFails
  <2> QED
    BY <1>0, <1>1, <2>1, GoToType DEF Responding
<1>3. ASSUME NEW p \in Runs, Start(p) \/ ClaimQueued(p)
      PROVE  RunsAgree'
  BY <1>2, <1>3, BystanderRuns DEF Start, ClaimQueued, stored
<1>4. ASSUME NEW p \in Runs, PreparationFails(p)
      PROVE  RunsAgree'
  <2>1. /\ turn'.status = "failed" /\ turn'.there = turn.there /\ turn'.claimed = turn.claimed
        /\ turn'.route = turn.route
    BY <1>0, <1>4 DEF PreparationFails, TypeTurn, Turns
  <2>2. \A q \in Runs : /\ Responding(q)' => Responding(q) /\ run'[q].route = run[q].route
                        /\ run'[q].pc = "claim" => run'[q].route \in Routes
    BY <1>2, <1>4 DEF Responding, RunsAgree
  <2> QED
    BY <2>1, <2>2, RunsFrame
<1>5. ASSUME UNCHANGED run,
             \/ UNCHANGED turn
             \/ ~turn.claimed /\ ~turn'.claimed
             \/ /\ turn'.status \notin {"running", "completed"} /\ turn'.there = turn.there
                /\ turn'.claimed = turn.claimed /\ turn'.route = turn.route
             \/ (\A q \in Runs : ~Responding(q)) /\ turn'.status /= "running"
      PROVE  RunsAgree'
  <2>1. \A q \in Runs : Responding(q)' <=> Responding(q)
    BY <1>5 DEF Responding
  <2> QED
    BY <1>5, <2>1 DEF RunsAgree
<1>6. CASE CancelQueued \/ RetryQueued \/ WindowAcceptsMessage \/ UNCHANGED vars
  BY <1>5, <1>6 DEF CancelQueued, RetryQueued, WindowAcceptsMessage, vars, stored
<1>7. CASE WindowAccepts
  <2>1. UNCHANGED turn \/ (~turn.claimed /\ ~turn'.claimed)
    BY <1>7 DEF WindowAccepts, Begun, RowsAgree
  <2> QED
    BY <1>5, <1>7, <2>1 DEF WindowAccepts, Command
<1>8. CASE Resume
  <2>1. ~turn.claimed /\ ~turn'.claimed
    BY <1>0, <1>8 DEF Resume, ResumeTurn, Resumable, AlreadyInterrupted, TypeTurn, Turns
  <2> QED
    BY <1>5, <1>8, <2>1 DEF Resume, Command
<1>9. CASE Abandon \/ CancelSaved
  <2>1. /\ turn'.status \in {"failed", "cancelled"} /\ turn'.there = turn.there
        /\ turn'.claimed = turn.claimed /\ turn'.route = turn.route
    BY <1>0, <1>9 DEF Abandon, CancelSaved, Store, TypeTurn, Turns
  <2> QED
    BY <1>5, <1>9, <2>1 DEF Abandon, CancelSaved, Command
<1>10. ASSUME NEW status \in Terminal, Finalize(status)
       PROVE  RunsAgree'
  <2>1. /\ turn'.status = status /\ turn'.there = turn.there
        /\ turn'.claimed = turn.claimed /\ turn'.route = turn.route
    BY <1>0, <1>10 DEF Finalize, TypeTurn, Turns
  <2>2. status /= "running"
    BY DEF Terminal
  <2>3. CASE \A q \in Runs : ~Responding(q)
    BY <1>5, <1>10, <2>1, <2>2, <2>3 DEF Finalize, Command
  <2>4. CASE \E q \in Runs : Responding(q)
    <3>1. turn.claimed /\ turn.status /= "completed"
      BY <2>4 DEF RunsAgree
    <3>2. status /= "completed"
      BY <1>10, <3>1 DEF Finalize
    <3> QED
      BY <1>5, <1>10, <2>1, <2>2, <3>2 DEF Finalize, Command
  <2> QED
    BY <2>3, <2>4
<1>11. CASE Restart
  <2>1. \A q \in Runs : run'[q].pc = "idle"
    BY <1>11 DEF Restart, NoRun
  <2>2. ~(turn'.status = "running" /\ turn'.claimed)
    <3>1. CASE turn.there /\ turn.status = "running"
      BY <1>0, <1>11, <3>1 DEF Restart, TypeTurn, Turns
    <3>2. CASE ~(turn.there /\ turn.status = "running")
      BY <1>11, <3>2 DEF Restart, RowsAgree
    <3> QED
      BY <3>1, <3>2
  <2> QED
    BY <2>1, <2>2 DEF RunsAgree, Responding
<1> QED
  BY <1>3, <1>4, <1>6, <1>7, <1>8, <1>9, <1>10, <1>11 DEF WindowStep

-----------------------------------------------------------------------------
(* The answers                                                             *)

\* No step touches the result of a turn that has one.
LEMMA ResultIsKept ==
    ASSUME (\E p \in Runs : RunStep(p)) \/ WindowStep \/ Restart \/ UNCHANGED vars,
           results /= <<>>
    PROVE  results' = results
<1>1. ASSUME NEW p \in Runs,
             \/ PreparationMarks(p) \/ CheckPolicy(p) \/ AcceptBegin(p) \/ AcceptMessage(p)
             \/ AcceptResumes(p) \/ Freeze(p) \/ PreclaimFails(p) \/ HandOver(p) \/ DropGuard(p)
             \/ \E route \in Routes : Begin(p, route)
      PROVE  results' = results
  BY <1>1 DEF PreparationMarks, CheckPolicy, AcceptBegin, AcceptMessage, AcceptResumes, Freeze,
              PreclaimFails, HandOver, DropGuard, Begin, stored
<1>2. ASSUME NEW p \in Runs,
             \/ Claim(p) \/ SaveMessage(p) \/ Answer(p) \/ MarkQueued(p) \/ Complete(p)
             \/ \E error \in {"error", "consent", "stopped"} : AnswerFails(p, error)
      PROVE  results' = results
  BY <1>2 DEF Claim, SaveMessage, Answer, AnswerFails, MarkQueued, Complete, Completable,
              Eligible, stored
<1>3. ASSUME NEW p \in Runs, FinishError(p)
      PROVE  results' = results
  BY <1>3 DEF FinishError, FinishConsent, FinishStop, FinishWith, Completable, Eligible,
              Interruptible
<1>4. CASE WindowStep
  BY <1>4 DEF WindowStep, Start, PreparationFails, ClaimQueued, CancelQueued, RetryQueued,
              WindowAccepts, WindowAcceptsMessage, Resume, Abandon, CancelSaved, Finalize, stored
<1>5. CASE Restart \/ UNCHANGED vars
  BY <1>5 DEF Restart, vars, stored
<1> QED
  BY <1>1, <1>2, <1>3, <1>4, <1>5 DEF RunStep

\* A step that returns no answer preserves AnswersAgree.
LEMMA AnswersFrame ==
    ASSUME AnswersAgree, UNCHANGED shown, results /= <<>> => results' = results,
           queue' = "completed" => queue = "completed" \/ shown /= {},
           \A p \in Runs : run'[p].pc = "mark_completed" => run[p].pc = "mark_completed"
    PROVE  AnswersAgree'
BY DEF AnswersAgree, ReportedIsStored

\* Only complete_claimed_chat_turn returns an answer, the one it stores.
LEMMA StepAnswers ==
    ASSUME TypeOK, RowsAgree, RunsAgree, AnswersAgree,
           (\E p \in Runs : RunStep(p)) \/ WindowStep \/ Restart \/ UNCHANGED vars
    PROVE  AnswersAgree'
<1>0. TypeTurn /\ TypeRest
  BY TypeParts
<1>1. results /= <<>> => results' = results
  BY ResultIsKept
<1>2. {"idle", "accept", "begin", "message", "resume", "freeze", "finish", "policy", "answering"}
          \subseteq Steps
  BY DEF Steps
<1>3. ASSUME NEW p \in Runs, UNCHANGED <<shown, queue>>,
             \/ Return(p, FALSE) \/ Preclaim(p)
             \/ \E s \in {"idle", "accept", "begin", "message", "resume", "freeze", "finish",
                         "policy", "answering"} : GoTo(p, s)
      PROVE  AnswersAgree'
  <2>1. /\ run'[p].pc /= "mark_completed"
        /\ \A q \in Runs \ {p} : run'[q] = run[q]
    BY <1>0, <1>2, <1>3, ReturnType, PreclaimType, GoToType
  <2> QED
    BY <1>1, <1>3, <2>1, AnswersFrame
<1>4. ASSUME NEW p \in Runs, UNCHANGED <<shown, queue>>,
             NEW s \in {"freeze", "claim", "save", "complete", "failing"}, NEW g,
             \/ run' = [run EXCEPT ![p].pc = s]
             \/ run' = [run EXCEPT ![p].pc = s, ![p].guard = g]
             \/ run' = [run EXCEPT ![p].pc = s, ![p].route = g]
             \/ run' = [run EXCEPT ![p].pc = s, ![p].error = g]
      PROVE  AnswersAgree'
  <2> DEFINE changed(r) == \/ r = [run[p] EXCEPT !.pc = s]
                           \/ r = [run[p] EXCEPT !.pc = s, !.guard = g]
                           \/ r = [run[p] EXCEPT !.pc = s, !.route = g]
                           \/ r = [run[p] EXCEPT !.pc = s, !.error = g]
  <2>1. run \in [Runs -> RunStates] /\ run[p] \in RunStates
    BY <1>0 DEF TypeRest
  <2>2. \A r : changed(r) => r.pc = s
    BY <2>1 DEF RunStates
  <2>3. \E r : changed(r) /\ run' = [run EXCEPT ![p] = r]
    BY <1>4, <2>1
  <2> HIDE DEF changed
  <2>4. run'[p].pc = s /\ \A q \in Runs \ {p} : run'[q] = run[q]
    BY <2>1, <2>2, <2>3
  <2> QED
    BY <1>1, <1>4, <2>4, AnswersFrame
<1>5. ASSUME NEW p \in Runs,
             \/ PreparationMarks(p) \/ CheckPolicy(p) \/ AcceptBegin(p) \/ Freeze(p)
             \/ PreclaimFails(p) \/ HandOver(p) \/ DropGuard(p) \/ SaveMessage(p)
             \/ FinishError(p)
      PROVE  AnswersAgree'
  BY <1>3, <1>5 DEF PreparationMarks, CheckPolicy, AcceptBegin, Freeze, PreclaimFails, HandOver,
                    DropGuard, SaveMessage, FinishError, stored
<1>6. ASSUME NEW p \in Runs,
             \/ AcceptMessage(p) \/ AcceptResumes(p) \/ Claim(p) \/ Answer(p)
             \/ \E route \in Routes : Begin(p, route)
             \/ \E error \in {"error", "consent", "stopped"} : AnswerFails(p, error)
      PROVE  AnswersAgree'
  BY <1>3, <1>4, <1>6 DEF AcceptMessage, AcceptResumes, Claim, Answer, Begin, AnswerFails, stored
<1>7. ASSUME NEW p \in Runs, Complete(p)
      PROVE  AnswersAgree'
  <2>1. ~AlreadyCompleted(p)
    BY <1>7 DEF Complete, AlreadyCompleted, RunsAgree, Responding
  <2>2. CASE Completable(p)
    <3>1. /\ results = <<>> /\ results' = Append(results, [status |-> "completed", by |-> p])
          /\ shown' = shown \union {p}
      BY <1>7, <2>2 DEF Complete, Completable, Eligible, Store
    <3>2. shown = {}
      BY <3>1 DEF AnswersAgree, ReportedIsStored
    <3>3. shown' = {p} /\ results' = <<[status |-> "completed", by |-> p]>>
      BY <3>1, <3>2
    <3> QED
      BY <3>3 DEF AnswersAgree, ReportedIsStored
  <2>3. CASE ~Completable(p)
    BY <1>4, <1>7, <2>1, <2>3 DEF Complete
  <2> QED
    BY <2>2, <2>3
<1>8. ASSUME NEW p \in Runs, MarkQueued(p)
      PROVE  AnswersAgree'
  <2>1. run'[p].pc = "idle" /\ \A q \in Runs \ {p} : run'[q] = run[q]
    BY <1>0, <1>2, <1>8, GoToType DEF MarkQueued
  <2>2. UNCHANGED shown /\ (queue' = "completed" => shown /= {})
    BY <1>8 DEF MarkQueued, AnswersAgree
  <2> QED
    BY <1>1, <2>1, <2>2, AnswersFrame
<1>9. ASSUME NEW p \in Runs, Start(p) \/ PreparationFails(p)
      PROVE  AnswersAgree'
  BY <1>3, <1>9 DEF Start, PreparationFails, stored
<1>10. ASSUME NEW p \in Runs, ClaimQueued(p)
       PROVE  AnswersAgree'
  <2>1. run'[p].pc = "begin" /\ \A q \in Runs \ {p} : run'[q] = run[q]
    BY <1>0, <1>2, <1>10, GoToType DEF ClaimQueued
  <2> QED
    BY <1>1, <1>10, <2>1, AnswersFrame DEF ClaimQueued
<1>11. CASE \/ CancelQueued \/ RetryQueued \/ WindowAccepts \/ WindowAcceptsMessage \/ Resume
            \/ Abandon \/ CancelSaved \/ UNCHANGED vars
            \/ \E status \in Terminal : Finalize(status)
  <2>1. UNCHANGED <<shown, run>> /\ (queue' = "completed" => queue = "completed")
    BY <1>11 DEF CancelQueued, RetryQueued, WindowAccepts, WindowAcceptsMessage, Resume, Abandon,
                 CancelSaved, Finalize, Command, vars, stored
  <2> QED
    BY <1>1, <2>1, AnswersFrame
<1>12. CASE Restart
  <2>1. \A p \in Runs : run'[p].pc = "idle"
    BY <1>12 DEF Restart, NoRun
  <2> QED
    BY <1>1, <1>12, <2>1, AnswersFrame DEF Restart
<1> QED
  BY <1>5, <1>6, <1>7, <1>8, <1>9, <1>10, <1>11, <1>12 DEF RunStep, WindowStep

-----------------------------------------------------------------------------
(* The theorems                                                            *)

\* The three invariants hold together: the rows, the runs and the answers.
LEMMA TurnInvariant == Spec => [](RowsAgree /\ RunsAgree /\ AnswersAgree)
<1>1. Init => RowsAgree /\ RunsAgree /\ AnswersAgree
  <2> SUFFICES ASSUME Init PROVE RowsAgree /\ RunsAgree /\ AnswersAgree
    OBVIOUS
  <2>1. \A p \in Runs : run[p].pc = "idle"
    BY DEF Init, NoRun
  <2>2. RowsAgree
    BY DEF Init, RowsAgree, OneResult, NoTurn, NoUser
  <2>3. RunsAgree
    BY <2>1 DEF Init, RunsAgree, Responding, NoTurn
  <2>4. AnswersAgree
    BY <2>1 DEF Init, AnswersAgree, ReportedIsStored
  <2> QED
    BY <2>2, <2>3, <2>4
<1>2. TypeOK /\ RowsAgree /\ RunsAgree /\ AnswersAgree /\ [Next]_vars
          => (RowsAgree /\ RunsAgree /\ AnswersAgree)'
  <2> SUFFICES ASSUME TypeOK, RowsAgree, RunsAgree, AnswersAgree, [Next]_vars
               PROVE  RowsAgree' /\ RunsAgree' /\ AnswersAgree'
    OBVIOUS
  <2>1. RowsAgree'
    BY RunStepRows, WindowStepRows DEF Next
  <2>2. RunsAgree'
    BY PreclaimStepRuns, AnswerStepRuns, WindowStepRuns DEF Next, RunStep
  <2>3. AnswersAgree'
    BY StepAnswers DEF Next
  <2> QED
    BY <2>1, <2>2, <2>3
<1> QED
  BY <1>1, <1>2, TurnTypes, PTL DEF Spec

\* However many runs, commands of the window, retries and restarts end a turn,
\* complete_claimed_chat_turn, finalize_accepted_chat_turn and their kin store
\* one result, and the row of chat_turns keeps its status.
THEOREM TurnOneResult == Spec => []OneResult
<1>1. RowsAgree => OneResult
  BY DEF RowsAgree
<1> QED
  BY <1>1, TurnInvariant, PTL

\* The claim of claim_prebound_chat_turn_response lets one run answer at a
\* time, whatever guards the refused runs drop.
THEOREM TurnOneResponder == Spec => []OneResponder
<1>1. RunsAgree => OneResponder
  BY DEF RunsAgree, Responding, OneResponder
<1> QED
  BY <1>1, TurnInvariant, PTL

\* An answer run_chat_turn returned, or for which mark_queued_message_completed
\* was called, is the stored result of the turn, and stays it.
THEOREM TurnReportedIsStored == Spec => []ReportedIsStored
<1>1. AnswersAgree => ReportedIsStored
  BY DEF AnswersAgree
<1> QED
  BY <1>1, TurnInvariant, PTL

\* A turn without a result can be resumed or closed once every call of
\* run_chat_turn has returned, and an interrupted message belongs to a failed
\* turn that mark_interrupted_actions or the guards left without a claim,
\* unless the process died while it was answered.
THEOREM TurnUnansweredIsRecoverable == Spec => []UnansweredIsRecoverable
<1>1. RowsAgree /\ RunsAgree => UnansweredIsRecoverable
  <2> SUFFICES ASSUME RowsAgree, RunsAgree PROVE UnansweredIsRecoverable
    OBVIOUS
  <2>1. (\A p \in Runs : run[p].pc = "idle") => ~(turn.status = "running" /\ turn.claimed)
    BY DEF RunsAgree, Responding
  <2>2. results = <<>> => turn.status \in {"running", "failed"}
    BY DEF RowsAgree
  <2>3. user.state = "interrupted" =>
            turn.status = "failed" /\ results = <<>> /\ (turn.claimed => crashes > 0)
    BY DEF RowsAgree
  <2> QED
    BY <2>1, <2>2, <2>3 DEF UnansweredIsRecoverable
<1> QED
  BY <1>1, TurnInvariant, PTL
=============================================================================
