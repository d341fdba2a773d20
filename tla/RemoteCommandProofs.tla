------------------------- MODULE RemoteCommandProofs -------------------------
(***************************************************************************)
(* The properties of RemoteCommand for any number of requests, nonces,     *)
(* threads and events.                                                     *)
(*                                                                         *)
(* MacVersionWins and StopIsReal are inductive next to the types.          *)
(* SentOnceAsApproved needs what ties the rows together (Ledgers): who     *)
(* holds a grant, that a grant belongs to a stored command, that stored    *)
(* commands have different nonces, and that a delivery uses its grant up.  *)
(* RevocationHolds needs that a revocation that has returned has left no   *)
(* grant open and nobody who could add one (Revoked).                      *)
(***************************************************************************)
EXTENDS RemoteCommand, TLAPS

\* Commands with a nonce in common: at most one of them is stored.
NoncesDiffer ==
    \A r, q \in Requests : r /= q /\ command[r] /= "none" /\ command[q] /= "none"
        => request[r].nonce /= request[q].nonce

\* A grant belongs to a stored command, and a thread that reads for one has it.
GrantsAreAskedFor ==
    /\ \A r \in Requests : grant[r].opened => grant[r].there
    /\ \A r \in Requests : grant[r].there => command[r] /= "none"
    /\ \A p \in Calls : call[p].pc \in {"read", "consume"} => grant[call[p].req].there

\* A delivery is what its grant was opened for, and carries verified bytes.
OpenedIsDelivered ==
    /\ \A p \in Calls : call[p].bytes = "verified"
    /\ \A r \in Requests :
          delivered[r] = IF grant[r].opened THEN <<"verified">> ELSE <<>>

\* What ties the rows of the commands, the grants and the deliveries together.
Ledgers == NoncesDiffer /\ GrantsAreAskedFor /\ OpenedIsDelivered

\* A revocation that is under way has unpaired the device, and one that has
\* returned has left no grant.
Revoked ==
    /\ revocation /= "idle" => ~paired
    /\ revocation = "returned" => \A r \in Requests : grant[r].there => grant[r].revoked

-----------------------------------------------------------------------------
(* Types                                                                   *)

CallSteps == {"idle", "insert", "conflict", "resolve", "approve", "commit", "read", "consume"}

\* The part of TypeOK about the threads that serve the device.
TypeCalls ==
    /\ call \in [Calls -> [pc : CallSteps, req : Requests \union {"none"}, bytes : Contents]]
    /\ \A p \in Calls : call[p].pc /= "idle" => call[p].req \in Requests

\* The other part.
TypeRows ==
    /\ request \in [Requests -> SignedRequest]
    /\ command \in [Requests -> {"none", "accepted", "completed", "rejected"}]
    /\ grant \in [Requests -> [there : BOOLEAN, opened : BOOLEAN, revoked : BOOLEAN]]
    /\ paired \in BOOLEAN
    /\ revocation \in {"idle", "grants", "returned"}
    /\ file \in Contents
    /\ runtime \in {"running", "halted", "completed", "cancelled"}
    /\ task \in {"running", "blocked", "completed", "cancelled"}
    /\ events \in Seq(Requests \union {"mac"})
    /\ mac \in [pc : {"idle", "read", "write", "event"}, control : BOOLEAN,
                seen : {"none", "running", "blocked", "completed", "cancelled"}]
    /\ mac.pc = "write" => mac.seen /= "none"
    /\ delivered \in [Requests -> Seq(Contents)]

\* The two parts are all of TypeOK.
LEMMA TypeParts == TypeOK <=> TypeCalls /\ TypeRows
BY DEF TypeOK, TypeCalls, TypeRows, CallSteps

\* And so they are after a step.
LEMMA TypePartsPrimed == TypeOK' <=> TypeCalls' /\ TypeRows'
BY DEF TypeOK, TypeCalls, TypeRows, CallSteps

\* A thread returns.
LEMMA ReturnType ==
    ASSUME TypeCalls, NEW p \in Calls, Return(p)
    PROVE  /\ TypeCalls' /\ call'[p] = Idle
           /\ \A q \in Calls \ {p} : call'[q] = call[q]
BY DEF TypeCalls, CallSteps, Return, Idle, Contents

\* A thread goes on with its request.
LEMMA GoToType ==
    ASSUME TypeCalls, NEW p \in Calls, NEW s \in CallSteps, call[p].pc /= "idle", GoTo(p, s)
    PROVE  /\ TypeCalls'
           /\ call'[p].pc = s /\ call'[p].req = call[p].req /\ call'[p].bytes = call[p].bytes
           /\ \A q \in Calls \ {p} : call'[q] = call[q]
BY DEF TypeCalls, CallSteps, GoTo

\* A thread is let in with a request.
LEMMA EnterType ==
    ASSUME TypeCalls, NEW p \in Calls, NEW r \in Requests, NEW s \in CallSteps,
           call' = [call EXCEPT ![p] = [Idle EXCEPT !.pc = s, !.req = r]]
    PROVE  /\ TypeCalls'
           /\ call'[p].pc = s /\ call'[p].req = r /\ call'[p].bytes = "verified"
           /\ \A q \in Calls \ {p} : call'[q] = call[q]
BY DEF TypeCalls, CallSteps, Idle, Contents

\* The transaction of execute_accepted, by what it writes: a stop is applied,
\* a grant is made, or only the command is finished.
LEMMA CommitCases ==
    ASSUME TypeOK, NEW p \in Calls, Commit(p)
    PROVE  LET r == call[p].req IN
           /\ r \in Requests /\ command[r] = "accepted" /\ paired
           /\ \/ /\ request[r].kind = "stop_task" /\ request[r].expected = Len(events)
                 /\ command' = [command EXCEPT ![r] = "completed"]
                 /\ runtime' = "cancelled" /\ task' = "cancelled" /\ events' = Append(events, r)
                 /\ UNCHANGED grant
              \/ /\ request[r].kind /= "stop_task"
                 /\ command' = [command EXCEPT ![r] = "completed"]
                 /\ grant' = [grant EXCEPT ![r].there = TRUE]
                 /\ UNCHANGED taskRows
              \/ /\ \/ /\ request[r].kind /= "stop_task"
                       /\ command' = [command EXCEPT ![r] = "completed"]
                    \/ command' = [command EXCEPT ![r] = "rejected"]
                 /\ UNCHANGED <<grant, taskRows>>
<1>1. call[p].req \in Requests
  BY TypeParts DEF TypeCalls, Commit
<1> QED
  BY <1>1 DEF Commit, ApplyStopTask, Unchanged, InSequence, Sequence

\* The columns of a grant stay Boolean when one of them is set.
LEMMA GrantType ==
    ASSUME TypeOK, NEW r \in Requests
    PROVE  /\ [grant EXCEPT ![r].there = TRUE]
                 \in [Requests -> [there : BOOLEAN, opened : BOOLEAN, revoked : BOOLEAN]]
           /\ [grant EXCEPT ![r].opened = TRUE]
                 \in [Requests -> [there : BOOLEAN, opened : BOOLEAN, revoked : BOOLEAN]]
<1> DEFINE Row == [there : BOOLEAN, opened : BOOLEAN, revoked : BOOLEAN]
<1>1. grant \in [Requests -> Row]
  BY DEF TypeOK
<1>2. [grant[r] EXCEPT !.there = TRUE] \in Row /\ [grant[r] EXCEPT !.opened = TRUE] \in Row
  <2>1. grant[r] \in Row
    BY <1>1
  <2> QED
    BY <2>1
<1> HIDE DEF Row
<1>3. /\ [grant EXCEPT ![r] = [grant[r] EXCEPT !.there = TRUE]] \in [Requests -> Row]
      /\ [grant EXCEPT ![r] = [grant[r] EXCEPT !.opened = TRUE]] \in [Requests -> Row]
  BY <1>1, <1>2
<1> QED
  BY <1>3 DEF Row

\* The steps of a thread that serves the device preserve TypeOK.
LEMMA CallStepType ==
    ASSUME TypeOK, NEW p \in Calls, CallStep(p)
    PROVE  TypeOK'
<1> SUFFICES TypeCalls' /\ TypeRows'
  BY TypePartsPrimed
<1>0. TypeCalls /\ TypeRows
  BY TypeParts
<1>1. ASSUME NEW r \in Requests, Receive(p, r)
      PROVE  TypeCalls' /\ TypeRows'
  BY <1>0, <1>1, EnterType DEF Receive, TypeRows, taskRows, CallSteps
<1>2. ASSUME NEW r \in Requests, LookupGrant(p, r)
      PROVE  TypeCalls' /\ TypeRows'
  BY <1>0, <1>2, EnterType DEF LookupGrant, TypeRows, taskRows, CallSteps
<1>3. CASE InsertCommand(p)
  <2>0. command' \in [Requests -> {"none", "accepted", "completed", "rejected"}]
    BY <1>0, <1>3 DEF InsertCommand, TypeRows
  <2>1. TypeRows'
    BY <1>0, <1>3, <2>0 DEF InsertCommand, TypeRows, taskRows
  <2>2. TypeCalls'
    BY <1>0, <1>3, ReturnType, GoToType DEF InsertCommand, CallSteps
  <2> QED
    BY <2>1, <2>2
<1>4. CASE CommitConflict(p)
  <2>1. command' \in [Requests -> {"none", "accepted", "completed", "rejected"}]
    BY <1>0, <1>4 DEF CommitConflict, TypeRows
  <2>2. TypeRows'
    BY <1>0, <1>4, <2>1 DEF CommitConflict, TypeRows, taskRows
  <2> QED
    BY <1>0, <1>4, <2>2, ReturnType DEF CommitConflict
<1>5. CASE ResolveCandidate(p)
  BY <1>0, <1>5, ReturnType, GoToType DEF ResolveCandidate, TypeRows, taskRows, CallSteps
<1>6. CASE Approve(p)
  BY <1>0, <1>6, ReturnType, GoToType DEF Approve, TypeRows, taskRows, CallSteps
<1>7. CASE Commit(p)
  <2>1. TypeCalls' /\ call[p].req \in Requests
    BY <1>0, <1>7, ReturnType DEF Commit, TypeCalls
  <2>2. command' \in [Requests -> {"none", "accepted", "completed", "rejected"}]
    BY <1>0, <1>7, CommitCases DEF TypeRows
  <2>3. grant' \in [Requests -> [there : BOOLEAN, opened : BOOLEAN, revoked : BOOLEAN]]
    <3>1. CASE UNCHANGED grant
      BY <1>0, <3>1 DEF TypeRows
    <3>2. CASE grant' = [grant EXCEPT ![call[p].req].there = TRUE]
      BY <2>1, <3>2, GrantType
    <3> QED
      BY <1>7, <3>1, <3>2, CommitCases
  <2>4. /\ runtime' \in {"running", "halted", "completed", "cancelled"}
        /\ task' \in {"running", "blocked", "completed", "cancelled"}
        /\ events' \in Seq(Requests \union {"mac"})
    <3>1. CASE UNCHANGED taskRows
      BY <1>0, <3>1 DEF TypeRows, taskRows
    <3>2. CASE /\ runtime' = "cancelled" /\ task' = "cancelled"
               /\ events' = Append(events, call[p].req)
      BY <1>0, <2>1, <3>2 DEF TypeRows
    <3> QED
      BY <1>7, <3>1, <3>2, CommitCases
  <2>5. TypeRows'
    BY <1>0, <1>7, <2>2, <2>3, <2>4 DEF Commit, TypeRows
  <2> QED
    BY <2>1, <2>5
<1>8. CASE ReadFile(p)
  <2>1. TypeRows'
    BY <1>0, <1>8 DEF ReadFile, TypeRows, taskRows
  <2>2. CASE file = "verified"
    BY <1>0, <1>8, <2>1, <2>2 DEF ReadFile, TypeCalls, CallSteps, Contents
  <2>3. CASE file /= "verified"
    BY <1>0, <1>8, <2>1, <2>3, ReturnType DEF ReadFile
  <2> QED
    BY <2>2, <2>3
<1>9. CASE Consume(p)
  <2>1. TypeCalls' /\ call[p].req \in Requests /\ call[p].bytes \in Contents
    BY <1>0, <1>9, ReturnType DEF Consume, TypeCalls
  <2>2. grant' \in [Requests -> [there : BOOLEAN, opened : BOOLEAN, revoked : BOOLEAN]]
    BY <1>0, <1>9 DEF Consume, TypeRows
  <2>3. delivered' \in [Requests -> Seq(Contents)]
    BY <1>0, <1>9, <2>1 DEF Consume, TypeRows
  <2>4. TypeRows'
    BY <1>0, <1>9, <2>2, <2>3 DEF Consume, TypeRows, taskRows
  <2> QED
    BY <2>1, <2>4
<1>10. CASE GiveUp(p)
  BY <1>0, <1>10, ReturnType DEF GiveUp, TypeRows, taskRows
<1> QED
  BY <1>1, <1>2, <1>3, <1>4, <1>5, <1>6, <1>7, <1>8, <1>9, <1>10 DEF CallStep

\* The steps of the Mac and of a revocation preserve TypeOK.
LEMMA MacStepType ==
    ASSUME TypeOK, MacStep \/ RevokeDevice \/ RevokeGrants
    PROVE  TypeOK'
<1> SUFFICES TypeCalls' /\ TypeRows'
  BY TypePartsPrimed
<1>0. TypeCalls /\ TypeRows
  BY TypeParts
<1>1. CASE Restart
  BY <1>0, <1>1 DEF Restart, TypeCalls, TypeRows, CallSteps, Idle, MacIdle, Contents
<1>2. CASE RevokeDevice \/ RevokeGrants
  <2>0. ASSUME NEW r \in Requests
        PROVE  [grant[r] EXCEPT !.revoked = @ \/ grant[r].there]
                  \in [there : BOOLEAN, opened : BOOLEAN, revoked : BOOLEAN]
    <3>1. grant[r] \in [there : BOOLEAN, opened : BOOLEAN, revoked : BOOLEAN]
      BY <1>0 DEF TypeRows
    <3>2. (grant[r].revoked \/ grant[r].there) \in BOOLEAN
      BY Zenon
    <3> QED
      BY <3>1, <3>2
  <2>1. grant' \in [Requests -> [there : BOOLEAN, opened : BOOLEAN, revoked : BOOLEAN]]
    BY <1>0, <1>2, <2>0 DEF RevokeDevice, RevokeGrants, TypeRows
  <2> QED
    BY <1>0, <1>2, <2>1 DEF RevokeDevice, RevokeGrants, TypeCalls, TypeRows, taskRows
<1>3. ASSUME NEW status \in {"completed", "halted"}, AgentEnds(status)
      PROVE  TypeCalls' /\ TypeRows'
  BY <1>0, <1>3 DEF AgentEnds, TypeCalls, TypeRows
<1>4. CASE AgentResumes \/ MacCancels \/ FileChanges
  BY <1>0, <1>4 DEF AgentResumes, MacCancels, FileChanges, TypeCalls, TypeRows, taskRows
<1>5. CASE LedgerReads
  BY <1>0, <1>5 DEF LedgerReads, CanonicalState, TypeCalls, TypeRows, taskRows
<1>6. CASE LedgerWrites
  BY <1>0, <1>6 DEF LedgerWrites, MacIdle, TypeCalls, TypeRows
<1>7. CASE AppendEvent
  BY <1>0, <1>7 DEF AppendEvent, MacIdle, TypeCalls, TypeRows
<1> QED
  BY <1>1, <1>2, <1>3, <1>4, <1>5, <1>6, <1>7 DEF MacStep

\* Every state of a paired device's commands is well-typed.
THEOREM RemoteTypes == Spec => []TypeOK
<1>1. Init => TypeOK
  BY RemoteAssumption DEF Init, TypeOK, Idle, MacIdle, Contents
<1>2. TypeOK /\ [Next]_vars => TypeOK'
  <2> SUFFICES ASSUME TypeOK, [Next]_vars PROVE TypeOK'
    OBVIOUS
  <2>1. CASE UNCHANGED vars
    BY <2>1 DEF vars, taskRows, TypeOK
  <2>2. CASE Next
    BY <2>2, CallStepType, MacStepType DEF Next
  <2> QED
    BY <2>1, <2>2
<1> QED
  BY <1>1, <1>2, PTL DEF Spec

-----------------------------------------------------------------------------
(* What a device stops                                                     *)

\* The steps, seen from the events and the stops that have completed: they
\* leave both alone, the Mac appends an event, or one stop completes.
StopApplied(r) ==
    /\ r \in Requests \ StopsOf("completed") /\ request[r].kind = "stop_task"
    /\ request[r].expected = Len(events) /\ events' = Append(events, r)
    /\ StopsOf("completed")' = StopsOf("completed") \union {r}
    /\ runtime' = "cancelled"

\* The transaction of execute_accepted applies a stop, or leaves the events and
\* the completed stops as they are.
LEMMA CommitStops ==
    ASSUME TypeOK, NEW p \in Calls, Commit(p)
    PROVE  \/ StopApplied(call[p].req)
           \/ UNCHANGED events /\ StopsOf("completed")' = StopsOf("completed")
<1> DEFINE r == call[p].req
<1>0. r \in Requests /\ command[r] = "accepted" /\ UNCHANGED request
  BY CommitCases DEF Commit
<1>1. CASE /\ request[r].kind = "stop_task" /\ request[r].expected = Len(events)
           /\ command' = [command EXCEPT ![r] = "completed"]
           /\ runtime' = "cancelled" /\ events' = Append(events, r)
  <2>1. StopsOf("completed")' = StopsOf("completed") \union {r}
    BY <1>0, <1>1 DEF StopsOf, TypeOK
  <2> QED
    BY <1>0, <1>1, <2>1 DEF StopApplied, StopsOf
<1>2. CASE /\ \/ request[r].kind /= "stop_task" /\ command' = [command EXCEPT ![r] = "completed"]
              \/ command' = [command EXCEPT ![r] = "rejected"]
           /\ UNCHANGED events
  <2>1. StopsOf("completed")' = StopsOf("completed")
    BY <1>0, <1>2 DEF StopsOf, TypeOK
  <2> QED
    BY <1>2, <2>1
<1> QED
  BY <1>1, <1>2, CommitCases DEF taskRows

\* Every step does one of these things, and a signed request stays what it is.
LEMMA StopSteps ==
    ASSUME TypeOK, [Next]_vars
    PROVE  /\ UNCHANGED request
           /\ \/ \E r \in Requests : StopApplied(r)
              \/ /\ UNCHANGED events \/ events' = Append(events, "mac")
                 /\ StopsOf("completed")' = StopsOf("completed")
<1>1. ASSUME UNCHANGED <<request, command>>,
             UNCHANGED events \/ events' = Append(events, "mac")
      PROVE  /\ UNCHANGED events \/ events' = Append(events, "mac")
             /\ StopsOf("completed")' = StopsOf("completed")
  BY <1>1 DEF StopsOf
<1>2. ASSUME NEW p \in Calls, InsertCommand(p)
      PROVE  UNCHANGED <<request, events>> /\ StopsOf("completed")' = StopsOf("completed")
  <2>1. UNCHANGED <<request, events>> /\ call[p].req \in Requests
    BY <1>2 DEF InsertCommand, taskRows, TypeOK
  <2>2. CASE UNCHANGED command
    BY <2>1, <2>2 DEF StopsOf
  <2>3. CASE ~Duplicate(call[p].req) /\ command' = [command EXCEPT ![call[p].req] = "accepted"]
    <3>1. command[call[p].req] = "none"
      BY <2>1, <2>3 DEF Duplicate, Stored
    <3> QED
      BY <2>1, <2>3, <3>1 DEF StopsOf, TypeOK
  <2> QED
    BY <1>2, <2>2, <2>3 DEF InsertCommand
<1>3. ASSUME NEW p \in Calls, CommitConflict(p)
      PROVE  UNCHANGED <<request, events>> /\ StopsOf("completed")' = StopsOf("completed")
  <2>1. UNCHANGED <<request, events>> /\ call[p].req \in Requests
    BY <1>3 DEF CommitConflict, taskRows, TypeOK
  <2> QED
    BY <1>3, <2>1 DEF CommitConflict, StopsOf, TypeOK
<1>4. ASSUME NEW p \in Calls, Commit(p)
      PROVE  /\ UNCHANGED request
             /\ \/ \E r \in Requests : StopApplied(r)
                \/ UNCHANGED events /\ StopsOf("completed")' = StopsOf("completed")
  BY <1>4, CommitCases, CommitStops DEF Commit
<1>5. ASSUME NEW p \in Calls,
             \/ \E r \in Requests : Receive(p, r) \/ LookupGrant(p, r)
             \/ ResolveCandidate(p) \/ Approve(p) \/ ReadFile(p) \/ Consume(p) \/ GiveUp(p)
      PROVE  UNCHANGED <<request, command, events>>
  BY <1>5 DEF Receive, LookupGrant, ResolveCandidate, Approve, ReadFile, Consume, GiveUp, taskRows
<1>6. ASSUME MacStep \/ RevokeDevice \/ RevokeGrants \/ UNCHANGED vars
      PROVE  /\ UNCHANGED <<request, command>>
             /\ UNCHANGED events \/ events' = Append(events, "mac")
  BY <1>6 DEF MacStep, RevokeDevice, RevokeGrants, vars, taskRows, AgentEnds, AgentResumes,
              MacCancels, LedgerReads, LedgerWrites, AppendEvent, FileChanges, Restart
<1> QED
  BY <1>1, <1>2, <1>3, <1>4, <1>5, <1>6 DEF Next, CallStep

\* A cancelled execution stays cancelled: the agent, a resumption and a restart
\* ask for another state first.
LEMMA CancelledStays ==
    ASSUME TypeOK, [Next]_vars, runtime = "cancelled"
    PROVE  runtime' = "cancelled"
<1>1. ASSUME NEW p \in Calls, Commit(p)
      PROVE  runtime' = "cancelled"
  BY <1>1, CommitCases DEF taskRows
<1>2. ASSUME NEW p \in Calls, CallStep(p), ~Commit(p)
      PROVE  UNCHANGED runtime
  BY <1>2 DEF CallStep, Receive, LookupGrant, InsertCommand, CommitConflict, ResolveCandidate,
              Approve, ReadFile, Consume, GiveUp, taskRows
<1>3. CASE MacStep \/ RevokeDevice \/ RevokeGrants \/ UNCHANGED vars
  BY <1>3 DEF MacStep, RevokeDevice, RevokeGrants, vars, taskRows, AgentEnds, AgentResumes,
              MacCancels, Cancellable, LedgerReads, LedgerWrites, AppendEvent, FileChanges, Restart
<1> QED
  BY <1>1, <1>2, <1>3 DEF Next

\* A device that was told its stop was applied has stopped the agent, whatever
\* other requests, the agent, the ledger and restarts do.
THEOREM RemoteStopIsReal == Spec => []StopIsReal
<1>1. Init => StopIsReal
  BY DEF Init, StopIsReal, StopsOf
<1>2. TypeOK /\ StopIsReal /\ [Next]_vars => StopIsReal'
  <2> SUFFICES ASSUME TypeOK, StopIsReal, [Next]_vars
               PROVE  StopIsReal'
    OBVIOUS
  <2>1. CASE \E r \in Requests : StopApplied(r)
    BY <2>1 DEF StopIsReal, StopApplied
  <2>2. CASE StopsOf("completed")' = StopsOf("completed")
    BY <2>2, CancelledStays DEF StopIsReal
  <2> QED
    BY <2>1, <2>2, StopSteps
<1> QED
  BY <1>1, <1>2, RemoteTypes, PTL DEF Spec

\* "OOMU kept the Mac's version": the event of a stop is the very next one after
\* those the device had seen, for any number of racing requests and events.
THEOREM RemoteMacVersionWins == Spec => []MacVersionWins
<1>1. Init => MacVersionWins
  BY DEF Init, MacVersionWins, StopsOf
<1>2. TypeOK /\ MacVersionWins /\ [Next]_vars => MacVersionWins'
  <2> SUFFICES ASSUME TypeOK, MacVersionWins, [Next]_vars
               PROVE  MacVersionWins'
    OBVIOUS
  <2>0. /\ events \in Seq(Requests \union {"mac"}) /\ UNCHANGED request
        /\ \A r \in Requests : request[r].expected \in Nat
        /\ \A r \in StopsOf("completed") : r \in Requests
    BY StopSteps DEF TypeOK, SignedRequest, StopsOf
  <2>1. ASSUME NEW r \in Requests, StopApplied(r)
        PROVE  MacVersionWins'
    <3>1. /\ events' = Append(events, r) /\ request[r].expected = Len(events)
          /\ StopsOf("completed")' = StopsOf("completed") \union {r}
      BY <2>1 DEF StopApplied
    <3>2. /\ Len(events') = Len(events) + 1 /\ events'[Len(events) + 1] = r
          /\ \A i \in 1..Len(events) : events'[i] = events[i]
          /\ DOMAIN events' = 1..(Len(events) + 1) /\ DOMAIN events = 1..Len(events)
      BY <2>0, <3>1
    <3>3. ASSUME NEW q \in StopsOf("completed")'
          PROVE  request'[q].expected < Len(events') /\ events'[request'[q].expected + 1] = q
      <4>1. CASE q = r
        BY <2>0, <3>1, <3>2, <4>1
      <4>2. CASE q \in StopsOf("completed")
        <5>1. request[q].expected < Len(events) /\ events[request[q].expected + 1] = q
          BY <4>2 DEF MacVersionWins
        <5>2. request[q].expected + 1 \in 1..Len(events)
          BY <2>0, <4>2, <5>1
        <5> QED
          BY <2>0, <3>2, <4>2, <5>1, <5>2
      <4> QED
        BY <3>1, <3>3, <4>1, <4>2
    <3>4. ASSUME NEW i \in DOMAIN events', events'[i] /= "mac"
          PROVE  events'[i] \in StopsOf("completed")' /\ request'[events'[i]].expected + 1 = i
      <4>1. CASE i = Len(events) + 1
        BY <2>0, <3>1, <3>2, <4>1
      <4>2. CASE i \in DOMAIN events
        BY <2>0, <3>1, <3>2, <3>4, <4>2 DEF MacVersionWins
      <4> QED
        BY <2>0, <3>2, <4>1, <4>2
    <3> QED
      BY <3>3, <3>4 DEF MacVersionWins
  <2>2. CASE UNCHANGED events /\ StopsOf("completed")' = StopsOf("completed")
    BY <2>0, <2>2 DEF MacVersionWins
  <2>3. CASE events' = Append(events, "mac") /\ StopsOf("completed")' = StopsOf("completed")
    <3>1. /\ Len(events') = Len(events) + 1 /\ events'[Len(events) + 1] = "mac"
          /\ \A i \in 1..Len(events) : events'[i] = events[i]
          /\ DOMAIN events' = 1..(Len(events) + 1) /\ DOMAIN events = 1..Len(events)
      BY <2>0, <2>3
    <3>2. ASSUME NEW q \in StopsOf("completed")'
          PROVE  request'[q].expected < Len(events') /\ events'[request'[q].expected + 1] = q
      <4>1. request[q].expected < Len(events) /\ events[request[q].expected + 1] = q
        BY <2>3, <3>2 DEF MacVersionWins
      <4>2. request[q].expected \in Nat
        BY <2>0, <2>3, <3>2
      <4> QED
        BY <2>0, <3>1, <4>1, <4>2
    <3>3. ASSUME NEW i \in DOMAIN events', events'[i] /= "mac"
          PROVE  events'[i] \in StopsOf("completed")' /\ request'[events'[i]].expected + 1 = i
      <4>1. i \in DOMAIN events /\ events'[i] = events[i]
        BY <2>0, <3>1, <3>3
      <4> QED
        BY <2>0, <2>3, <3>3, <4>1 DEF MacVersionWins
    <3> QED
      BY <3>2, <3>3 DEF MacVersionWins
  <2> QED
    BY <2>1, <2>2, <2>3, StopSteps
<1> QED
  BY <1>1, <1>2, RemoteTypes, PTL DEF Spec

-----------------------------------------------------------------------------
(* What a device receives                                                  *)

\* A step that stores no new command, makes and opens no grant, delivers
\* nothing, and lets nobody in who reads without a grant preserves Ledgers.
LEMMA LedgersFrame ==
    ASSUME TypeOK, Ledgers, UNCHANGED <<request, delivered>>,
           \A r \in Requests : command'[r] /= "none" <=> command[r] /= "none",
           \A r \in Requests : /\ grant'[r].there = grant[r].there
                               /\ grant'[r].opened = grant[r].opened,
           \A p \in Calls : \/ call'[p] = call[p]
                            \/ /\ call'[p].bytes = "verified"
                               /\ call'[p].pc \notin {"read", "consume"}
    PROVE  Ledgers'
<1>1. NoncesDiffer'
  BY DEF Ledgers, NoncesDiffer
<1>2. GrantsAreAskedFor'
  <2>1. ASSUME NEW p \in Calls, call'[p].pc \in {"read", "consume"}
        PROVE  grant'[call'[p].req].there
    BY <2>1 DEF Ledgers, GrantsAreAskedFor, TypeOK
  <2> QED
    BY <2>1 DEF Ledgers, GrantsAreAskedFor
<1>3. OpenedIsDelivered'
  BY DEF Ledgers, OpenedIsDelivered
<1> QED
  BY <1>1, <1>2, <1>3 DEF Ledgers

\* The steps of a thread that serves the device preserve Ledgers.
LEMMA CallStepLedgers ==
    ASSUME TypeOK, Ledgers, NEW p \in Calls, CallStep(p)
    PROVE  Ledgers'
<1>0. TypeCalls
  BY TypeParts
<1>1. ASSUME NEW r \in Requests, Receive(p, r)
      PROVE  Ledgers'
  <2>1. /\ call'[p].bytes = "verified" /\ call'[p].pc \notin {"read", "consume"}
        /\ \A q \in Calls \ {p} : call'[q] = call[q]
    BY <1>0, <1>1, EnterType DEF Receive, CallSteps
  <2> QED
    BY <1>1, <2>1, LedgersFrame DEF Receive
<1>2. ASSUME NEW r \in Requests, LookupGrant(p, r)
      PROVE  Ledgers'
  <2>1. /\ call'[p].bytes = "verified" /\ call'[p].req = r
        /\ \A q \in Calls \ {p} : call'[q] = call[q]
    BY <1>0, <1>2, EnterType DEF LookupGrant, CallSteps
  <2>2. UNCHANGED <<request, command, grant, delivered>> /\ grant[r].there
    BY <1>2 DEF LookupGrant
  <2>3. NoncesDiffer' /\ OpenedIsDelivered'
    BY <2>1, <2>2 DEF Ledgers, NoncesDiffer, OpenedIsDelivered
  <2>4. GrantsAreAskedFor'
    BY <2>1, <2>2 DEF Ledgers, GrantsAreAskedFor
  <2> QED
    BY <2>3, <2>4 DEF Ledgers
<1>3. CASE InsertCommand(p)
  <2> DEFINE r == call[p].req
  <2>0. r \in Requests /\ UNCHANGED <<request, grant, delivered>> /\ call[p].pc /= "idle"
    BY <1>3 DEF InsertCommand, TypeOK
  <2>1. CASE Duplicate(r)
    <3>1. Return(p) /\ UNCHANGED command
      BY <1>3, <2>1 DEF InsertCommand
    <3> QED
      BY <1>0, <2>0, <3>1, LedgersFrame, ReturnType DEF Idle
  <2>2. CASE ~Duplicate(r)
    <3>1. command' = [command EXCEPT ![r] = "accepted"]
      BY <1>3, <2>2 DEF InsertCommand
    <3>2. \E s \in {"conflict", "resolve", "commit"} : GoTo(p, s)
      BY <1>3, <2>2 DEF InsertCommand
    <3>3. /\ call'[p].bytes = call[p].bytes /\ call'[p].pc \notin {"read", "consume"}
          /\ \A q \in Calls \ {p} : call'[q] = call[q]
      BY <1>0, <2>0, <3>2, GoToType DEF CallSteps
    <3>4. \A q \in Requests : command[q] /= "none" => request[q].nonce /= request[r].nonce
      BY <2>2 DEF Duplicate, Stored
    <3>5. \A q \in Requests : command'[q] = IF q = r THEN "accepted" ELSE command[q]
      BY <2>0, <3>1 DEF TypeOK
    <3>6. NoncesDiffer'
      BY <2>0, <3>4, <3>5 DEF Ledgers, NoncesDiffer
    <3>7. GrantsAreAskedFor'
      BY <2>0, <3>3, <3>5 DEF Ledgers, GrantsAreAskedFor
    <3>8. OpenedIsDelivered'
      BY <2>0, <3>3 DEF Ledgers, OpenedIsDelivered
    <3> QED
      BY <3>6, <3>7, <3>8 DEF Ledgers
  <2> QED
    BY <2>1, <2>2
<1>4. CASE CommitConflict(p)
  <2>1. \A r \in Requests : command'[r] /= "none" <=> command[r] /= "none"
    BY <1>4 DEF CommitConflict, TypeOK
  <2> QED
    BY <1>0, <1>4, <2>1, LedgersFrame, ReturnType DEF CommitConflict, Idle
<1>5. CASE ResolveCandidate(p) \/ Approve(p)
  <2>1. /\ UNCHANGED <<request, command, grant, delivered>> /\ call[p].pc /= "idle"
        /\ Return(p) \/ GoTo(p, "approve") \/ GoTo(p, "commit")
    BY <1>5 DEF ResolveCandidate, Approve
  <2>2. CASE Return(p)
    BY <1>0, <2>1, <2>2, LedgersFrame, ReturnType DEF Idle
  <2>3. ASSUME NEW s \in {"approve", "commit"}, GoTo(p, s)
        PROVE  Ledgers'
    <3>1. /\ call'[p].bytes = call[p].bytes /\ call'[p].pc \notin {"read", "consume"}
          /\ \A q \in Calls \ {p} : call'[q] = call[q]
      BY <1>0, <2>1, <2>3, GoToType DEF CallSteps
    <3>2. call[p].bytes = "verified"
      BY DEF Ledgers, OpenedIsDelivered
    <3> QED
      BY <2>1, <3>1, <3>2, LedgersFrame
  <2> QED
    BY <2>1, <2>2, <2>3
<1>6. CASE Commit(p)
  <2> DEFINE r == call[p].req
  <2>0. /\ r \in Requests /\ command[r] = "accepted" /\ UNCHANGED <<request, delivered>>
        /\ Return(p)
    BY <1>6, CommitCases DEF Commit
  <2>1. \A q \in Requests : command'[q] /= "none" <=> command[q] /= "none"
    <3>1. \E st \in {"completed", "rejected"} : command' = [command EXCEPT ![r] = st]
      BY <1>6, CommitCases
    <3> QED
      BY <2>0, <3>1 DEF TypeOK
  <2>2. CASE UNCHANGED grant
    BY <1>0, <2>0, <2>1, <2>2, LedgersFrame, ReturnType DEF Idle
  <2>3. CASE grant' = [grant EXCEPT ![r].there = TRUE]
    <3>1. /\ \A q \in Requests : /\ grant'[q].opened = grant[q].opened
                                 /\ grant[q].there => grant'[q].there
                                 /\ q /= r => grant'[q].there = grant[q].there
          /\ grant'[r].there
      <4>1. \A q \in Requests :
               /\ grant[q] \in [there : BOOLEAN, opened : BOOLEAN, revoked : BOOLEAN]
               /\ grant'[q] = IF q = r THEN [grant[q] EXCEPT !.there = TRUE] ELSE grant[q]
        BY <2>0, <2>3 DEF TypeOK
      <4> QED
        BY <2>0, <4>1
    <3>2. NoncesDiffer'
      BY <2>0, <2>1 DEF Ledgers, NoncesDiffer
    <3>3. /\ call'[p] = Idle
          /\ \A q \in Calls \ {p} : call'[q] = call[q]
      BY <1>0, <2>0, ReturnType
    <3>4. OpenedIsDelivered'
      BY <2>0, <3>1, <3>3 DEF Ledgers, OpenedIsDelivered, Idle
    <3>5. \A q \in Calls : call'[q].pc \in {"read", "consume"} => grant'[call'[q].req].there
      <4> SUFFICES ASSUME NEW q \in Calls, call'[q].pc \in {"read", "consume"}
                   PROVE  grant'[call'[q].req].there
        OBVIOUS
      <4>1. q /= p /\ call'[q] = call[q]
        BY <3>3 DEF Idle
      <4>2. call[q].req \in Requests /\ grant[call[q].req].there
        BY <1>0, <4>1 DEF Ledgers, GrantsAreAskedFor, TypeCalls
      <4> QED
        BY <3>1, <4>1, <4>2
    <3>6. GrantsAreAskedFor'
      BY <2>0, <2>1, <3>1, <3>5 DEF Ledgers, GrantsAreAskedFor
    <3> QED
      BY <3>2, <3>4, <3>6 DEF Ledgers
  <2> QED
    BY <1>6, <2>2, <2>3, CommitCases
<1>7. CASE ReadFile(p)
  <2>0. UNCHANGED <<request, command, grant, delivered>> /\ call[p].pc = "read"
    BY <1>7 DEF ReadFile
  <2>1. CASE file = "verified"
    <3>1. /\ call'[p].bytes = "verified" /\ call'[p].req = call[p].req
          /\ \A q \in Calls \ {p} : call'[q] = call[q]
      BY <1>0, <1>7, <2>1 DEF ReadFile, TypeCalls
    <3>2. NoncesDiffer' /\ OpenedIsDelivered'
      BY <2>0, <3>1 DEF Ledgers, NoncesDiffer, OpenedIsDelivered
    <3>3. GrantsAreAskedFor'
      BY <2>0, <3>1 DEF Ledgers, GrantsAreAskedFor
    <3> QED
      BY <3>2, <3>3 DEF Ledgers
  <2>2. CASE file /= "verified"
    BY <1>0, <1>7, <2>0, <2>2, LedgersFrame, ReturnType DEF ReadFile, Idle
  <2> QED
    BY <2>1, <2>2
<1>8. CASE Consume(p)
  <2> DEFINE r == call[p].req
  <2>0. /\ r \in Requests /\ UNCHANGED <<request, command>> /\ ~grant[r].opened /\ grant[r].there
        /\ grant' = [grant EXCEPT ![r].opened = TRUE]
        /\ delivered' = [delivered EXCEPT ![r] = Append(@, "verified")]
    BY <1>0, <1>8 DEF Consume, Consumable, TypeCalls, Ledgers, GrantsAreAskedFor, OpenedIsDelivered
  <2>1. /\ grant'[r].opened
        /\ \A q \in Requests : /\ grant'[q].there = grant[q].there
                               /\ q /= r => grant'[q].opened = grant[q].opened
    BY <2>0 DEF TypeOK
  <2>2. /\ call'[p] = Idle
        /\ \A q \in Calls \ {p} : call'[q] = call[q]
    BY <1>0, <1>8, ReturnType DEF Consume
  <2>3. NoncesDiffer'
    BY <2>0 DEF Ledgers, NoncesDiffer
  <2>4. GrantsAreAskedFor'
    <3>1. \A q \in Calls : call'[q].pc \in {"read", "consume"} => grant'[call'[q].req].there
      <4> SUFFICES ASSUME NEW q \in Calls, call'[q].pc \in {"read", "consume"}
                   PROVE  grant'[call'[q].req].there
        OBVIOUS
      <4>1. q /= p /\ call'[q] = call[q]
        BY <2>2 DEF Idle
      <4>2. call[q].req \in Requests /\ grant[call[q].req].there
        BY <1>0, <4>1 DEF Ledgers, GrantsAreAskedFor, TypeCalls
      <4> QED
        BY <2>1, <4>1, <4>2
    <3>2. \A q \in Requests : /\ grant'[q].opened => grant'[q].there
                              /\ grant'[q].there => command'[q] /= "none"
      BY <2>0, <2>1 DEF Ledgers, GrantsAreAskedFor
    <3> QED
      BY <3>1, <3>2 DEF GrantsAreAskedFor
  <2>5. OpenedIsDelivered'
    <3>1. delivered[r] = <<>>
      BY <2>0 DEF Ledgers, OpenedIsDelivered
    <3>2. delivered'[r] = <<"verified">>
      BY <2>0, <3>1 DEF TypeOK
    <3>3. \A q \in Requests : q /= r => delivered'[q] = delivered[q]
      BY <2>0 DEF TypeOK
    <3> QED
      BY <2>1, <2>2, <3>2, <3>3 DEF Ledgers, OpenedIsDelivered, Idle
  <2> QED
    BY <2>3, <2>4, <2>5 DEF Ledgers
<1>9. CASE GiveUp(p)
  BY <1>0, <1>9, LedgersFrame, ReturnType DEF GiveUp, Idle
<1> QED
  BY <1>1, <1>2, <1>3, <1>4, <1>5, <1>6, <1>7, <1>8, <1>9 DEF CallStep

\* The steps of the Mac and of a revocation preserve Ledgers.
LEMMA MacStepLedgers ==
    ASSUME TypeOK, Ledgers, MacStep \/ RevokeDevice \/ RevokeGrants \/ UNCHANGED vars
    PROVE  Ledgers'
<1>1. CASE Restart
  BY <1>1, LedgersFrame DEF Restart, Idle
<1>2. CASE RevokeGrants
  <2>1. \A r \in Requests : grant'[r].there = grant[r].there /\ grant'[r].opened = grant[r].opened
    BY <1>2 DEF RevokeGrants, TypeOK
  <2> QED
    BY <1>2, <2>1, LedgersFrame DEF RevokeGrants
<1>3. CASE ~Restart /\ ~RevokeGrants
  <2>1. UNCHANGED <<request, command, grant, call, delivered>>
    BY <1>3 DEF MacStep, RevokeDevice, vars, AgentEnds, AgentResumes, MacCancels, LedgerReads,
                LedgerWrites, AppendEvent, FileChanges
  <2> QED
    BY <2>1, LedgersFrame
<1> QED
  BY <1>1, <1>2, <1>3

\* Commands, grants and deliveries stay tied together.
LEMMA LedgersHold == Spec => []Ledgers
<1>1. Init => Ledgers
  BY DEF Init, Ledgers, NoncesDiffer, GrantsAreAskedFor, OpenedIsDelivered, Idle
<1>2. TypeOK /\ Ledgers /\ [Next]_vars => Ledgers'
  BY CallStepLedgers, MacStepLedgers DEF Next
<1> QED
  BY <1>1, <1>2, RemoteTypes, PTL DEF Spec

\* "The link works once": of any number of threads that found a grant one
\* delivers, once, what was approved; and a second request under the same nonce
\* neither is stored nor delivers.
THEOREM RemoteSentOnce == Spec => []SentOnceAsApproved
<1>1. Ledgers => SentOnceAsApproved
  <2> SUFFICES ASSUME Ledgers, NEW r \in Requests, NEW q \in Requests
               PROVE  /\ delivered[r] \in {<<>>, <<"verified">>}
                      /\ request[r].nonce = request[q].nonce /\ delivered[r] /= <<>> /\ r /= q =>
                             command[q] = "none" /\ delivered[q] = <<>>
    BY DEF SentOnceAsApproved
  <2>1. delivered[r] \in {<<>>, <<"verified">>}
    BY DEF Ledgers, OpenedIsDelivered
  <2>2. ASSUME request[r].nonce = request[q].nonce, delivered[r] /= <<>>, r /= q
        PROVE  command[q] = "none" /\ delivered[q] = <<>>
    <3>1. command[r] /= "none"
      BY <2>2 DEF Ledgers, OpenedIsDelivered, GrantsAreAskedFor
    <3>2. command[q] = "none"
      BY <2>2, <3>1 DEF Ledgers, NoncesDiffer
    <3> QED
      BY <3>2 DEF Ledgers, OpenedIsDelivered, GrantsAreAskedFor
  <2> QED
    BY <2>1, <2>2
<1> QED
  BY <1>1, LedgersHold, PTL

-----------------------------------------------------------------------------
(* Revocation                                                              *)

\* A revocation keeps what it has done, over every step.
LEMMA RevokedHolds == Spec => []Revoked
<1>1. Init => Revoked
  BY DEF Init, Revoked
<1>2. TypeOK /\ Revoked /\ [Next]_vars => Revoked'
  <2> SUFFICES ASSUME TypeOK, Revoked, [Next]_vars
               PROVE  Revoked'
    OBVIOUS
  <2>1. ASSUME NEW p \in Calls, Commit(p)
        PROVE  Revoked'
    BY <2>1 DEF Commit, Revoked
  <2>2. ASSUME NEW p \in Calls, Consume(p)
        PROVE  Revoked'
    <3>1. \A r \in Requests : grant'[r].there = grant[r].there /\ grant'[r].revoked = grant[r].revoked
      BY <2>2 DEF Consume, TypeOK
    <3> QED
      BY <2>2, <3>1 DEF Consume, Revoked
  <2>3. ASSUME NEW p \in Calls, CallStep(p), ~Commit(p), ~Consume(p)
        PROVE  Revoked'
    <3>1. UNCHANGED <<paired, revocation, grant>>
      BY <2>3 DEF CallStep, Receive, LookupGrant, InsertCommand, CommitConflict, ResolveCandidate,
                  Approve, ReadFile, GiveUp
    <3> QED
      BY <3>1 DEF Revoked
  <2>4. CASE RevokeGrants
    BY <2>4 DEF RevokeGrants, Revoked, TypeOK
  <2>5. CASE RevokeDevice \/ Restart
    BY <2>5 DEF RevokeDevice, Restart, Revoked, TypeOK
  <2>6. CASE (MacStep /\ ~Restart) \/ UNCHANGED vars
    BY <2>6 DEF MacStep, vars, AgentEnds, AgentResumes, MacCancels, LedgerReads, LedgerWrites,
                AppendEvent, FileChanges, Revoked
  <2> QED
    BY <2>1, <2>2, <2>3, <2>4, <2>5, <2>6 DEF Next
<1> QED
  BY <1>1, <1>2, RemoteTypes, PTL DEF Spec

\* Once revoke has returned, no thread that was let in before delivers a file or
\* completes a request, and in particular none stops the task.
THEOREM RemoteRevocationHolds == Spec => RevocationHolds
<1> DEFINE Quiet == revocation = "returned" =>
                       /\ delivered' = delivered
                       /\ \A r \in Requests : command'[r] = "completed" => command[r] = "completed"
<1>1. TypeOK /\ Ledgers /\ Revoked /\ [Next]_vars => [Quiet]_vars
  <2> SUFFICES ASSUME TypeOK, Ledgers, Revoked, [Next]_vars, revocation = "returned"
               PROVE  /\ delivered' = delivered
                      /\ \A r \in Requests : command'[r] = "completed" => command[r] = "completed"
    OBVIOUS
  <2>1. ASSUME NEW p \in Calls, Commit(p) \/ Consume(p)
        PROVE  FALSE
    <3>1. ~paired
      BY DEF Revoked
    <3>2. Consume(p) => grant[call[p].req].there /\ ~grant[call[p].req].revoked
                        /\ call[p].req \in Requests
      BY TypeParts DEF Consume, Consumable, Ledgers, GrantsAreAskedFor, TypeCalls
    <3> QED
      BY <2>1, <3>1, <3>2 DEF Commit, Revoked
  <2>2. ASSUME NEW p \in Calls, InsertCommand(p) \/ CommitConflict(p)
        PROVE  /\ delivered' = delivered
               /\ \A r \in Requests : command'[r] = "completed" => command[r] = "completed"
    BY <2>2 DEF InsertCommand, CommitConflict, TypeOK
  <2>3. ASSUME NEW p \in Calls, CallStep(p), ~Commit(p), ~Consume(p), ~InsertCommand(p),
               ~CommitConflict(p)
        PROVE  UNCHANGED <<command, delivered>>
    BY <2>3 DEF CallStep, Receive, LookupGrant, ResolveCandidate, Approve, ReadFile, GiveUp
  <2>4. ASSUME MacStep \/ RevokeDevice \/ RevokeGrants \/ UNCHANGED vars
        PROVE  UNCHANGED <<command, delivered>>
    BY <2>4 DEF MacStep, RevokeDevice, RevokeGrants, vars, AgentEnds, AgentResumes, MacCancels,
                LedgerReads, LedgerWrites, AppendEvent, FileChanges, Restart
  <2> QED
    BY <2>1, <2>2, <2>3, <2>4 DEF Next
<1> QED
  BY <1>1, RemoteTypes, LedgersHold, RevokedHolds, PTL DEF Spec, RevocationHolds
=============================================================================
