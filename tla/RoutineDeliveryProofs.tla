----------------------- MODULE RoutineDeliveryProofs -----------------------
(***************************************************************************)
(* The closing notice of a routine, for any number of permission threads,  *)
(* attempts, confirmations and faults.                                     *)
(*                                                                         *)
(* ClosedIsDelivered needs to know where the evidence comes from: a        *)
(* delivered receipt is never taken back, and every step towards closing   *)
(* has seen one (Evidence).  That the notice arrives once needs a budget:  *)
(* what arrived, what may still arrive and what is about to be given back  *)
(* as unsent never exceeds one plus the confirmations that were mistaken.  *)
(* It rests on the order in which threads can enter an attempt (Orderly):  *)
(* when one thread finishes the run, a permission thread only ever makes   *)
(* the first attempt.                                                      *)
(***************************************************************************)
EXTENDS RoutineDelivery, FiniteSetTheorems, SequenceTheorems, TLAPS

-----------------------------------------------------------------------------
(* The inductive invariants                                                *)

\* One thread finishes the run: what the promise of a single notice needs of the
\* initial state, since every thread in due begins a delivery of its own.
OneFinisher == \A s, t \in due : s = t

\* Until it has begun to deliver nothing has happened.
NothingYet == due # {} => receipts = <<>> /\ \A t \in Threads : pc[t] = "idle"

\* A notice has arrived, reserved or not.
Arrived == sent > 0 \/ stray

SomeDelivered == \E i \in DOMAIN receipts : receipts[i].state = "delivered"

\* What is taken as delivered has arrived, and every path to the closed
\* routine has a delivered receipt.
Evidence ==
    /\ \A t \in Threads : landed[t] => Arrived
    /\ \A t \in Threads : pc[t] = "finish" => landed[t]
    /\ SomeDelivered => Arrived
    /\ \A k \in Kinds : effect[k] = "verified" => SomeDelivered
    /\ \A t \in Threads : pc[t] \in {"policy", "reconcile", "status"} => SomeDelivered
    /\ sched.paused = "completed" => SomeDelivered

\* Every attempt uses the same idempotency key and is bound to its task.
OneKey == ~LegacyEmpty /\ "lookup" \notin FaultKinds

\* The one key has the one receipt.
KeyAndReceipt ==
    /\ \A t \in Threads : kind[t] = "completed"
    /\ effect["completed_empty"] = "absent"
    /\ effect["completed"] = "absent" => receipts = <<>>
    /\ effect["completed"] # "absent" => Len(receipts) = 1 /\ receipts[1].bound

\* One permission thread delivers at most, and it prepares the first attempt
\* before the scheduler makes any.
Orderly ==
    /\ \A a, b \in Approvers : pc[a] # "idle" /\ pc[b] # "idle" => a = b
    /\ \A t \in Threads : safe[t] => pc[t] = "fail"
    /\ \A t \in Threads : pc[t] = "dispatch" => effect["completed"] = "reserved"
    /\ \A a \in Approvers : pc[a] \in {"reserve", "dispatch"} => pc[Scheduler] = "idle"
    /\ \A a \in Approvers : pc[a] = "reserve" => receipts = <<>>
    /\ \A a \in Approvers : pc[a] = "dispatch" => receipts[1].state = "pending"

\* A notice of t is on its way, or is about to be given back.
OnItsWay(t) == pc[t] = "sending" /\ ~landed[t]
Unsent(t) == pc[t] = "fail" /\ safe[t]

\* One if it is so.
Unit(so) == IF so THEN 1 ELSE 0

\* What the scheduler and the permission threads have on the way, and what they
\* are about to give back.
SchedulerFlies == Unit(OnItsWay(Scheduler))
ApproverFlies == Unit(\E a \in Approvers : OnItsWay(a))
SchedulerReturns == Unit(Unsent(Scheduler))
ApproverReturns == Unit(\E a \in Approvers : Unsent(a))

\* What has arrived or may still arrive.
Spent == sent + orphans + SchedulerFlies + ApproverFlies

\* The scheduler makes an attempt or may begin one.
SchedulersTurn == pc[Scheduler] # "idle" \/ (receipts # <<>> /\ receipts[1].state = "failed")

\* An attempt that may still be made, or whose notice is about to be given
\* back as unsent, is paid for like one that was made.
Budget ==
    /\ Spent <= 1 + pardons
    /\ effect["completed"] \in {"absent", "reserved"} =>
           Spent + (IF SchedulersTurn THEN ApproverReturns ELSE 0) <= pardons
    /\ effect["completed"] = "executed" =>
           Spent + SchedulerReturns + ApproverReturns <= 1 + pardons

-----------------------------------------------------------------------------
(* Types                                                                   *)

EffectStates == {"absent", "reserved", "executed", "verified"}
Scheds == [active : BOOLEAN, paused : {"none", "completed", "retry", "review"},
           status : {"Completed", "Pending", "AwaitingApproval"}]
Steps == {"idle", "reserve", "dispatch", "sending", "finish", "fail", "policy", "reconcile",
          "status", "park", "block"}
Outcomes == {"none", "delivered", "retry", "review"}

TypeRows ==
    /\ effect \in [Kinds -> EffectStates] /\ receipts \in Seq(Receipts) /\ sched \in Scheds
    /\ task \in {"running", "blocked", "completed"} /\ due \subseteq Threads

TypeThreads ==
    /\ pc \in [Threads -> Steps] /\ kind \in [Threads -> Kinds] /\ rcpt \in [Threads -> Nat]
    /\ landed \in [Threads -> BOOLEAN] /\ safe \in [Threads -> BOOLEAN]
    /\ outcome \in [Threads -> Outcomes]

Holds ==
    \A t \in Threads : IF Attempting(t) THEN rcpt[t] \in DOMAIN receipts ELSE rcpt[t] = 0

TypeWorld ==
    /\ sent \in Nat /\ stray \in BOOLEAN /\ orphans \in Nat /\ pardons \in Nat
    /\ sends \in Nat /\ confirms \in Nat /\ faults \in Nat

\* The parts are all of TypeOK.
LEMMA TypeParts == TypeOK <=> TypeRows /\ TypeThreads /\ Holds /\ TypeWorld
BY DEF TypeOK, TypeRows, TypeThreads, Holds, TypeWorld, EffectStates, Scheds, Steps, Outcomes

\* And so they are after a step.
LEMMA TypePartsPrimed == TypeOK' <=> TypeRows' /\ TypeThreads' /\ Holds' /\ TypeWorld'
BY DEF TypeOK, TypeRows, TypeThreads, Holds, TypeWorld, EffectStates, Scheds, Steps, Outcomes

\* A set of positions has a last one.
LEMMA LastPosition ==
    ASSUME NEW n \in Nat, NEW S, S \subseteq 1 .. n, S # {}
    PROVE  Max(S) \in S /\ \A j \in S : j <= Max(S)
<1> DEFINE after(i) == i + 1 .. n
           T == {x \in SUBSET (1 .. n) : \E i \in S : x = after(i)}
<1>1. \A i \in S : i \in 1 .. n /\ after(i) \in SUBSET (1 .. n)
  OBVIOUS
<1>2. IsFiniteSet(1 .. n)
  BY FS_Interval
<1>3. T \subseteq FiniteSubsetsOf(1 .. n) /\ T # {}
  <2>1. T \subseteq SUBSET (1 .. n)
    OBVIOUS
  <2>2. FiniteSubsetsOf(1 .. n) = SUBSET (1 .. n)
    BY <1>2, FS_FiniteSubsetsOfFinite
  <2>3. T # {}
    BY <1>1
  <2> QED
    BY <2>1, <2>2, <2>3
<1>4. PICK x \in T : \A y \in T : ~(<<y, x>> \in StrictSubsetOrdering(1 .. n))
  <2> HIDE DEF T
  <2> QED
    BY <1>3, FS_StrictSubsetOrderingWellFounded, WFMin
<1>5. \A y \in T : ~(y \subseteq x /\ y # x)
  BY <1>4 DEF StrictSubsetOrdering
<1>6. PICK i \in S : x = after(i)
  OBVIOUS
<1>7. ASSUME NEW j \in S, j > i
      PROVE  FALSE
  <2>1. i \in 1 .. n /\ j \in 1 .. n /\ after(j) \in T
    BY <1>1
  <2>2. after(j) \subseteq after(i) /\ j \in after(i) /\ j \notin after(j)
    BY <1>7, <2>1
  <2> QED
    BY <1>5, <1>6, <2>1, <2>2
<1>8. \A j \in S : i >= j /\ i \in Nat /\ j \in Nat
  BY <1>1, <1>7
<1>9. Max(S) \in S /\ \A j \in S : Max(S) >= j
  BY <1>8 DEF Max
<1> QED
  BY <1>1, <1>9

\* The latest receipt is one of the list.
LEMMA LatestType ==
    ASSUME TypeRows
    PROVE  /\ Latest \in Nat
           /\ Latest # 0 => Latest \in DOMAIN receipts /\ receipts[Latest].bound
           /\ Latest = 0 => Bound = {}
<1>1. Bound \subseteq 1 .. Len(receipts) /\ Len(receipts) \in Nat
  BY DEF TypeRows, Bound
<1>2. CASE Bound = {}
  BY <1>2 DEF Latest
<1>3. CASE Bound # {}
  <2>1. Max(Bound) \in Bound
    BY <1>1, <1>3, LastPosition
  <2> QED
    BY <1>1, <1>3, <2>1 DEF Latest, Bound
<1> QED
  BY <1>2, <1>3

\* A receipt is inserted at the end or replaced where it is.
LEMMA PutReceipt ==
    ASSUME TypeRows, NEW i \in 1 .. Len(receipts) + 1, NEW r \in Receipts
    PROVE  LET put == [j \in DOMAIN receipts \cup {i} |-> IF j = i THEN r ELSE receipts[j]]
           IN  /\ put \in Seq(Receipts)
               /\ DOMAIN receipts \subseteq DOMAIN put /\ i \in DOMAIN put
               /\ put[i] = r /\ \A j \in DOMAIN receipts : j # i => put[j] = receipts[j]
<1> DEFINE put == [j \in DOMAIN receipts \cup {i} |-> IF j = i THEN r ELSE receipts[j]]
<1>1. /\ Len(receipts) \in Nat /\ DOMAIN receipts = 1 .. Len(receipts)
      /\ \A j \in 1 .. Len(receipts) : receipts[j] \in Receipts
  BY DEF TypeRows
<1>2. DOMAIN receipts \cup {i} = 1 .. (IF i = Len(receipts) + 1 THEN i ELSE Len(receipts))
  BY <1>1
<1>3. \E n \in Nat : put \in [1 .. n -> Receipts]
  BY <1>1, <1>2
<1>4. put \in Seq(Receipts)
  BY <1>3, SeqDef
<1> QED
  BY <1>1, <1>4

\* The effect of one key changes.
LEMMA EffectType ==
    ASSUME TypeRows, NEW k \in Kinds, NEW e \in EffectStates, effect' = [effect EXCEPT ![k] = e]
    PROVE  /\ effect' \in [Kinds -> EffectStates] /\ effect'[k] = e
           /\ \A j \in Kinds \ {k} : effect'[j] = effect[j]
BY DEF TypeRows

\* A receipt of the list changes.
LEMMA ReceiptType ==
    ASSUME TypeRows, NEW i \in DOMAIN receipts, NEW r \in Receipts,
           receipts' = [receipts EXCEPT ![i] = r]
    PROVE  /\ receipts' \in Seq(Receipts) /\ DOMAIN receipts' = DOMAIN receipts
           /\ Len(receipts') = Len(receipts)
           /\ receipts'[i] = r /\ \A j \in DOMAIN receipts : j # i => receipts'[j] = receipts[j]
BY DEF TypeRows

\* A receipt is appended.
LEMMA AppendType ==
    ASSUME TypeRows, NEW r \in Receipts, receipts' = Append(receipts, r)
    PROVE  /\ receipts' \in Seq(Receipts) /\ DOMAIN receipts \subseteq DOMAIN receipts'
           /\ Len(receipts) + 1 \in DOMAIN receipts'
           /\ receipts'[Len(receipts) + 1] = r
           /\ \A j \in DOMAIN receipts : receipts'[j] = receipts[j]
BY DEF TypeRows

\* SettleReceipt changes the receipt only while it is pending.
LEMMA SettleType ==
    ASSUME TypeRows, NEW i \in DOMAIN receipts, NEW s \in {"failed", "delivered"},
           SettleReceipt(i, s)
    PROVE  /\ receipts' \in Seq(Receipts) /\ DOMAIN receipts' = DOMAIN receipts
           /\ Len(receipts') = Len(receipts)
           /\ receipts'[i].state = IF receipts[i].state = "pending" THEN s ELSE receipts[i].state
           /\ receipts'[i].bound = receipts[i].bound
           /\ \A j \in DOMAIN receipts : j # i => receipts'[j] = receipts[j]
<1>1. receipts[i] \in Receipts
  BY DEF TypeRows
<1>2. CASE receipts[i].state = "pending"
  <2> DEFINE r == Receipt(s, receipts[i].bound, FALSE)
  <2>1. r \in Receipts /\ r.state = s /\ r.bound = receipts[i].bound
    BY <1>1 DEF Receipt, Receipts
  <2>2. receipts' = [receipts EXCEPT ![i] = r]
    BY <1>2 DEF SettleReceipt
  <2> HIDE DEF r
  <2> QED
    BY <1>2, <2>1, <2>2, ReceiptType
<1>3. CASE receipts[i].state # "pending"
  BY <1>3 DEF SettleReceipt, TypeRows
<1> QED
  BY <1>2, <1>3

\* A thread goes on.
LEMMA GotoType ==
    ASSUME TypeThreads, NEW t \in Threads, NEW s \in Steps, Goto(t, s)
    PROVE  /\ pc' \in [Threads -> Steps] /\ pc'[t] = s
           /\ \A u \in Threads \ {t} : pc'[u] = pc[u]
BY DEF TypeThreads, Goto

\* deliver_routine_notice returns in t.
LEMMA ReturnType ==
    ASSUME TypeThreads, NEW t \in Threads, NEW o \in Outcomes \ {"none"}, Return(t, o)
    PROVE  /\ pc' \in [Threads -> Steps] /\ rcpt' \in [Threads -> Nat]
           /\ landed' \in [Threads -> BOOLEAN] /\ safe' \in [Threads -> BOOLEAN]
           /\ outcome' \in [Threads -> Outcomes]
           /\ pc'[t] = IF o = "delivered" THEN "policy" ELSE "park"
           /\ rcpt'[t] = 0 /\ ~landed'[t] /\ ~safe'[t]
           /\ \A u \in Threads \ {t} : /\ pc'[u] = pc[u] /\ rcpt'[u] = rcpt[u]
                                       /\ landed'[u] = landed[u] /\ safe'[u] = safe[u]
<1>1. Goto(t, IF o = "delivered" THEN "policy" ELSE "park") /\ {"policy", "park"} \subseteq Steps
  BY DEF Return, Steps
<1>2. /\ pc' \in [Threads -> Steps] /\ pc'[t] = IF o = "delivered" THEN "policy" ELSE "park"
      /\ \A u \in Threads \ {t} : pc'[u] = pc[u]
  BY <1>1, GotoType
<1>3. /\ rcpt' \in [Threads -> Nat] /\ rcpt'[t] = 0
      /\ \A u \in Threads \ {t} : rcpt'[u] = rcpt[u]
  BY DEF Return, TypeThreads
<1>4. /\ landed' \in [Threads -> BOOLEAN] /\ ~landed'[t]
      /\ \A u \in Threads \ {t} : landed'[u] = landed[u]
  BY DEF Return, TypeThreads
<1>5. /\ safe' \in [Threads -> BOOLEAN] /\ ~safe'[t]
      /\ \A u \in Threads \ {t} : safe'[u] = safe[u]
  BY DEF Return, TypeThreads
<1>6. outcome' \in [Threads -> Outcomes]
  BY DEF Return, TypeThreads
<1> QED
  BY <1>2, <1>3, <1>4, <1>5, <1>6

\* Threads return from the caller, or die.
LEMMA LeaveType ==
    ASSUME TypeThreads, NEW S, Leave(S)
    PROVE  /\ TypeThreads'
           /\ \A t \in Threads :
                 IF t \in S THEN pc'[t] = "idle" /\ rcpt'[t] = 0 /\ ~landed'[t] /\ ~safe'[t]
                                /\ kind'[t] = "completed"
                 ELSE /\ pc'[t] = pc[t] /\ rcpt'[t] = rcpt[t] /\ landed'[t] = landed[t]
                      /\ safe'[t] = safe[t] /\ kind'[t] = kind[t]
<1>1. "idle" \in Steps /\ "completed" \in Kinds /\ "none" \in Outcomes /\ 0 \in Nat
  BY DEF Steps, Kinds, Outcomes
<1>2. pc' \in [Threads -> Steps] /\ kind' \in [Threads -> Kinds] /\ rcpt' \in [Threads -> Nat]
  BY <1>1 DEF Leave, TypeThreads
<1>3. landed' \in [Threads -> BOOLEAN] /\ safe' \in [Threads -> BOOLEAN]
  BY DEF Leave
<1>4. outcome' \in [Threads -> Outcomes]
  BY <1>1 DEF Leave, TypeThreads
<1>5. \A t \in Threads : /\ landed'[t] = (t \notin S /\ landed[t]) /\ landed[t] \in BOOLEAN
                          /\ safe'[t] = (t \notin S /\ safe[t]) /\ safe[t] \in BOOLEAN
  BY DEF Leave, TypeThreads
<1>6. \A t \in Threads : /\ pc'[t] = (IF t \in S THEN "idle" ELSE pc[t])
                          /\ rcpt'[t] = (IF t \in S THEN 0 ELSE rcpt[t])
                          /\ kind'[t] = (IF t \in S THEN "completed" ELSE kind[t])
  BY DEF Leave
<1> QED
  BY <1>2, <1>3, <1>4, <1>5, <1>6 DEF TypeThreads

\* reserve_routine_delivery puts a pending receipt bound to the task where none
\* is, or in place of one that is not delivered.
LEMMA ReserveType ==
    ASSUME TypeRows, TypeThreads, NEW t \in Threads, ReserveForSend(t)
    PROVE  \E i \in DOMAIN receipts' :
              /\ receipts' \in Seq(Receipts) /\ DOMAIN receipts \subseteq DOMAIN receipts'
              /\ receipts'[i] = Receipt("pending", TRUE, FALSE)
              /\ \A j \in DOMAIN receipts : j # i => receipts'[j] = receipts[j]
              /\ i \in DOMAIN receipts => receipts[i].state # "delivered"
              /\ rcpt' \in [Threads -> Nat] /\ rcpt'[t] = i
              /\ \A u \in Threads \ {t} : rcpt'[u] = rcpt[u]
              /\ i = IF effect[kind[t]] = "reserved" /\ Latest > 0 THEN Latest
                     ELSE Len(receipts) + 1
              /\ receipts' = [j \in DOMAIN receipts \cup {i} |->
                               IF j = i THEN Receipt("pending", TRUE, FALSE) ELSE receipts[j]]
<1> DEFINE i == IF effect[kind[t]] = "reserved" /\ Latest > 0 THEN Latest ELSE Len(receipts) + 1
           r == Receipt("pending", TRUE, FALSE)
<1>1. r \in Receipts
  BY DEF Receipt, Receipts
<1>2. Len(receipts) \in Nat /\ DOMAIN receipts = 1 .. Len(receipts)
  BY DEF TypeRows
<1>3. i \in 1 .. Len(receipts) + 1 /\ (i \in DOMAIN receipts => i = Latest /\ Latest > 0)
  BY <1>2, LatestType
<1>4. i \in DOMAIN receipts => receipts[i].state # "delivered"
  <2> SUFFICES ASSUME i \in DOMAIN receipts PROVE receipts[i].state # "delivered"
    OBVIOUS
  <2>1. effect[kind[t]] = "reserved" /\ Latest > 0 /\ i = Latest
    BY <1>2, <1>3
  <2> QED
    BY <2>1 DEF ReserveForSend, Delivered
<1>5. /\ receipts' = [j \in DOMAIN receipts \cup {i} |-> IF j = i THEN r ELSE receipts[j]]
      /\ rcpt' = [rcpt EXCEPT ![t] = i]
  BY DEF ReserveForSend
<1> HIDE DEF i, r
<1>6. /\ receipts' \in Seq(Receipts) /\ DOMAIN receipts \subseteq DOMAIN receipts'
      /\ i \in DOMAIN receipts' /\ receipts'[i] = r
      /\ \A j \in DOMAIN receipts : j # i => receipts'[j] = receipts[j]
  BY <1>1, <1>3, <1>5, PutReceipt
<1>7. /\ rcpt' \in [Threads -> Nat] /\ rcpt'[t] = i
      /\ \A u \in Threads \ {t} : rcpt'[u] = rcpt[u]
  BY <1>2, <1>3, <1>5 DEF TypeThreads
<1>8. i = IF effect[kind[t]] = "reserved" /\ Latest > 0 THEN Latest ELSE Len(receipts) + 1
  BY DEF i
<1>9. r = Receipt("pending", TRUE, FALSE)
  BY DEF r
<1> WITNESS i \in DOMAIN receipts'
<1> QED
  BY <1>4, <1>5, <1>6, <1>7, <1>8, <1>9

\* The receipts only grow; a thread keeps its receipt while it attempts, has
\* none otherwise, or holds one of the list.
LEMMA HoldsFrame ==
    ASSUME Holds, DOMAIN receipts \subseteq DOMAIN receipts',
           \A t \in Threads :
              \/ rcpt'[t] = rcpt[t] /\ (Attempting(t)' <=> Attempting(t))
              \/ ~Attempting(t)' /\ rcpt'[t] = 0
              \/ Attempting(t)' /\ rcpt'[t] \in DOMAIN receipts'
    PROVE  Holds'
BY DEF Holds

\* The steps that begin or prepare an attempt keep the types.
LEMMA PrepareTypes ==
    ASSUME TypeOK, NEW t \in Threads,
           \/ StartDelivery(t) \/ AlreadyDelivered(t) \/ DispatchedBefore(t) \/ ReserveForSend(t)
           \/ ReserveWithoutTask(t) \/ ReservationFails(t) \/ MarkRoutineDeliveryDispatched(t)
           \/ DispatchFails(t) \/ (RetryPendingTerminalDelivery /\ t = Scheduler)
    PROVE  TypeOK'
<1>0. TypeRows /\ TypeThreads /\ Holds /\ TypeWorld
  BY TypeParts
<1>1. {"reserve", "dispatch", "sending", "fail"} \subseteq Steps
  BY DEF Steps
<1>2. kind[t] \in Kinds /\ {"reserved", "executed", "verified"} \subseteq EffectStates
  BY <1>0 DEF TypeThreads, EffectStates
<1>3. ASSUME StartDelivery(t) \/ (RetryPendingTerminalDelivery /\ t = Scheduler)
      PROVE  TypeOK'
  <2>1. /\ pc' \in [Threads -> Steps] /\ pc'[t] = "reserve" /\ pc[t] = "idle"
        /\ \A u \in Threads \ {t} : pc'[u] = pc[u]
    BY <1>0, <1>1, <1>3, GotoType DEF StartDelivery, RetryPendingTerminalDelivery
  <2>2. kind' \in [Threads -> Kinds]
    BY <1>0, <1>3 DEF StartDelivery, RetryPendingTerminalDelivery, TypeThreads, Kinds, FirstKind,
                      RetryKind
  <2>3. TypeThreads' /\ TypeRows' /\ TypeWorld'
    BY <1>0, <1>3, <2>1, <2>2 DEF StartDelivery, RetryPendingTerminalDelivery, TypeThreads,
                                  TypeRows, TypeWorld, durable, world, bounds
  <2>4. UNCHANGED <<receipts, rcpt>> /\ ~Attempting(t) /\ ~Attempting(t)'
    BY <1>3, <2>1 DEF StartDelivery, RetryPendingTerminalDelivery, Attempting, durable
  <2>5. Holds'
    BY <1>0, <2>1, <2>4 DEF Holds, Attempting
  <2> QED
    BY <2>3, <2>5, TypePartsPrimed
<1>4. ASSUME NEW o \in {"delivered", "review", "retry"}, Return(t, o),
             UNCHANGED <<receipts, sched, task, due, kind, sent, stray, orphans, pardons>>,
             effect' \in [Kinds -> EffectStates], sends' \in Nat, confirms' \in Nat, faults' \in Nat
      PROVE  TypeOK'
  <2>0. o \in Outcomes \ {"none"}
    BY DEF Outcomes
  <2>1. TypeThreads'
    BY <1>0, <1>4, <2>0, ReturnType DEF TypeThreads
  <2>2. TypeRows' /\ TypeWorld'
    BY <1>0, <1>4 DEF TypeRows, TypeWorld
  <2>3. pc'[t] \in {"policy", "park"}
    BY <1>0, <1>4, <2>0, ReturnType
  <2>4. \A u \in Threads \ {t} : pc'[u] = pc[u] /\ rcpt'[u] = rcpt[u]
    BY <1>0, <1>4, <2>0, ReturnType
  <2>5. rcpt'[t] = 0
    BY <1>0, <1>4, <2>0, ReturnType
  <2>6. Holds'
    BY <1>0, <1>4, <2>3, <2>4, <2>5 DEF Holds, Attempting
  <2> QED
    BY <2>1, <2>2, <2>6, TypePartsPrimed
<1>5. CASE AlreadyDelivered(t) \/ DispatchedBefore(t) \/ ReservationFails(t)
  <2>1. effect' \in [Kinds -> EffectStates]
    BY <1>0, <1>2, <1>5, EffectType DEF AlreadyDelivered, DispatchedBefore, ReservationFails,
                                        SetEffect, durable, TypeRows
  <2>2. faults' \in Nat /\ sends' \in Nat /\ confirms' \in Nat
    BY <1>0, <1>5 DEF AlreadyDelivered, DispatchedBefore, ReservationFails, Fault, TypeWorld, bounds
  <2> QED
    BY <1>4, <1>5, <2>1, <2>2 DEF AlreadyDelivered, DispatchedBefore, ReservationFails, durable, world
<1>6. ASSUME NEW s \in {"dispatch", "sending", "fail"}, Goto(t, s), UNCHANGED <<kind, landed, outcome>>,
             safe' \in [Threads -> BOOLEAN], rcpt' \in [Threads -> Nat],
             rcpt'[t] \in DOMAIN receipts', \A u \in Threads \ {t} : rcpt'[u] = rcpt[u],
             DOMAIN receipts \subseteq DOMAIN receipts', TypeRows', TypeWorld'
      PROVE  TypeOK'
  <2>1. /\ pc' \in [Threads -> Steps] /\ pc'[t] = s
        /\ \A u \in Threads \ {t} : pc'[u] = pc[u]
    BY <1>0, <1>1, <1>6, GotoType
  <2>2. TypeThreads'
    BY <1>0, <1>6, <2>1 DEF TypeThreads
  <2>3. Holds'
    BY <1>0, <1>6, <2>1, HoldsFrame DEF Attempting
  <2> QED
    BY <1>6, <2>2, <2>3, TypePartsPrimed
<1>7. CASE ReserveForSend(t)
  <2>1. /\ receipts' \in Seq(Receipts) /\ DOMAIN receipts \subseteq DOMAIN receipts'
        /\ rcpt' \in [Threads -> Nat] /\ rcpt'[t] \in DOMAIN receipts'
        /\ \A u \in Threads \ {t} : rcpt'[u] = rcpt[u]
    <3>1. PICK i \in DOMAIN receipts' :
             /\ receipts' \in Seq(Receipts) /\ DOMAIN receipts \subseteq DOMAIN receipts'
             /\ rcpt' \in [Threads -> Nat] /\ rcpt'[t] = i
             /\ \A u \in Threads \ {t} : rcpt'[u] = rcpt[u]
      BY <1>0, <1>7, ReserveType, Zenon
    <3> QED
      BY <3>1
  <2>2. effect' \in [Kinds -> EffectStates]
    BY <1>0, <1>2, <1>7, EffectType DEF ReserveForSend, SetEffect
  <2>3. TypeRows' /\ TypeWorld'
    BY <1>0, <1>7, <2>1, <2>2 DEF ReserveForSend, TypeRows, TypeWorld, world, bounds
  <2>4. safe' \in [Threads -> BOOLEAN]
    BY <1>0, <1>7 DEF ReserveForSend, TypeThreads
  <2> QED
    BY <1>6, <1>7, <2>1, <2>3, <2>4 DEF ReserveForSend
<1>8. CASE ReserveWithoutTask(t)
  <2>1. Receipt("pending", FALSE, FALSE) \in Receipts /\ Len(receipts) + 1 \in Nat
    BY <1>0 DEF Receipt, Receipts, TypeRows
  <2>2. /\ receipts' \in Seq(Receipts) /\ DOMAIN receipts \subseteq DOMAIN receipts'
        /\ Len(receipts) + 1 \in DOMAIN receipts'
    BY <1>0, <1>8, <2>1, AppendType DEF ReserveWithoutTask
  <2>3. /\ rcpt' \in [Threads -> Nat] /\ rcpt'[t] \in DOMAIN receipts'
        /\ \A u \in Threads \ {t} : rcpt'[u] = rcpt[u]
    BY <1>0, <1>8, <2>1, <2>2 DEF ReserveWithoutTask, TypeThreads
  <2>4. TypeWorld' /\ safe' \in [Threads -> BOOLEAN]
    BY <1>0, <1>8 DEF ReserveWithoutTask, TypeWorld, TypeThreads, world, Fault
  <2>5. TypeRows'
    BY <1>0, <1>8, <2>2 DEF ReserveWithoutTask, TypeRows
  <2> QED
    BY <1>6, <1>8, <2>2, <2>3, <2>4, <2>5 DEF ReserveWithoutTask
<1>9. CASE MarkRoutineDeliveryDispatched(t) \/ DispatchFails(t)
  <2>1. effect' \in [Kinds -> EffectStates]
    BY <1>0, <1>2, <1>9, EffectType DEF MarkRoutineDeliveryDispatched, DispatchFails, SetEffect,
                                        durable, TypeRows
  <2>2. safe' \in [Threads -> BOOLEAN]
    BY <1>0, <1>9 DEF MarkRoutineDeliveryDispatched, DispatchFails, TypeThreads
  <2>3. TypeWorld'
    BY <1>0, <1>9 DEF MarkRoutineDeliveryDispatched, DispatchFails, TypeWorld, world, Fault
  <2>4. TypeRows'
    BY <1>0, <1>9, <2>1 DEF MarkRoutineDeliveryDispatched, DispatchFails, TypeRows, durable
  <2>5. UNCHANGED <<receipts, rcpt, kind, landed, outcome>>
    BY <1>9 DEF MarkRoutineDeliveryDispatched, DispatchFails, durable
  <2>6. rcpt[t] \in DOMAIN receipts /\ rcpt \in [Threads -> Nat]
    BY <1>0, <1>9 DEF MarkRoutineDeliveryDispatched, DispatchFails, Holds, Attempting, TypeThreads
  <2>7. \E s \in {"sending", "fail"} : Goto(t, s)
    BY <1>9 DEF MarkRoutineDeliveryDispatched, DispatchFails
  <2> QED
    BY <1>6, <2>2, <2>3, <2>4, <2>5, <2>6, <2>7
<1> QED
  BY <1>3, <1>5, <1>7, <1>8, <1>9

\* The channel and the record of an attempt keep the types.
LEMMA RecordTypes ==
    ASSUME TypeOK, NEW t \in Threads,
           \/ NoticeLands(t) \/ ProviderAccepts(t) \/ ProviderUnavailable(t) \/ ProviderUncertain(t)
           \/ FinishRoutineDelivery(t) \/ FinishFails(t) \/ FailRoutineDelivery(t)
           \/ FailureNotRecorded(t)
    PROVE  TypeOK'
<1>0. TypeRows /\ TypeThreads /\ Holds /\ TypeWorld
  BY TypeParts
<1>1. kind[t] \in Kinds /\ {"reserved", "verified"} \subseteq EffectStates
  BY <1>0 DEF TypeThreads, EffectStates
<1>2. Attempting(t) /\ rcpt[t] \in DOMAIN receipts
  BY <1>0 DEF Holds, Attempting, NoticeLands, ProviderAccepts, ProviderUnavailable,
              ProviderUncertain, FinishRoutineDelivery, FinishFails, FailRoutineDelivery,
              FailureNotRecorded
<1>3. TypeWorld'
  <2>0. CASE NoticeLands(t)
    <3>1. UNCHANGED <<orphans, pardons, sends, confirms, faults>> /\ sent' \in {sent, sent + 1}
      BY <2>0 DEF NoticeLands, bounds
    <3>2. stray' \in BOOLEAN
      BY <2>0, Zenon DEF NoticeLands
    <3> QED
      BY <1>0, <3>1, <3>2 DEF TypeWorld
  <2>1. CASE ProviderAccepts(t) \/ ProviderUnavailable(t) \/ ProviderUncertain(t)
    BY <1>0, <2>1 DEF ProviderAccepts, ProviderUnavailable, ProviderUncertain, TypeWorld, world,
                      bounds
  <2>2. CASE \/ FinishRoutineDelivery(t) \/ FinishFails(t) \/ FailRoutineDelivery(t)
             \/ FailureNotRecorded(t)
    BY <1>0, <2>2 DEF FinishRoutineDelivery, FinishFails, FailRoutineDelivery, FailureNotRecorded,
                      Fault, TypeWorld, world, bounds
  <2> QED
    BY <2>0, <2>1, <2>2
<1>4. ASSUME UNCHANGED <<effect, receipts, sched, task, due, kind, rcpt, outcome>>,
             landed' \in [Threads -> BOOLEAN], safe' \in [Threads -> BOOLEAN],
             UNCHANGED pc \/ \E s \in {"finish", "fail"} : Goto(t, s)
      PROVE  TypeOK'
  <2>0. {"finish", "fail"} \subseteq Steps
    BY DEF Steps
  <2>1. /\ pc' \in [Threads -> Steps] /\ \A u \in Threads \ {t} : pc'[u] = pc[u]
        /\ pc'[t] = pc[t] \/ pc'[t] \in {"finish", "fail"}
    BY <1>0, <1>4, <2>0, GotoType DEF TypeThreads
  <2>2. TypeThreads' /\ TypeRows'
    BY <1>0, <1>4, <2>1 DEF TypeThreads, TypeRows
  <2>3. Holds'
    BY <1>0, <1>2, <1>4, <2>1 DEF Holds, Attempting
  <2> QED
    BY <1>3, <2>2, <2>3, TypePartsPrimed
<1>5. CASE \/ NoticeLands(t) \/ ProviderAccepts(t) \/ ProviderUnavailable(t) \/ ProviderUncertain(t)
           \/ FinishFails(t)
  <2>1. landed' \in [Threads -> BOOLEAN] /\ safe' \in [Threads -> BOOLEAN]
    BY <1>0, <1>5 DEF NoticeLands, ProviderAccepts, ProviderUnavailable, ProviderUncertain,
                      FinishFails, TypeThreads
  <2>2. /\ UNCHANGED <<effect, receipts, sched, task, due, kind, rcpt, outcome>>
        /\ UNCHANGED pc \/ \E s \in {"finish", "fail"} : Goto(t, s)
    BY <1>5 DEF NoticeLands, ProviderAccepts, ProviderUnavailable, ProviderUncertain, FinishFails,
                durable
  <2> QED
    BY <1>4, <2>1, <2>2
<1>6. ASSUME NEW o \in {"delivered", "review", "retry"}, Return(t, o),
             UNCHANGED <<sched, task, due, kind>>, effect' \in [Kinds -> EffectStates],
             receipts' \in Seq(Receipts), DOMAIN receipts' = DOMAIN receipts
      PROVE  TypeOK'
  <2>0. o \in Outcomes \ {"none"}
    BY DEF Outcomes
  <2>1. TypeThreads'
    BY <1>0, <1>6, <2>0, ReturnType DEF TypeThreads
  <2>2. TypeRows'
    BY <1>0, <1>6 DEF TypeRows
  <2>3. /\ pc'[t] \in {"policy", "park"} /\ rcpt'[t] = 0
        /\ \A u \in Threads \ {t} : pc'[u] = pc[u] /\ rcpt'[u] = rcpt[u]
    BY <1>0, <1>6, <2>0, ReturnType
  <2>4. Holds'
    BY <1>0, <1>6, <2>3 DEF Holds, Attempting
  <2> QED
    BY <1>3, <2>1, <2>2, <2>4, TypePartsPrimed
<1>7. CASE FinishRoutineDelivery(t)
  <2> DEFINE r == receipts[rcpt[t]]
  <2>1. CASE r.state = "pending" /\ (r.bound => effect[kind[t]] = "executed")
    <3>1. /\ SettleReceipt(rcpt[t], "delivered") /\ Return(t, "delivered")
          /\ effect' = [effect EXCEPT ![kind[t]] = IF r.bound THEN "verified" ELSE effect[kind[t]]]
          /\ UNCHANGED <<sched, task, due, kind>>
      BY <1>7, <2>1 DEF FinishRoutineDelivery
    <3>2. receipts' \in Seq(Receipts) /\ DOMAIN receipts' = DOMAIN receipts
      BY <1>0, <1>2, <3>1, SettleType
    <3>3. effect' \in [Kinds -> EffectStates]
      BY <1>0, <1>1, <3>1 DEF TypeRows
    <3> QED
      BY <1>6, <3>1, <3>2, <3>3
  <2>2. CASE ~(r.state = "pending" /\ (r.bound => effect[kind[t]] = "executed"))
    <3>1. /\ Goto(t, "fail")
          /\ UNCHANGED <<effect, receipts, sched, task, due, kind, rcpt, landed, safe, outcome>>
      BY <1>7, <2>2 DEF FinishRoutineDelivery
    <3>2. landed' \in [Threads -> BOOLEAN] /\ safe' \in [Threads -> BOOLEAN]
      BY <1>0, <3>1 DEF TypeThreads
    <3> QED
      BY <1>4, <3>1, <3>2
  <2> QED
    BY <2>1, <2>2
<1>8. CASE FailRoutineDelivery(t)
  <2>1. receipts' \in Seq(Receipts) /\ DOMAIN receipts' = DOMAIN receipts
    BY <1>0, <1>2, <1>8, SettleType DEF FailRoutineDelivery
  <2>2. effect' \in [Kinds -> EffectStates]
    <3>1. \E e \in EffectStates : effect' = [effect EXCEPT ![kind[t]] = e]
      BY <1>0, <1>1, <1>8 DEF FailRoutineDelivery, TypeRows
    <3> QED
      BY <1>0, <1>1, <3>1, EffectType
  <2>3. \E o \in {"review", "retry"} : Return(t, o)
    BY <1>8 DEF FailRoutineDelivery
  <2> QED
    BY <1>6, <1>8, <2>1, <2>2, <2>3 DEF FailRoutineDelivery
<1>9. CASE FailureNotRecorded(t)
  BY <1>0, <1>6, <1>9 DEF FailureNotRecorded, durable, TypeRows
<1> QED
  BY <1>5, <1>7, <1>8, <1>9

\* apply_terminal_delivery_outcome keeps the types.
LEMMA ApplyTypes ==
    ASSUME TypeOK, NEW t \in Threads,
           \/ RecordResultPolicy(t) \/ ReconcileTask(t) \/ RecordStatus(t) \/ ParkSchedule(t)
           \/ BlockTask(t) \/ ApplyFails(t)
    PROVE  TypeOK'
<1>0. TypeRows /\ TypeThreads /\ Holds /\ TypeWorld
  BY TypeParts
<1>1. TypeWorld'
  BY <1>0 DEF RecordResultPolicy, ReconcileTask, RecordStatus, ParkSchedule, BlockTask, ApplyFails,
              Fault, TypeWorld, world, bounds
<1>2. sched' \in Scheds
  <2>1. CASE RecordResultPolicy(t)
    BY <1>0, <2>1 DEF RecordResultPolicy, TypeRows, Scheds
  <2>2. CASE RecordStatus(t)
    BY <1>0, <2>2 DEF RecordStatus, TypeRows, Scheds
  <2>3. CASE ParkSchedule(t)
    BY <2>3 DEF ParkSchedule, Scheds
  <2>4. CASE ReconcileTask(t) \/ BlockTask(t) \/ ApplyFails(t)
    BY <1>0, <2>4 DEF ReconcileTask, BlockTask, ApplyFails, TypeRows, durable
  <2> QED
    BY <2>1, <2>2, <2>3, <2>4
<1>3. TypeRows' /\ UNCHANGED receipts
  BY <1>0, <1>2 DEF RecordResultPolicy, ReconcileTask, RecordStatus, ParkSchedule, BlockTask,
                    ApplyFails, TypeRows, durable
<1>4. CASE RecordResultPolicy(t) \/ ReconcileTask(t) \/ ParkSchedule(t)
  <2>1. /\ pc[t] \in {"policy", "reconcile", "park"} /\ UNCHANGED <<kind, rcpt, landed, safe, outcome>>
        /\ \E s \in {"reconcile", "status", "block"} : Goto(t, s)
    BY <1>4 DEF RecordResultPolicy, ReconcileTask, ParkSchedule
  <2>2. /\ pc' \in [Threads -> Steps] /\ pc'[t] \in {"reconcile", "status", "block"}
        /\ \A u \in Threads \ {t} : pc'[u] = pc[u]
    <3>1. {"reconcile", "status", "block"} \subseteq Steps
      BY DEF Steps
    <3> QED
      BY <1>0, <2>1, <3>1, GotoType
  <2>3. TypeThreads'
    BY <1>0, <2>1, <2>2 DEF TypeThreads
  <2>4. Holds'
    BY <1>0, <1>3, <2>1, <2>2 DEF Holds, Attempting
  <2> QED
    BY <1>1, <1>3, <2>3, <2>4, TypePartsPrimed
<1>5. CASE RecordStatus(t) \/ BlockTask(t) \/ ApplyFails(t)
  <2>1. Leave({t})
    BY <1>5 DEF RecordStatus, BlockTask, ApplyFails
  <2>2. TypeThreads'
    BY <1>0, <2>1, LeaveType
  <2>3. /\ pc'[t] = "idle" /\ rcpt'[t] = 0
        /\ \A u \in Threads \ {t} : pc'[u] = pc[u] /\ rcpt'[u] = rcpt[u]
    BY <1>0, <2>1, LeaveType
  <2>4. Holds'
    BY <1>0, <1>3, <2>3 DEF Holds, Attempting
  <2> QED
    BY <1>1, <1>3, <2>2, <2>4, TypePartsPrimed
<1> QED
  BY <1>4, <1>5

\* So do the user, the ledger, time, late notices and crashes.
LEMMA OtherTypes ==
    ASSUME TypeOK,
           \/ \E i \in DOMAIN receipts : BackoffElapses(i)
           \/ OrphanLands \/ ConfirmTerminalDeliveryAbsent \/ LedgerReconciles \/ Crash
           \/ UNCHANGED vars
    PROVE  TypeOK'
<1>0. TypeRows /\ TypeThreads /\ Holds /\ TypeWorld
  BY TypeParts
<1>1. ASSUME UNCHANGED threads, TypeRows', DOMAIN receipts' = DOMAIN receipts, TypeWorld'
      PROVE  TypeOK'
  <2>1. TypeThreads' /\ Holds'
    BY <1>0, <1>1 DEF TypeThreads, Holds, Attempting, threads
  <2> QED
    BY <1>1, <2>1, TypePartsPrimed
<1>2. ASSUME NEW i \in DOMAIN receipts, BackoffElapses(i)
      PROVE  TypeOK'
  <2> DEFINE r == [receipts[i] EXCEPT !.aged = TRUE]
  <2>0. receipts[i] \in Receipts
    BY <1>0 DEF TypeRows
  <2>1. r \in Receipts
    BY <2>0 DEF Receipts
  <2>2. receipts' = [receipts EXCEPT ![i] = r]
    BY <1>2 DEF BackoffElapses
  <2> HIDE DEF r
  <2>3. receipts' \in Seq(Receipts) /\ DOMAIN receipts' = DOMAIN receipts
    BY <1>0, <2>1, <2>2, ReceiptType
  <2>4. TypeRows' /\ TypeWorld'
    BY <1>0, <1>2, <2>3 DEF BackoffElapses, TypeRows, TypeWorld, world, bounds
  <2> QED
    BY <1>1, <1>2, <2>3, <2>4 DEF BackoffElapses
<1>3. CASE OrphanLands \/ LedgerReconciles \/ UNCHANGED vars
  <2>1. TypeRows' /\ UNCHANGED <<receipts, threads>>
    BY <1>0, <1>3 DEF OrphanLands, LedgerReconciles, vars, durable, threads, TypeRows
  <2>2. TypeWorld'
    BY <1>0, <1>3 DEF OrphanLands, LedgerReconciles, vars, world, bounds, TypeWorld
  <2> QED
    BY <1>1, <2>1, <2>2
<1>4. CASE ConfirmTerminalDeliveryAbsent
  <2>1. Max(Uncertain) \in DOMAIN receipts
    <3>1. Uncertain \subseteq 1 .. Len(receipts) /\ Len(receipts) \in Nat /\ Uncertain # {}
      BY <1>0, <1>4 DEF TypeRows, Uncertain, Bound, ConfirmTerminalDeliveryAbsent
    <3>2. Max(Uncertain) \in Uncertain
      BY <3>1, LastPosition
    <3> QED
      BY <3>2 DEF Uncertain, Bound
  <2>2. Receipt("failed", TRUE, TRUE) \in Receipts
    BY DEF Receipt, Receipts
  <2>3. receipts' \in Seq(Receipts) /\ DOMAIN receipts' = DOMAIN receipts
    BY <1>0, <1>4, <2>1, <2>2, ReceiptType DEF ConfirmTerminalDeliveryAbsent
  <2>4. effect' \in [Kinds -> EffectStates]
    <3>1. PICK k \in Kinds : SetEffect(k, "reserved")
      BY <1>4 DEF ConfirmTerminalDeliveryAbsent
    <3> QED
      BY <1>0, <3>1, EffectType DEF SetEffect, EffectStates
  <2>5. sched' \in Scheds
    BY <1>4 DEF ConfirmTerminalDeliveryAbsent, Scheds
  <2>6. TypeRows'
    BY <1>0, <1>4, <2>3, <2>4, <2>5 DEF ConfirmTerminalDeliveryAbsent, TypeRows
  <2>7. TypeWorld'
    BY <1>0, <1>4 DEF ConfirmTerminalDeliveryAbsent, TypeWorld
  <2> QED
    BY <1>1, <1>4, <2>3, <2>6, <2>7 DEF ConfirmTerminalDeliveryAbsent
<1>5. CASE Crash
  <2>1. TypeRows' /\ UNCHANGED receipts
    BY <1>0, <1>5 DEF Crash, TypeRows, durable
  <2>2. TypeThreads' /\ \A t \in Threads : pc'[t] = "idle" /\ rcpt'[t] = 0
    BY <1>0, <1>5, LeaveType DEF Crash
  <2>3. Holds'
    BY <2>2 DEF Holds, Attempting
  <2>4. TypeWorld'
    BY <1>0, <1>5 DEF Crash, Fault, TypeWorld
  <2> QED
    BY <2>1, <2>2, <2>3, <2>4, TypePartsPrimed
<1> QED
  BY <1>2, <1>3, <1>4, <1>5

\* The types are inductive.
LEMMA TypesHold == Spec => []TypeOK
<1>1. Init => TypeOK
  <2> SUFFICES ASSUME Init PROVE TypeOK
    OBVIOUS
  <2>1. TypeRows
    <3>1. "absent" \in EffectStates /\ <<>> \in Seq(Receipts)
      BY DEF EffectStates
    <3>2. [active |-> TRUE, paused |-> "none", status |-> "Completed"] \in Scheds
      BY DEF Scheds
    <3>3. due \subseteq Threads
      BY DEF Init, Finishers, Threads
    <3> QED
      BY <3>1, <3>2, <3>3 DEF Init, TypeRows
  <2>2. TypeThreads
    BY DEF Init, TypeThreads, Steps, Kinds, Outcomes
  <2>3. Holds /\ TypeWorld
    BY DEF Init, Holds, TypeWorld, Attempting
  <2> QED
    BY <2>1, <2>2, <2>3, TypeParts
<1>2. TypeOK /\ [Next]_vars => TypeOK'
  <2> SUFFICES ASSUME TypeOK, [Next]_vars PROVE TypeOK'
    OBVIOUS
  <2>1. Scheduler \in Threads
    BY DEF Threads
  <2> QED
    BY <2>1, PrepareTypes, RecordTypes, ApplyTypes, OtherTypes DEF Next, DeliveryStep, FaultyStep
<1> QED
  BY <1>1, <1>2, PTL DEF Spec

\* A thread between its reservation and its outcome holds a receipt that
\* exists, and every row and local variable keeps its type: for every set of
\* permission threads and every fault.
THEOREM DeliveryTypes == Spec => []TypeOK
BY TypesHold, PTL

-----------------------------------------------------------------------------
(* The evidence                                                            *)

\* No step takes a delivered receipt back.
LEMMA DeliveredStays ==
    ASSUME TypeOK, [Next]_vars, SomeDelivered
    PROVE  SomeDelivered'
<1>0. TypeRows /\ TypeThreads /\ Holds
  BY TypeParts
<1>1. PICK i \in DOMAIN receipts : receipts[i].state = "delivered"
  BY DEF SomeDelivered
<1>2. ASSUME i \in DOMAIN receipts', receipts'[i] = receipts[i]
      PROVE  SomeDelivered'
  BY <1>1, <1>2 DEF SomeDelivered
<1>3. ASSUME UNCHANGED receipts
      PROVE  SomeDelivered'
  BY <1>2, <1>3
<1>4. ASSUME NEW t \in Threads, ReserveForSend(t)
      PROVE  SomeDelivered'
  <2>1. PICK n \in DOMAIN receipts' :
           /\ DOMAIN receipts \subseteq DOMAIN receipts'
           /\ \A j \in DOMAIN receipts : j # n => receipts'[j] = receipts[j]
           /\ n \in DOMAIN receipts => receipts[n].state # "delivered"
    BY <1>0, <1>4, ReserveType, Zenon
  <2> QED
    BY <1>1, <1>2, <2>1
<1>5. ASSUME NEW t \in Threads, ReserveWithoutTask(t)
      PROVE  SomeDelivered'
  <2>1. Receipt("pending", FALSE, FALSE) \in Receipts
    BY DEF Receipt, Receipts
  <2>2. /\ DOMAIN receipts \subseteq DOMAIN receipts'
        /\ \A j \in DOMAIN receipts : receipts'[j] = receipts[j]
    BY <1>0, <1>5, <2>1, AppendType DEF ReserveWithoutTask
  <2> QED
    BY <1>2, <2>2
<1>6. ASSUME NEW j \in DOMAIN receipts, NEW s \in {"failed", "delivered"}, SettleReceipt(j, s)
      PROVE  SomeDelivered'
  <2>1. i \in DOMAIN receipts' /\ receipts'[i].state = "delivered"
    BY <1>0, <1>1, <1>6, SettleType
  <2> QED
    BY <2>1 DEF SomeDelivered
<1>7. ASSUME NEW t \in Threads, FinishRoutineDelivery(t) \/ FailRoutineDelivery(t)
      PROVE  SomeDelivered'
  <2>1. rcpt[t] \in DOMAIN receipts
    BY <1>0, <1>7 DEF Holds, Attempting, FinishRoutineDelivery, FailRoutineDelivery
  <2> QED
    BY <1>3, <1>6, <1>7, <2>1 DEF FinishRoutineDelivery, FailRoutineDelivery
<1>8. ASSUME NEW t \in Threads,
             \/ StartDelivery(t) \/ AlreadyDelivered(t) \/ DispatchedBefore(t)
             \/ MarkRoutineDeliveryDispatched(t) \/ ProviderAccepts(t) \/ ProviderUnavailable(t)
             \/ ProviderUncertain(t) \/ RecordResultPolicy(t) \/ ReconcileTask(t)
             \/ RecordStatus(t) \/ ParkSchedule(t) \/ BlockTask(t) \/ NoticeLands(t)
             \/ ReservationFails(t) \/ DispatchFails(t) \/ FinishFails(t)
             \/ FailureNotRecorded(t) \/ ApplyFails(t)
      PROVE  UNCHANGED receipts
  BY <1>8 DEF StartDelivery, AlreadyDelivered, DispatchedBefore, MarkRoutineDeliveryDispatched,
       ProviderAccepts, ProviderUnavailable, ProviderUncertain, RecordResultPolicy, ReconcileTask,
       RecordStatus, ParkSchedule, BlockTask, NoticeLands, ReservationFails, DispatchFails,
       FinishFails, FailureNotRecorded, ApplyFails, durable
<1>9. ASSUME NEW j \in DOMAIN receipts, BackoffElapses(j)
      PROVE  SomeDelivered'
  BY <1>0, <1>1, <1>2, <1>9 DEF BackoffElapses, TypeRows
<1>10. CASE ConfirmTerminalDeliveryAbsent
  <2>1. Uncertain \subseteq 1 .. Len(receipts) /\ Len(receipts) \in Nat /\ Uncertain # {}
    BY <1>0, <1>10 DEF TypeRows, Uncertain, Bound, ConfirmTerminalDeliveryAbsent
  <2>2. Max(Uncertain) \in Uncertain
    BY <2>1, LastPosition
  <2>3. Max(Uncertain) # i
    BY <1>1, <2>2 DEF Uncertain
  <2> QED
    BY <1>0, <1>2, <1>10, <2>3 DEF ConfirmTerminalDeliveryAbsent, TypeRows
<1>11. CASE RetryPendingTerminalDelivery \/ OrphanLands \/ LedgerReconciles \/ Crash
            \/ UNCHANGED vars
  BY <1>3, <1>11 DEF RetryPendingTerminalDelivery, OrphanLands, LedgerReconciles, Crash, vars,
       durable
<1> QED
  BY <1>3, <1>4, <1>5, <1>7, <1>8, <1>9, <1>10, <1>11 DEF Next, DeliveryStep, FaultyStep

\* What a step has to keep for the evidence.
LEMMA EvidenceFrame ==
    ASSUME TypeOK, Evidence, Arrived => Arrived',
           SomeDelivered => SomeDelivered', SomeDelivered' => SomeDelivered \/ Arrived,
           \A t \in Threads : landed'[t] => landed[t] \/ Arrived',
           \A t \in Threads : pc'[t] = "finish" => landed'[t],
           \A k \in Kinds : effect'[k] = "verified" => effect[k] = "verified" \/ SomeDelivered',
           \A t \in Threads : pc'[t] \in {"policy", "reconcile", "status"} =>
                                 pc[t] \in {"policy", "reconcile", "status"} \/ SomeDelivered',
           sched'.paused = "completed" => sched.paused = "completed" \/ SomeDelivered'
    PROVE  Evidence'
<1>3. (\A t \in Threads : landed'[t] => Arrived') /\ (SomeDelivered' => Arrived')
  BY DEF Evidence
<1>4. /\ \A k \in Kinds : effect'[k] = "verified" => SomeDelivered'
      /\ \A t \in Threads : pc'[t] \in {"policy", "reconcile", "status"} => SomeDelivered'
      /\ sched'.paused = "completed" => SomeDelivered'
  BY DEF Evidence
<1>5. Evidence' <=>
         /\ \A t \in Threads : landed'[t] => Arrived'
         /\ \A t \in Threads : pc'[t] = "finish" => landed'[t]
         /\ SomeDelivered' => Arrived'
         /\ \A k \in Kinds : effect'[k] = "verified" => SomeDelivered'
         /\ \A t \in Threads : pc'[t] \in {"policy", "reconcile", "status"} => SomeDelivered'
         /\ sched'.paused = "completed" => SomeDelivered'
  BY DEF Evidence
<1> QED
  BY <1>3, <1>4, <1>5

\* The receipts and what arrived stay: a thread goes to a step that claims
\* nothing.
LEMMA QuietEvidence ==
    ASSUME TypeOK, Evidence, NEW t \in Threads, NEW s, s \notin {"finish", "policy", "reconcile", "status"},
           UNCHANGED <<receipts, sched, landed, sent, stray>>,
           pc'[t] = s, \A u \in Threads \ {t} : pc'[u] = pc[u],
           \A k \in Kinds : effect'[k] = "verified" => effect[k] = "verified"
    PROVE  Evidence'
<1>1. (SomeDelivered' <=> SomeDelivered) /\ (Arrived' <=> Arrived)
  BY DEF SomeDelivered, Arrived
<1>2. /\ \A u \in Threads : pc'[u] = "finish" => landed'[u]
      /\ \A u \in Threads : pc'[u] \in {"policy", "reconcile", "status"} =>
                                pc[u] \in {"policy", "reconcile", "status"}
  BY DEF Evidence
<1> QED
  BY <1>1, <1>2, EvidenceFrame DEF Arrived

\* The steps of a thread up to the channel keep the evidence.
LEMMA PrepareEvidence ==
    ASSUME TypeOK, Evidence, NEW t \in Threads, [Next]_vars,
           \/ StartDelivery(t) \/ AlreadyDelivered(t) \/ DispatchedBefore(t) \/ ReserveForSend(t)
           \/ ReserveWithoutTask(t) \/ ReservationFails(t) \/ MarkRoutineDeliveryDispatched(t)
           \/ DispatchFails(t) \/ (RetryPendingTerminalDelivery /\ t = Scheduler)
    PROVE  Evidence'
<1>0. TypeRows /\ TypeThreads /\ Holds /\ TypeWorld /\ kind[t] \in Kinds /\ sent \in Nat
  BY TypeParts DEF TypeThreads, TypeWorld
<1>1. {"reserve", "dispatch", "sending", "fail"} \subseteq Steps
  BY DEF Steps
<1>2. {"reserved", "executed", "verified"} \subseteq EffectStates
  BY DEF EffectStates
<1>3. CASE \/ StartDelivery(t) \/ MarkRoutineDeliveryDispatched(t) \/ DispatchFails(t)
           \/ (RetryPendingTerminalDelivery /\ t = Scheduler)
  <2>1. /\ UNCHANGED <<receipts, sched, landed, sent, stray>>
        /\ \E s \in {"reserve", "sending", "fail"} : Goto(t, s)
    BY <1>3 DEF StartDelivery, RetryPendingTerminalDelivery, MarkRoutineDeliveryDispatched,
                DispatchFails, durable, world
  <2>2. /\ pc'[t] \in {"reserve", "sending", "fail"}
        /\ \A u \in Threads \ {t} : pc'[u] = pc[u]
    BY <1>0, <1>1, <2>1, GotoType
  <2>3. \A k \in Kinds : effect'[k] = "verified" => effect[k] = "verified"
    <3>1. CASE UNCHANGED effect
      BY <3>1
    <3>2. CASE SetEffect(kind[t], "executed")
      BY <1>0, <1>2, <3>2, EffectType DEF SetEffect
    <3> QED
      BY <1>3, <3>1, <3>2 DEF StartDelivery, RetryPendingTerminalDelivery,
         MarkRoutineDeliveryDispatched, DispatchFails, durable
  <2> QED
    BY <2>1, <2>2, <2>3, QuietEvidence
<1>4. CASE AlreadyDelivered(t)
  <2>1. SomeDelivered /\ SomeDelivered'
    <3>1. CASE effect[kind[t]] = "verified"
      BY <1>0, <3>1, DeliveredStays DEF Evidence
    <3>2. CASE Delivered(Latest)
      BY <1>0, <3>2, LatestType, DeliveredStays DEF Delivered, SomeDelivered
    <3> QED
      BY <1>4, <3>1, <3>2 DEF AlreadyDelivered
  <2>2. /\ pc'[t] = "policy" /\ ~landed'[t]
        /\ \A u \in Threads \ {t} : pc'[u] = pc[u] /\ landed'[u] = landed[u]
    BY <1>0, <1>4, ReturnType DEF AlreadyDelivered, Outcomes
  <2>3. /\ \A u \in Threads : landed'[u] => landed[u]
        /\ \A u \in Threads : pc'[u] = "finish" => landed'[u]
    BY <2>2 DEF Evidence
  <2>4. sched' = sched /\ sent' = sent /\ stray' = stray
    BY <1>4 DEF AlreadyDelivered, world
  <2>5. Arrived
    BY <2>1 DEF Evidence
  <2> QED
    BY <1>0, <2>1, <2>3, <2>4, <2>5, EvidenceFrame DEF Arrived
<1>5. CASE DispatchedBefore(t) \/ ReservationFails(t)
  <2>1. /\ pc'[t] = "park" /\ ~landed'[t]
        /\ \A u \in Threads \ {t} : pc'[u] = pc[u] /\ landed'[u] = landed[u]
    BY <1>0, <1>5, ReturnType DEF DispatchedBefore, ReservationFails, Outcomes
  <2>2. /\ \A u \in Threads : landed'[u] => landed[u]
        /\ \A u \in Threads : pc'[u] = "finish" => landed'[u]
        /\ \A u \in Threads : pc'[u] \in {"policy", "reconcile", "status"} =>
                                  pc[u] \in {"policy", "reconcile", "status"}
    BY <2>1 DEF Evidence
  <2>3. effect' = effect /\ receipts' = receipts /\ sched' = sched /\ sent' = sent /\ stray' = stray
    BY <1>5 DEF DispatchedBefore, ReservationFails, durable, world
  <2>4. SomeDelivered' <=> SomeDelivered
    BY <2>3 DEF SomeDelivered
  <2> QED
    BY <1>0, <2>2, <2>3, <2>4, EvidenceFrame DEF Arrived
<1>6. ASSUME NEW n \in DOMAIN receipts', receipts'[n].state = "pending",
             \A j \in DOMAIN receipts' : j # n => j \in DOMAIN receipts /\ receipts'[j] = receipts[j],
             Goto(t, "dispatch"), UNCHANGED <<sched, landed, sent, stray>>,
             \A k \in Kinds : effect'[k] = "verified" => effect[k] = "verified"
      PROVE  Evidence'
  <2>1. (SomeDelivered => SomeDelivered') /\ (SomeDelivered' => SomeDelivered)
    BY <1>6, DeliveredStays DEF SomeDelivered
  <2>2. pc'[t] = "dispatch" /\ \A u \in Threads \ {t} : pc'[u] = pc[u]
    BY <1>0, <1>1, <1>6, GotoType
  <2>3. /\ \A u \in Threads : pc'[u] = "finish" => landed'[u]
        /\ \A u \in Threads : pc'[u] \in {"policy", "reconcile", "status"} =>
                                  pc[u] \in {"policy", "reconcile", "status"}
    BY <1>6, <2>2 DEF Evidence
  <2> QED
    BY <1>0, <1>6, <2>1, <2>3, EvidenceFrame DEF Arrived
<1>7. CASE ReserveForSend(t)
  <2>1. PICK n \in DOMAIN receipts' :
           /\ receipts'[n] = Receipt("pending", TRUE, FALSE)
           /\ receipts' = [j \in DOMAIN receipts \cup {n} |->
                              IF j = n THEN Receipt("pending", TRUE, FALSE) ELSE receipts[j]]
    BY <1>0, <1>7, ReserveType, Zenon
  <2>2. /\ receipts'[n].state = "pending"
        /\ \A j \in DOMAIN receipts' : j # n => j \in DOMAIN receipts /\ receipts'[j] = receipts[j]
    BY <2>1 DEF Receipt
  <2>3. \A k \in Kinds : effect'[k] = "verified" => effect[k] = "verified"
    BY <1>0, <1>2, <1>7, EffectType DEF ReserveForSend, SetEffect
  <2> QED
    BY <1>6, <1>7, <2>2, <2>3 DEF ReserveForSend, world
<1>8. CASE ReserveWithoutTask(t)
  <2> DEFINE r == Receipt("pending", FALSE, FALSE)
             n == Len(receipts) + 1
  <2>1. r \in Receipts /\ r.state = "pending"
    BY DEF Receipt, Receipts
  <2>2. receipts' = Append(receipts, r)
    BY <1>8 DEF ReserveWithoutTask
  <2> HIDE DEF r
  <2>3. /\ n \in DOMAIN receipts' /\ receipts'[n] = r
        /\ \A j \in DOMAIN receipts' : j # n => j \in DOMAIN receipts /\ receipts'[j] = receipts[j]
    BY <1>0, <2>1, <2>2 DEF TypeRows
  <2> QED
    BY <1>6, <1>8, <2>1, <2>3 DEF ReserveWithoutTask, world
<1> QED
  BY <1>3, <1>4, <1>5, <1>7, <1>8

\* The channel and the record of an attempt keep the evidence: what is recorded
\* as delivered was accepted by the provider.
LEMMA RecordEvidence ==
    ASSUME TypeOK, Evidence, NEW t \in Threads, [Next]_vars,
           \/ NoticeLands(t) \/ ProviderAccepts(t) \/ ProviderUnavailable(t) \/ ProviderUncertain(t)
           \/ FinishRoutineDelivery(t) \/ FinishFails(t) \/ FailRoutineDelivery(t)
           \/ FailureNotRecorded(t)
    PROVE  Evidence'
<1>0. TypeRows /\ TypeThreads /\ Holds /\ TypeWorld /\ kind[t] \in Kinds /\ sent \in Nat
  BY TypeParts DEF TypeThreads, TypeWorld
<1>1. {"finish", "fail"} \subseteq Steps /\ {"reserved", "verified"} \subseteq EffectStates
  BY DEF Steps, EffectStates
<1>2. CASE NoticeLands(t)
  <2>1. /\ UNCHANGED <<receipts, sched, effect, pc>>
        /\ landed' = [landed EXCEPT ![t] = TRUE]
    BY <1>2 DEF NoticeLands, durable
  <2>2. \A u \in Threads : landed'[u] = IF u = t THEN TRUE ELSE landed[u]
    BY <1>0, <2>1 DEF TypeThreads
  <2>3. \A u \in Threads : pc'[u] = "finish" => landed'[u]
    BY <2>1, <2>2 DEF Evidence
  <2>4. SomeDelivered' <=> SomeDelivered
    BY <2>1 DEF SomeDelivered
  <2>5. Arrived'
    <3>1. CASE Reserved(t)
      <4>1. sent' = sent + 1
        BY <1>2, <3>1 DEF NoticeLands
      <4>2. sent' > 0
        BY <1>0, <4>1
      <4> QED
        BY <4>2 DEF Arrived
    <3>2. CASE ~Reserved(t)
      <4>1. stray'
        BY <1>2, <3>2, Zenon DEF NoticeLands
      <4> QED
        BY <4>1, Zenon DEF Arrived
    <3> QED
      BY <3>1, <3>2
  <2> QED
    BY <2>1, <2>3, <2>4, <2>5, EvidenceFrame DEF Arrived
<1>3. CASE ProviderAccepts(t)
  <2>1. /\ UNCHANGED <<receipts, sched, effect, landed, sent, stray>> /\ landed[t]
        /\ pc'[t] = "finish" /\ \A u \in Threads \ {t} : pc'[u] = pc[u]
    BY <1>0, <1>1, <1>3, GotoType DEF ProviderAccepts, durable, world
  <2>2. /\ \A u \in Threads : pc'[u] = "finish" => landed'[u]
        /\ \A u \in Threads : pc'[u] \in {"policy", "reconcile", "status"} =>
                                  pc[u] \in {"policy", "reconcile", "status"}
    BY <2>1 DEF Evidence
  <2>3. SomeDelivered' <=> SomeDelivered
    BY <2>1 DEF SomeDelivered
  <2> QED
    BY <1>0, <2>1, <2>2, <2>3, EvidenceFrame DEF Arrived
<1>4. ASSUME Goto(t, "fail"), UNCHANGED <<receipts, sched, effect, landed, sent, stray>>
      PROVE  Evidence'
  <2>1. pc'[t] = "fail" /\ \A u \in Threads \ {t} : pc'[u] = pc[u]
    BY <1>0, <1>1, <1>4, GotoType
  <2> QED
    BY <1>4, <2>1, QuietEvidence
<1>5. CASE ProviderUnavailable(t) \/ ProviderUncertain(t) \/ FinishFails(t)
  BY <1>4, <1>5 DEF ProviderUnavailable, ProviderUncertain, FinishFails, durable, world
<1>6. ASSUME NEW o \in {"review", "retry"}, Return(t, o), UNCHANGED <<sched, sent, stray>>,
             SomeDelivered' => SomeDelivered,
             \A k \in Kinds : effect'[k] = "verified" => effect[k] = "verified"
      PROVE  Evidence'
  <2>1. /\ pc'[t] = "park" /\ ~landed'[t]
        /\ \A u \in Threads \ {t} : pc'[u] = pc[u] /\ landed'[u] = landed[u]
    BY <1>0, <1>6, ReturnType DEF Outcomes
  <2>2. /\ \A u \in Threads : landed'[u] => landed[u]
        /\ \A u \in Threads : pc'[u] = "finish" => landed'[u]
        /\ \A u \in Threads : pc'[u] \in {"policy", "reconcile", "status"} =>
                                  pc[u] \in {"policy", "reconcile", "status"}
    BY <2>1 DEF Evidence
  <2> QED
    BY <1>0, <1>6, <2>2, DeliveredStays, EvidenceFrame DEF Arrived
<1>7. CASE FinishRoutineDelivery(t)
  <2> DEFINE r == receipts[rcpt[t]]
  <2>1. CASE r.state = "pending" /\ (r.bound => effect[kind[t]] = "executed")
    <3>1. /\ SettleReceipt(rcpt[t], "delivered") /\ Return(t, "delivered")
          /\ UNCHANGED <<sched, sent, stray>> /\ pc[t] = "finish"
      BY <1>7, <2>1 DEF FinishRoutineDelivery, world
    <3>2. rcpt[t] \in DOMAIN receipts
      BY <1>0, <3>1 DEF Holds, Attempting
    <3>3. SomeDelivered'
      BY <1>0, <2>1, <3>1, <3>2, SettleType DEF SomeDelivered
    <3>4. /\ ~landed'[t] /\ pc'[t] = "policy"
          /\ \A u \in Threads \ {t} : pc'[u] = pc[u] /\ landed'[u] = landed[u]
      BY <1>0, <3>1, ReturnType DEF Outcomes
    <3>5. /\ \A u \in Threads : landed'[u] => landed[u]
          /\ \A u \in Threads : pc'[u] = "finish" => landed'[u]
          /\ Arrived
      BY <3>1, <3>4 DEF Evidence
    <3> QED
      BY <1>0, <3>1, <3>3, <3>5, EvidenceFrame DEF Arrived
  <2>2. CASE ~(r.state = "pending" /\ (r.bound => effect[kind[t]] = "executed"))
    BY <1>4, <1>7, <2>2 DEF FinishRoutineDelivery, world
  <2> QED
    BY <2>1, <2>2
<1>8. CASE FailRoutineDelivery(t)
  <2>1. rcpt[t] \in DOMAIN receipts /\ SettleReceipt(rcpt[t], "failed")
    BY <1>0, <1>8 DEF FailRoutineDelivery, Holds, Attempting
  <2>2. SomeDelivered' => SomeDelivered
    <3>1. /\ DOMAIN receipts' = DOMAIN receipts
          /\ receipts'[rcpt[t]].state = "delivered" => receipts[rcpt[t]].state = "delivered"
          /\ \A j \in DOMAIN receipts : j # rcpt[t] => receipts'[j] = receipts[j]
      BY <1>0, <2>1, SettleType
    <3> QED
      BY <2>1, <3>1 DEF SomeDelivered
  <2>3. \A k \in Kinds : effect'[k] = "verified" => effect[k] = "verified"
    BY <1>0, <1>8 DEF FailRoutineDelivery, TypeRows
  <2>4. \E o \in {"review", "retry"} : Return(t, o)
    BY <1>8 DEF FailRoutineDelivery
  <2> QED
    BY <1>6, <1>8, <2>2, <2>3, <2>4 DEF FailRoutineDelivery, world
<1>9. CASE FailureNotRecorded(t)
  BY <1>6, <1>9 DEF FailureNotRecorded, durable, world, SomeDelivered
<1> QED
  BY <1>2, <1>3, <1>5, <1>7, <1>8, <1>9

\* apply_terminal_delivery_outcome closes the routine on the evidence it has.
LEMMA ApplyEvidence ==
    ASSUME TypeOK, Evidence, NEW t \in Threads,
           \/ RecordResultPolicy(t) \/ ReconcileTask(t) \/ RecordStatus(t) \/ ParkSchedule(t)
           \/ BlockTask(t) \/ ApplyFails(t)
    PROVE  Evidence'
<1>0. TypeRows /\ TypeThreads /\ sent \in Nat
  BY TypeParts DEF TypeWorld
<1>1. UNCHANGED <<effect, receipts, sent, stray>>
  BY DEF RecordResultPolicy, ReconcileTask, RecordStatus, ParkSchedule, BlockTask, ApplyFails,
         durable, world
<1>2. SomeDelivered' <=> SomeDelivered
  BY <1>1 DEF SomeDelivered
<1>3. sched'.paused = "completed" => sched.paused = "completed" \/ SomeDelivered'
  <2>1. CASE RecordResultPolicy(t)
    BY <1>2, <2>1 DEF RecordResultPolicy, Evidence
  <2>2. CASE RecordStatus(t)
    BY <1>0, <2>2 DEF RecordStatus, TypeRows, Scheds
  <2>3. CASE ParkSchedule(t)
    BY <2>3 DEF ParkSchedule
  <2>4. CASE ReconcileTask(t) \/ BlockTask(t) \/ ApplyFails(t)
    BY <2>4 DEF ReconcileTask, BlockTask, ApplyFails, durable
  <2> QED
    BY <2>1, <2>2, <2>3, <2>4
<1>4. ASSUME \A u \in Threads : landed'[u] => landed[u],
             \A u \in Threads : pc'[u] = "finish" => landed'[u],
             \A u \in Threads : pc'[u] \in {"policy", "reconcile", "status"} =>
                                   pc[u] \in {"policy", "reconcile", "status"}
      PROVE  Evidence'
  BY <1>0, <1>1, <1>2, <1>3, <1>4, EvidenceFrame DEF Arrived
<1>5. CASE RecordResultPolicy(t) \/ ReconcileTask(t) \/ ParkSchedule(t)
  <2>0. {"reconcile", "status", "block"} \subseteq Steps
    BY DEF Steps
  <2>1. /\ landed' = landed
        /\ \/ pc[t] \in {"policy", "reconcile"} /\ pc'[t] \in {"reconcile", "status"}
           \/ pc'[t] = "block"
        /\ \A u \in Threads \ {t} : pc'[u] = pc[u]
    BY <1>0, <1>5, <2>0, GotoType DEF RecordResultPolicy, ReconcileTask, ParkSchedule
  <2> QED
    BY <1>4, <2>1 DEF Evidence
<1>6. CASE RecordStatus(t) \/ BlockTask(t) \/ ApplyFails(t)
  <2>1. Leave({t})
    BY <1>6 DEF RecordStatus, BlockTask, ApplyFails
  <2>2. /\ pc'[t] = "idle" /\ ~landed'[t]
        /\ \A u \in Threads \ {t} : pc'[u] = pc[u] /\ landed'[u] = landed[u]
    BY <1>0, <2>1, LeaveType
  <2> QED
    BY <1>4, <2>2 DEF Evidence
<1> QED
  BY <1>5, <1>6

\* The user, the ledger, time, late notices and crashes keep the evidence.
LEMMA OtherEvidence ==
    ASSUME TypeOK, Evidence, [Next]_vars,
           \/ \E i \in DOMAIN receipts : BackoffElapses(i)
           \/ OrphanLands \/ ConfirmTerminalDeliveryAbsent \/ LedgerReconciles \/ Crash
           \/ UNCHANGED vars
    PROVE  Evidence'
<1>0. TypeRows /\ TypeThreads /\ TypeWorld /\ sent \in Nat
  BY TypeParts DEF TypeWorld
<1>1. Arrived => Arrived'
  <2>1. sent' \in {sent, sent + 1} /\ stray' = stray
    BY DEF BackoffElapses, OrphanLands, ConfirmTerminalDeliveryAbsent, LedgerReconciles, Crash, vars,
           world
  <2> QED
    BY <1>0, <2>1 DEF Arrived
<1>2. SomeDelivered' => SomeDelivered
  <2>1. CASE UNCHANGED receipts
    BY <2>1 DEF SomeDelivered
  <2>2. ASSUME NEW i \in DOMAIN receipts, BackoffElapses(i)
        PROVE  SomeDelivered' => SomeDelivered
    <3>1. /\ DOMAIN receipts' = DOMAIN receipts
          /\ receipts'[i] = [receipts[i] EXCEPT !.aged = TRUE]
          /\ \A j \in DOMAIN receipts : j # i => receipts'[j] = receipts[j]
      BY <1>0, <2>2 DEF BackoffElapses, TypeRows
    <3>2. receipts'[i].state = receipts[i].state
      BY <1>0, <3>1 DEF TypeRows, Receipts
    <3> QED
      BY <3>1, <3>2 DEF SomeDelivered
  <2>3. CASE ConfirmTerminalDeliveryAbsent
    <3>1. receipts' = [receipts EXCEPT ![Max(Uncertain)] = Receipt("failed", TRUE, TRUE)]
      BY <2>3 DEF ConfirmTerminalDeliveryAbsent
    <3>2. Receipt("failed", TRUE, TRUE).state = "failed"
      BY DEF Receipt
    <3>3. \A j \in DOMAIN receipts' :
             j \in DOMAIN receipts /\ (receipts'[j] = receipts[j] \/ receipts'[j].state = "failed")
      BY <1>0, <3>1, <3>2 DEF TypeRows
    <3> QED
      BY <3>3 DEF SomeDelivered
  <2> QED
    BY <2>1, <2>2, <2>3 DEF OrphanLands, LedgerReconciles, Crash, vars, durable
<1>3. /\ \A u \in Threads : landed'[u] => landed[u]
      /\ \A u \in Threads : pc'[u] = "finish" => landed'[u]
      /\ \A u \in Threads : pc'[u] \in {"policy", "reconcile", "status"} =>
                                pc[u] \in {"policy", "reconcile", "status"}
  <2>1. CASE UNCHANGED <<pc, landed>>
    BY <2>1 DEF Evidence
  <2>2. CASE Crash
    BY <1>0, <2>2, LeaveType DEF Crash
  <2> QED
    BY <2>1, <2>2 DEF BackoffElapses, OrphanLands, ConfirmTerminalDeliveryAbsent, LedgerReconciles,
       vars, threads
<1>4. \A k \in Kinds : effect'[k] = "verified" => effect[k] = "verified"
  <2>1. CASE UNCHANGED effect
    BY <2>1
  <2>2. ASSUME NEW j \in Kinds, SetEffect(j, "reserved")
        PROVE  \A k \in Kinds : effect'[k] = "verified" => effect[k] = "verified"
    BY <1>0, <2>2 DEF SetEffect, TypeRows
  <2> QED
    BY <2>1, <2>2 DEF BackoffElapses, OrphanLands, ConfirmTerminalDeliveryAbsent, LedgerReconciles,
       Crash, vars, durable
<1>5. sched'.paused = "completed" => sched.paused = "completed"
  <2>1. CASE ConfirmTerminalDeliveryAbsent
    BY <2>1 DEF ConfirmTerminalDeliveryAbsent
  <2>2. CASE ~ConfirmTerminalDeliveryAbsent
    BY <2>2 DEF BackoffElapses, OrphanLands, LedgerReconciles, Crash, vars, durable
  <2> QED
    BY <2>1, <2>2
<1> QED
  BY <1>1, <1>2, <1>3, <1>4, <1>5, DeliveredStays, EvidenceFrame DEF Arrived

\* A one-shot routine is closed only when its notice has arrived and a receipt
\* says so, whatever the run ended with and whatever fails on the way, a lost
\* task lookup included (record_schedule_result_policy after
\* deliver_routine_notice).
THEOREM DeliveryClosedIsDelivered == Spec => []ClosedIsDelivered
<1>1. Init => Evidence
  <2> SUFFICES ASSUME Init PROVE Evidence
    OBVIOUS
  <2>1. \A t \in Threads : ~landed[t] /\ pc[t] = "idle"
    BY DEF Init
  <2>2. ~SomeDelivered /\ \A k \in Kinds : effect[k] # "verified"
    BY DEF Init, SomeDelivered
  <2>3. sched.paused # "completed"
    BY DEF Init
  <2> QED
    BY <2>1, <2>2, <2>3 DEF Evidence
<1>2. TypeOK /\ Evidence /\ [Next]_vars => Evidence'
  <2> SUFFICES ASSUME TypeOK, Evidence, [Next]_vars PROVE Evidence'
    OBVIOUS
  <2>1. Scheduler \in Threads
    BY DEF Threads
  <2> QED
    BY <2>1, PrepareEvidence, RecordEvidence, ApplyEvidence, OtherEvidence
       DEF Next, DeliveryStep, FaultyStep
<1>3. Evidence => ClosedIsDelivered
  BY DEF Evidence, ClosedIsDelivered, SomeDelivered, Arrived
<1> QED
  BY <1>1, <1>2, <1>3, DeliveryTypes, PTL DEF Spec

-----------------------------------------------------------------------------
(* A new receipt needs a new key                                           *)

Keys == {k \in Kinds : effect[k] # "absent"}

\* A key that exists has brought a receipt of the task with it.
KeysPay ==
    /\ IsFiniteSet(Bound) /\ OneReceiptPerKey
    /\ Keys # {} => Bound # {}

\* There are two keys at most.
LEMMA KeysFinite == IsFiniteSet(Keys) /\ IsFiniteSet(Keys')
<1>1. IsFiniteSet(Kinds)
  <2>1. IsFiniteSet({"completed"}) /\ Kinds = {"completed"} \cup {"completed_empty"}
    BY FS_Singleton DEF Kinds
  <2> QED
    BY <2>1, FS_AddElement
<1>2. Keys \subseteq Kinds /\ Keys' \subseteq Kinds
  BY DEF Keys
<1> QED
  BY <1>1, <1>2, FS_Subset

\* Steps that bind no further receipt and forget no key.
LEMMA KeysFrame ==
    ASSUME KeysPay, Bound' = Bound, Keys' = Keys
    PROVE  KeysPay'
BY DEF KeysPay, OneReceiptPerKey, Keys

\* A reservation binds a new receipt only together with a new key.
LEMMA ReserveKeys ==
    ASSUME TypeOK, KeysPay, NEW t \in Threads, ReserveForSend(t)
    PROVE  KeysPay'
<1>0. TypeRows /\ TypeThreads /\ kind[t] \in Kinds /\ Len(receipts) \in Nat
      /\ DOMAIN receipts = 1 .. Len(receipts)
  BY TypeParts DEF TypeThreads, TypeRows
<1>1. PICK i \in DOMAIN receipts' :
         /\ i = IF effect[kind[t]] = "reserved" /\ Latest > 0 THEN Latest ELSE Len(receipts) + 1
         /\ receipts' = [j \in DOMAIN receipts \cup {i} |->
                           IF j = i THEN Receipt("pending", TRUE, FALSE) ELSE receipts[j]]
  BY <1>0, ReserveType, Zenon
<1>2. Bound' = Bound \cup {i}
  <2>1. Receipt("pending", TRUE, FALSE).bound = TRUE
    BY DEF Receipt
  <2> QED
    BY <1>1, <2>1 DEF Bound
<1>3. Keys' = Keys \cup {kind[t]} /\ effect[kind[t]] \in {"absent", "reserved"}
  <2>1. /\ effect'[kind[t]] = "reserved" /\ effect[kind[t]] \in {"absent", "reserved"}
        /\ \A j \in Kinds \ {kind[t]} : effect'[j] = effect[j]
    BY <1>0, EffectType DEF ReserveForSend, SetEffect, EffectStates
  <2> QED
    BY <1>0, <2>1 DEF Keys
<1>4. CASE effect[kind[t]] = "reserved"
  <2>1. kind[t] \in Keys
    BY <1>0, <1>4 DEF Keys
  <2>2. Latest # 0 /\ Latest \in Nat /\ Latest \in DOMAIN receipts /\ receipts[Latest].bound
    BY <1>0, <2>1, LatestType DEF KeysPay
  <2>3. i \in Bound
    BY <1>1, <1>4, <2>2 DEF Bound
  <2> QED
    BY <1>2, <1>3, <2>1, <2>3, KeysFrame
<1>5. CASE effect[kind[t]] = "absent"
  <2>1. kind[t] \notin Keys /\ i \notin Bound
    BY <1>0, <1>1, <1>5 DEF Keys, Bound
  <2>2. /\ IsFiniteSet(Bound') /\ Cardinality(Bound') = Cardinality(Bound) + 1
        /\ Cardinality(Bound) \in Nat
    BY <1>2, <2>1, FS_AddElement, FS_CardinalityType DEF KeysPay
  <2>3. Cardinality(Keys') = Cardinality(Keys) + 1 /\ Cardinality(Keys) \in Nat
    BY <1>3, <2>1, KeysFinite, FS_AddElement, FS_CardinalityType
  <2>4. Cardinality(Bound) <= Cardinality(Keys)
    BY DEF KeysPay, OneReceiptPerKey, Keys
  <2>5. Cardinality(Bound') <= Cardinality(Keys')
    BY <2>2, <2>3, <2>4
  <2> QED
    BY <1>2, <2>2, <2>5 DEF KeysPay, OneReceiptPerKey, Keys
<1> QED
  BY <1>3, <1>4, <1>5

\* No other step binds a receipt or forgets a key.
LEMMA StepKeys ==
    ASSUME TypeOK, KeysPay, [Next]_vars
    PROVE  KeysPay'
<1>0. TypeRows /\ TypeThreads /\ Holds
  BY TypeParts
<1>1. ASSUME UNCHANGED receipts
      PROVE  Bound' = Bound
  BY <1>1 DEF Bound
<1>2. ASSUME UNCHANGED effect
      PROVE  Keys' = Keys
  BY <1>2 DEF Keys
<1>3. ASSUME NEW k \in Kinds, NEW e \in EffectStates \ {"absent"}, effect[k] # "absent",
             effect' = [effect EXCEPT ![k] = e]
      PROVE  Keys' = Keys
  <2>1. effect'[k] = e /\ \A j \in Kinds \ {k} : effect'[j] = effect[j]
    BY <1>0, <1>3, EffectType
  <2> QED
    BY <1>3, <2>1 DEF Keys
<1>4. ASSUME NEW i \in DOMAIN receipts, NEW r \in Receipts, r.bound = receipts[i].bound,
             receipts' = [receipts EXCEPT ![i] = r]
      PROVE  Bound' = Bound
  <2>1. /\ DOMAIN receipts' = DOMAIN receipts /\ receipts'[i] = r
        /\ \A j \in DOMAIN receipts : j # i => receipts'[j] = receipts[j]
    BY <1>0, <1>4, ReceiptType
  <2> QED
    BY <1>4, <2>1 DEF Bound
<1>5. ASSUME NEW i \in DOMAIN receipts, NEW s \in {"failed", "delivered"}, SettleReceipt(i, s)
      PROVE  Bound' = Bound
  <2>1. /\ DOMAIN receipts' = DOMAIN receipts /\ receipts'[i].bound = receipts[i].bound
        /\ \A j \in DOMAIN receipts : j # i => receipts'[j] = receipts[j]
    BY <1>0, <1>5, SettleType
  <2> QED
    BY <2>1 DEF Bound
<1>6. ASSUME NEW t \in Threads,
             \/ StartDelivery(t) \/ DispatchedBefore(t) \/ ProviderAccepts(t)
             \/ ProviderUnavailable(t) \/ ProviderUncertain(t) \/ RecordResultPolicy(t)
             \/ ReconcileTask(t) \/ RecordStatus(t) \/ ParkSchedule(t) \/ BlockTask(t)
             \/ NoticeLands(t) \/ ReservationFails(t) \/ DispatchFails(t) \/ FinishFails(t)
             \/ FailureNotRecorded(t) \/ ApplyFails(t)
      PROVE  KeysPay'
  <2>1. UNCHANGED <<effect, receipts>>
    BY <1>6 DEF StartDelivery, DispatchedBefore, ProviderAccepts, ProviderUnavailable,
         ProviderUncertain, RecordResultPolicy, ReconcileTask, RecordStatus, ParkSchedule,
         BlockTask, NoticeLands, ReservationFails, DispatchFails, FinishFails,
         FailureNotRecorded, ApplyFails, durable
  <2> QED
    BY <1>1, <1>2, <2>1, KeysFrame
<1>7. ASSUME NEW t \in Threads, AlreadyDelivered(t) \/ MarkRoutineDeliveryDispatched(t)
      PROVE  KeysPay'
  <2>1. UNCHANGED receipts /\ kind[t] \in Kinds
    BY <1>0, <1>7 DEF AlreadyDelivered, MarkRoutineDeliveryDispatched, TypeThreads
  <2>2. \/ UNCHANGED effect
        \/ effect[kind[t]] # "absent" /\ \E e \in {"verified", "executed"} : SetEffect(kind[t], e)
    BY <1>7 DEF AlreadyDelivered, MarkRoutineDeliveryDispatched
  <2>3. Keys' = Keys
    BY <1>2, <1>3, <2>1, <2>2 DEF SetEffect, EffectStates
  <2> QED
    BY <1>1, <2>1, <2>3, KeysFrame
<1>8. ASSUME NEW t \in Threads, FinishRoutineDelivery(t)
      PROVE  KeysPay'
  <2>1. rcpt[t] \in DOMAIN receipts /\ kind[t] \in Kinds
    BY <1>0, <1>8 DEF FinishRoutineDelivery, Holds, Attempting, TypeThreads
  <2> DEFINE r == receipts[rcpt[t]]
  <2>2. CASE r.state = "pending" /\ (r.bound => effect[kind[t]] = "executed")
    <3>1. /\ SettleReceipt(rcpt[t], "delivered")
          /\ effect' = [effect EXCEPT ![kind[t]] = IF r.bound THEN "verified" ELSE effect[kind[t]]]
      BY <1>8, <2>2 DEF FinishRoutineDelivery
    <3>2. Bound' = Bound
      BY <1>5, <2>1, <3>1
    <3>3. Keys' = Keys
      <4>1. CASE r.bound
        <5>1. effect' = [effect EXCEPT ![kind[t]] = "verified"] /\ effect[kind[t]] = "executed"
          BY <2>2, <3>1, <4>1
        <5> QED
          BY <1>3, <2>1, <5>1 DEF EffectStates
      <4>2. CASE ~r.bound
        <5>1. effect' = effect
          BY <1>0, <2>1, <3>1, <4>2 DEF TypeRows
        <5> QED
          BY <1>2, <5>1
      <4> QED
        BY <4>1, <4>2
    <3> QED
      BY <3>2, <3>3, KeysFrame
  <2>3. CASE ~(r.state = "pending" /\ (r.bound => effect[kind[t]] = "executed"))
    <3>1. UNCHANGED <<effect, receipts>>
      BY <1>8, <2>3 DEF FinishRoutineDelivery
    <3> QED
      BY <1>1, <1>2, <3>1, KeysFrame
  <2> QED
    BY <2>2, <2>3
<1>9. ASSUME NEW t \in Threads, FailRoutineDelivery(t)
      PROVE  KeysPay'
  <2>1. rcpt[t] \in DOMAIN receipts /\ kind[t] \in Kinds
    BY <1>0, <1>9 DEF FailRoutineDelivery, Holds, Attempting, TypeThreads
  <2>2. Bound' = Bound
    BY <1>5, <1>9, <2>1 DEF FailRoutineDelivery
  <2> DEFINE back == safe[t] /\ receipts[rcpt[t]].bound /\ effect[kind[t]] = "executed"
  <2>3. effect' = [effect EXCEPT ![kind[t]] = IF back THEN "reserved" ELSE effect[kind[t]]]
    BY <1>9 DEF FailRoutineDelivery
  <2>4. CASE back
    <3>1. effect' = [effect EXCEPT ![kind[t]] = "reserved"] /\ effect[kind[t]] = "executed"
      BY <2>3, <2>4
    <3>2. Keys' = Keys
      BY <1>3, <2>1, <3>1 DEF EffectStates
    <3> QED
      BY <2>2, <3>2, KeysFrame
  <2>5. CASE ~back
    <3>1. effect' = effect
      BY <1>0, <2>1, <2>3, <2>5 DEF TypeRows
    <3> QED
      BY <1>2, <2>2, <3>1, KeysFrame
  <2> QED
    BY <2>4, <2>5
<1>10. ASSUME NEW t \in Threads, ReserveWithoutTask(t)
       PROVE  KeysPay'
  <2>1. receipts' = Append(receipts, Receipt("pending", FALSE, FALSE)) /\ UNCHANGED effect
    BY <1>10 DEF ReserveWithoutTask
  <2> DEFINE r == Receipt("pending", FALSE, FALSE)
  <2>2. receipts' = Append(receipts, r)
    BY <2>1
  <2>3. r \in Receipts /\ r.bound = FALSE
    BY DEF Receipt, Receipts
  <2> HIDE DEF r
  <2>4. PICK n \in Nat : n = Len(receipts) /\ DOMAIN receipts = 1 .. n
    BY <1>0 DEF TypeRows
  <2>5. /\ receipts'[n + 1] = r /\ \A j \in 1 .. n : receipts'[j] = receipts[j]
        /\ DOMAIN receipts' = 1 .. n + 1
    <3>1. receipts \in Seq(Receipts)
      BY <1>0 DEF TypeRows
    <3> QED
      BY <2>2, <2>3, <2>4, <3>1, AppendProperties
  <2>6. \A j \in 1 .. n + 1 : j \in 1 .. n \/ j = n + 1
    BY <2>4
  <2>7. \A j \in 1 .. n : j \in 1 .. n + 1
    BY <2>4
  <2>8. Bound' = Bound
    BY <2>3, <2>4, <2>5, <2>6, <2>7 DEF Bound
  <2> QED
    BY <1>2, <2>1, <2>8, KeysFrame
<1>11. ASSUME NEW i \in DOMAIN receipts, BackoffElapses(i)
       PROVE  KeysPay'
  <2> DEFINE r == [receipts[i] EXCEPT !.aged = TRUE]
  <2>1. receipts[i] \in Receipts
    BY <1>0 DEF TypeRows
  <2>2. r \in Receipts /\ r.bound = receipts[i].bound
    BY <2>1 DEF Receipts
  <2>3. receipts' = [receipts EXCEPT ![i] = r] /\ UNCHANGED effect
    BY <1>11 DEF BackoffElapses
  <2> HIDE DEF r
  <2> QED
    BY <1>2, <1>4, <2>2, <2>3, KeysFrame
<1>12. CASE ConfirmTerminalDeliveryAbsent
  <2>1. Uncertain \subseteq 1 .. Len(receipts) /\ Len(receipts) \in Nat /\ Uncertain # {}
    BY <1>0, <1>12 DEF TypeRows, Uncertain, Bound, ConfirmTerminalDeliveryAbsent
  <2>2. Max(Uncertain) \in Uncertain
    BY <2>1, LastPosition
  <2> DEFINE i == Max(Uncertain)
             r == Receipt("failed", TRUE, TRUE)
  <2>3. i \in DOMAIN receipts /\ receipts[i].bound
    BY <2>2 DEF Uncertain, Bound
  <2>4. r \in Receipts /\ r.bound = TRUE
    BY DEF Receipt, Receipts
  <2>5. receipts' = [receipts EXCEPT ![i] = r]
    BY <1>12 DEF ConfirmTerminalDeliveryAbsent
  <2> HIDE DEF i, r
  <2>6. Bound' = Bound
    <3>1. /\ DOMAIN receipts' = DOMAIN receipts /\ receipts'[i] = r
          /\ \A j \in DOMAIN receipts : j # i => receipts'[j] = receipts[j]
      BY <1>0, <2>3, <2>4, <2>5, ReceiptType
    <3> QED
      BY <2>3, <2>4, <3>1 DEF Bound
  <2>7. PICK k \in Kinds : effect[k] = "executed" /\ SetEffect(k, "reserved")
    BY <1>12 DEF ConfirmTerminalDeliveryAbsent
  <2>8. Keys' = Keys
    BY <1>3, <2>7 DEF SetEffect, EffectStates
  <2> QED
    BY <2>6, <2>8, KeysFrame
<1>13. CASE RetryPendingTerminalDelivery \/ OrphanLands \/ LedgerReconciles \/ Crash
            \/ UNCHANGED vars
  <2>1. UNCHANGED <<effect, receipts>>
    BY <1>13 DEF RetryPendingTerminalDelivery, OrphanLands, LedgerReconciles, Crash, vars, durable
  <2> QED
    BY <1>1, <1>2, <2>1, KeysFrame
<1> QED
  BY ReserveKeys, <1>6, <1>7, <1>8, <1>9, <1>10, <1>11, <1>12, <1>13
     DEF Next, DeliveryStep, FaultyStep

\* However often the delivery of a routine fails, is confirmed as absent, is cut
\* off by a crash or raced by other threads that finish the run,
\* reserve_routine_delivery works on a receipt the task has: it has no more
\* receipts than idempotency keys, for every set of threads and every fault.
THEOREM DeliveryOneReceiptPerKey == Spec => []OneReceiptPerKey
<1>1. Init => KeysPay
  <2> SUFFICES ASSUME Init PROVE KeysPay
    OBVIOUS
  <2>1. Bound = {} /\ Keys = {}
    BY DEF Init, Bound, Keys
  <2> QED
    BY <2>1, FS_EmptySet DEF KeysPay, OneReceiptPerKey, Keys
<1>2. TypeOK /\ KeysPay /\ [Next]_vars => KeysPay'
  BY StepKeys
<1>3. KeysPay => OneReceiptPerKey
  BY DEF KeysPay
<1> QED
  BY <1>1, <1>2, <1>3, TypesHold, PTL DEF Spec

-----------------------------------------------------------------------------
(* Before the first delivery                                               *)

\* Only the thread that finishes the run begins anything, and it begins once.
LEMMA StepNothingYet ==
    ASSUME TypeOK, OneFinisher, NothingYet, [Next]_vars
    PROVE  OneFinisher' /\ NothingYet'
<1>0. due' \subseteq due
  <2>1. ASSUME NEW t \in Threads, DeliveryStep(t)
        PROVE  due' \subseteq due
    <3>1. CASE \/ StartDelivery(t) \/ AlreadyDelivered(t) \/ DispatchedBefore(t)
               \/ ReserveForSend(t) \/ MarkRoutineDeliveryDispatched(t)
      BY <3>1 DEF StartDelivery, AlreadyDelivered, DispatchedBefore, ReserveForSend,
                  MarkRoutineDeliveryDispatched
    <3>2. CASE \/ ProviderAccepts(t) \/ ProviderUnavailable(t) \/ ProviderUncertain(t)
               \/ FinishRoutineDelivery(t) \/ FailRoutineDelivery(t)
      BY <3>2 DEF ProviderAccepts, ProviderUnavailable, ProviderUncertain,
                  FinishRoutineDelivery, FailRoutineDelivery
    <3>3. CASE \/ RecordResultPolicy(t) \/ ReconcileTask(t) \/ RecordStatus(t)
               \/ ParkSchedule(t) \/ BlockTask(t)
      BY <3>3 DEF RecordResultPolicy, ReconcileTask, RecordStatus, ParkSchedule, BlockTask
    <3> QED
      BY <2>1, <3>1, <3>2, <3>3 DEF DeliveryStep
  <2>2. ASSUME NEW t \in Threads, NoticeLands(t) \/ FaultyStep(t)
        PROVE  due' \subseteq due
    <3>1. CASE NoticeLands(t)
      BY <3>1 DEF NoticeLands
    <3>2. CASE FaultyStep(t)
      BY <3>2 DEF FaultyStep, ReservationFails, ReserveWithoutTask, DispatchFails, FinishFails,
                  FailureNotRecorded, ApplyFails
    <3> QED
      BY <2>2, <3>1, <3>2
  <2>3. ASSUME NEW i \in DOMAIN receipts, BackoffElapses(i)
        PROVE  due' \subseteq due
    BY <2>3 DEF BackoffElapses
  <2>4. CASE \/ RetryPendingTerminalDelivery \/ OrphanLands \/ ConfirmTerminalDeliveryAbsent
             \/ LedgerReconciles
    BY <2>4 DEF RetryPendingTerminalDelivery, OrphanLands, ConfirmTerminalDeliveryAbsent,
                LedgerReconciles
  <2>5. CASE Crash \/ UNCHANGED vars
    BY <2>5 DEF Crash, vars
  <2> QED
    BY <2>1, <2>2, <2>3, <2>4, <2>5 DEF Next
<1>1. OneFinisher'
  BY <1>0 DEF OneFinisher
<1> SUFFICES ASSUME due' # {}
             PROVE  receipts' = <<>> /\ \A t \in Threads : pc'[t] = "idle"
  BY <1>1 DEF NothingYet
<1>2. due # {}
  BY <1>0
<1>3. CASE OrphanLands \/ LedgerReconciles \/ UNCHANGED vars
  BY <1>2, <1>3 DEF OrphanLands, LedgerReconciles, NothingYet, vars, durable, threads
<1>4. ASSUME NEW t \in Threads, DeliveryStep(t) \/ NoticeLands(t) \/ FaultyStep(t)
      PROVE  FALSE
  <2>1. CASE StartDelivery(t)
    BY <2>1 DEF StartDelivery, OneFinisher
  <2>2. CASE ~StartDelivery(t)
    <3>1. pc[t] # "idle"
      BY <1>4, <2>2 DEF DeliveryStep, FaultyStep, NoticeLands, AlreadyDelivered, DispatchedBefore,
           ReserveForSend, MarkRoutineDeliveryDispatched, ProviderAccepts, ProviderUnavailable,
           ProviderUncertain, FinishRoutineDelivery, FailRoutineDelivery, RecordResultPolicy,
           ReconcileTask, RecordStatus, ParkSchedule, BlockTask, ReservationFails,
           ReserveWithoutTask, DispatchFails, FinishFails, FailureNotRecorded, ApplyFails
    <3> QED
      BY <1>2, <3>1 DEF NothingYet
  <2> QED
    BY <2>1, <2>2
<1>5. CASE \/ RetryPendingTerminalDelivery \/ \E i \in DOMAIN receipts : BackoffElapses(i)
           \/ ConfirmTerminalDeliveryAbsent
  <2>1. DOMAIN receipts # {}
    BY <1>5 DEF RetryPendingTerminalDelivery, Retryable, Bound, BackoffElapses,
                ConfirmTerminalDeliveryAbsent, Uncertain
  <2> QED
    BY <1>2, <2>1 DEF NothingYet
<1>6. CASE Crash
  BY <1>6 DEF Crash
<1> QED
  BY <1>3, <1>4, <1>5, <1>6 DEF Next

\* A run that one thread finishes has nothing delivered before it begins.
LEMMA NothingYetHolds == OneFinisher /\ Spec => [](OneFinisher /\ NothingYet)
<1>1. Init => NothingYet
  BY DEF Init, NothingYet
<1>2. TypeOK /\ OneFinisher /\ NothingYet /\ [Next]_vars => (OneFinisher /\ NothingYet)'
  BY StepNothingYet
<1> QED
  BY <1>1, <1>2, TypesHold, PTL DEF Spec

-----------------------------------------------------------------------------
(* One key, one receipt                                                    *)

\* With one key the only receipt is the latest one, and a thread that attempts
\* holds it.
LEMMA OnlyReceipt ==
    ASSUME TypeOK, KeyAndReceipt
    PROVE  /\ receipts # <<>> => /\ Len(receipts) = 1 /\ DOMAIN receipts = {1} /\ receipts[1].bound
                                 /\ effect["completed"] # "absent" /\ Bound = {1} /\ Latest = 1
           /\ receipts = <<>> => /\ Len(receipts) = 0 /\ DOMAIN receipts = {}
                                 /\ effect["completed"] = "absent" /\ Bound = {} /\ Latest = 0
           /\ \A t \in Threads : Attempting(t) => rcpt[t] = 1 /\ receipts # <<>>
<1>0. TypeRows /\ Holds
  BY TypeParts
<1>1. ASSUME receipts # <<>>
      PROVE  /\ Len(receipts) = 1 /\ DOMAIN receipts = {1} /\ receipts[1].bound
             /\ effect["completed"] # "absent" /\ Bound = {1} /\ Latest = 1
  <2>1. effect["completed"] # "absent" /\ Len(receipts) = 1 /\ receipts[1].bound
    BY <1>1 DEF KeyAndReceipt
  <2>2. DOMAIN receipts = {1}
    BY <1>0, <2>1 DEF TypeRows
  <2>3. Bound = {1}
    BY <2>1, <2>2 DEF Bound
  <2>4. Latest = 1
    BY <1>0, <2>2, <2>3, LatestType
  <2> QED
    BY <2>1, <2>2, <2>3, <2>4
<1>2. ASSUME receipts = <<>>
      PROVE  /\ Len(receipts) = 0 /\ DOMAIN receipts = {}
             /\ effect["completed"] = "absent" /\ Bound = {} /\ Latest = 0
  <2>1. Len(receipts) = 0 /\ DOMAIN receipts = {}
    BY <1>2
  <2>2. Bound = {} /\ effect["completed"] = "absent"
    BY <2>1 DEF Bound, KeyAndReceipt
  <2> QED
    BY <2>1, <2>2 DEF Latest
<1>3. ASSUME NEW t \in Threads, Attempting(t)
      PROVE  rcpt[t] = 1 /\ receipts # <<>>
  <2>1. rcpt[t] \in DOMAIN receipts
    BY <1>0, <1>3 DEF Holds
  <2> QED
    BY <1>1, <1>2, <2>1
<1> QED
  BY <1>1, <1>2, <1>3

\* A step that keeps the list and no key's absence keeps the key and its receipt.
LEMMA KeyFrame ==
    ASSUME TypeOK, KeyAndReceipt, \A t \in Threads : kind'[t] = "completed",
           effect'["completed_empty"] = "absent",
           effect'["completed"] = "absent" <=> effect["completed"] = "absent",
           \/ UNCHANGED receipts
           \/ receipts # <<>> /\ Len(receipts') = 1 /\ receipts'[1].bound
    PROVE  KeyAndReceipt'
<1>1. receipts # <<>> => effect["completed"] # "absent"
  BY DEF KeyAndReceipt
<1> QED
  BY <1>1 DEF KeyAndReceipt

\* What reserve_routine_delivery does to the one key.
LEMMA ReserveKey ==
    ASSUME TypeOK, KeyAndReceipt, NEW t \in Threads, ReserveForSend(t)
    PROVE  /\ KeyAndReceipt' /\ effect["completed"] \in {"absent", "reserved"}
           /\ effect'["completed"] = "reserved"
           /\ receipts' # <<>> /\ receipts'[1].state = "pending"
           /\ pc[t] = "reserve" /\ pc'[t] = "dispatch" /\ \A u \in Threads \ {t} : pc'[u] = pc[u]
<1>0. TypeRows /\ TypeThreads /\ kind[t] = "completed"
  BY TypeParts DEF KeyAndReceipt
<1>1. "dispatch" \in Steps /\ "completed" \in Kinds /\ "reserved" \in EffectStates
  BY DEF Steps, Kinds, EffectStates
<1>2. pc'[t] = "dispatch" /\ \A u \in Threads \ {t} : pc'[u] = pc[u]
  BY <1>0, <1>1, GotoType DEF ReserveForSend
<1>3. /\ effect["completed"] \in {"absent", "reserved"} /\ pc[t] = "reserve"
      /\ effect' = [effect EXCEPT !["completed"] = "reserved"] /\ kind' = kind
  BY <1>0 DEF ReserveForSend, SetEffect
<1>4. effect'["completed"] = "reserved" /\ effect'["completed_empty"] = effect["completed_empty"]
  BY <1>0, <1>1, <1>3 DEF TypeRows, Kinds
<1>5. PICK i \in DOMAIN receipts' :
         /\ receipts' \in Seq(Receipts)
         /\ receipts'[i] = Receipt("pending", TRUE, FALSE)
         /\ i = IF effect[kind[t]] = "reserved" /\ Latest > 0 THEN Latest ELSE Len(receipts) + 1
         /\ receipts' = [j \in DOMAIN receipts \cup {i} |->
                           IF j = i THEN Receipt("pending", TRUE, FALSE) ELSE receipts[j]]
  BY <1>0, ReserveType, Zenon
<1>6. i = 1 /\ DOMAIN receipts' = {1}
  BY <1>0, <1>3, <1>5, OnlyReceipt
<1>7. Len(receipts') = 1 /\ receipts' # <<>>
  <2>1. receipts' \in Seq(Receipts)
    BY <1>5
  <2>2. Len(receipts') \in Nat /\ DOMAIN receipts' = 1 .. Len(receipts')
    BY <2>1, LenProperties
  <2>3. Len(receipts') = 1
    BY <1>6, <2>2
  <2> QED
    BY <2>3
<1>8. receipts'[1].state = "pending" /\ receipts'[1].bound
  BY <1>5, <1>6 DEF Receipt
<1>9. KeyAndReceipt'
  BY <1>3, <1>4, <1>7, <1>8 DEF KeyAndReceipt
<1> QED
  BY <1>2, <1>3, <1>4, <1>7, <1>8, <1>9

\* What SettleReceipt does to the one receipt.
LEMMA SettleKey ==
    ASSUME TypeOK, KeyAndReceipt, NEW t \in Threads, Attempting(t),
           NEW s \in {"failed", "delivered"}, SettleReceipt(rcpt[t], s)
    PROVE  /\ receipts # <<>> /\ receipts' # <<>> /\ Len(receipts') = 1 /\ receipts'[1].bound
           /\ receipts'[1].state = IF receipts[1].state = "pending" THEN s ELSE receipts[1].state
<1>0. TypeRows
  BY TypeParts
<1>1. rcpt[t] = 1 /\ receipts # <<>> /\ Len(receipts) = 1 /\ DOMAIN receipts = {1} /\ receipts[1].bound
  BY OnlyReceipt
<1>2. /\ receipts' \in Seq(Receipts) /\ Len(receipts') = 1
      /\ receipts'[1].state = IF receipts[1].state = "pending" THEN s ELSE receipts[1].state
      /\ receipts'[1].bound = receipts[1].bound
  BY <1>0, <1>1, SettleType
<1> QED
  BY <1>1, <1>2

\* What finish_routine_delivery and fail_routine_delivery do to them.
LEMMA FinishKey ==
    ASSUME TypeOK, KeyAndReceipt, NEW t \in Threads, FinishRoutineDelivery(t)
    PROVE  /\ KeyAndReceipt'
           /\ \/ /\ effect["completed"] = "executed" /\ effect'["completed"] = "verified"
                 /\ receipts'[1].state = "delivered" /\ Return(t, "delivered")
              \/ UNCHANGED <<effect, receipts, landed, safe>> /\ Goto(t, "fail")
<1>0. TypeRows /\ TypeThreads /\ kind[t] = "completed"
  BY TypeParts DEF KeyAndReceipt
<1>1. rcpt[t] = 1 /\ receipts # <<>> /\ receipts[1].bound /\ effect["completed"] # "absent"
  BY OnlyReceipt DEF FinishRoutineDelivery, Attempting
<1>2. CASE receipts[1].state = "pending" /\ effect["completed"] = "executed"
  <2>1. /\ SettleReceipt(rcpt[t], "delivered") /\ Return(t, "delivered") /\ kind' = kind
        /\ effect' = [effect EXCEPT !["completed"] = "verified"]
    BY <1>0, <1>1, <1>2 DEF FinishRoutineDelivery
  <2>2. Len(receipts') = 1 /\ receipts'[1].bound /\ receipts'[1].state = "delivered"
    BY <1>2, <2>1, SettleKey DEF FinishRoutineDelivery, Attempting
  <2>3. effect'["completed"] = "verified" /\ effect'["completed_empty"] = effect["completed_empty"]
    BY <1>0, <2>1 DEF TypeRows, Kinds
  <2> QED
    BY <1>1, <1>2, <2>1, <2>2, <2>3, KeyFrame DEF KeyAndReceipt
<1>3. CASE ~(receipts[1].state = "pending" /\ effect["completed"] = "executed")
  <2>1. UNCHANGED <<effect, receipts, landed, safe, kind>> /\ Goto(t, "fail")
    BY <1>0, <1>1, <1>3 DEF FinishRoutineDelivery
  <2> QED
    BY <2>1 DEF KeyAndReceipt
<1> QED
  BY <1>2, <1>3

\* Only an executed effect is given back.
LEMMA FailKey ==
    ASSUME TypeOK, KeyAndReceipt, NEW t \in Threads, FailRoutineDelivery(t)
    PROVE  /\ KeyAndReceipt' /\ receipts # <<>> /\ receipts' # <<>>
           /\ receipts'[1].state = IF receipts[1].state = "pending" THEN "failed"
                                   ELSE receipts[1].state
           /\ effect'["completed"] = IF safe[t] /\ effect["completed"] = "executed" THEN "reserved"
                                     ELSE effect["completed"]
<1>0. TypeRows /\ TypeThreads /\ kind[t] = "completed" /\ Attempting(t)
  BY TypeParts DEF KeyAndReceipt, FailRoutineDelivery, Attempting
<1>1. rcpt[t] = 1 /\ receipts # <<>> /\ receipts[1].bound /\ effect["completed"] # "absent"
  BY <1>0, OnlyReceipt
<1>2. /\ Len(receipts') = 1 /\ receipts'[1].bound /\ receipts' # <<>>
      /\ receipts'[1].state = IF receipts[1].state = "pending" THEN "failed" ELSE receipts[1].state
  BY <1>0, SettleKey DEF FailRoutineDelivery
<1>3. /\ kind' = kind
      /\ effect' = [effect EXCEPT !["completed"] =
                       IF safe[t] /\ effect["completed"] = "executed" THEN "reserved"
                       ELSE effect["completed"]]
  BY <1>0, <1>1 DEF FailRoutineDelivery
<1>4. /\ effect'["completed"] = IF safe[t] /\ effect["completed"] = "executed" THEN "reserved"
                                ELSE effect["completed"]
      /\ effect'["completed_empty"] = effect["completed_empty"]
  BY <1>0, <1>3 DEF TypeRows, Kinds
<1> QED
  BY <1>1, <1>2, <1>3, <1>4, KeyFrame DEF KeyAndReceipt

\* What the confirmation of the user does to them.
LEMMA ConfirmKey ==
    ASSUME TypeOK, KeyAndReceipt, ConfirmTerminalDeliveryAbsent
    PROVE  /\ KeyAndReceipt' /\ receipts # <<>> /\ receipts' # <<>>
           /\ receipts'[1].state = "failed"
           /\ effect["completed"] = "executed" /\ effect'["completed"] = "reserved"
<1>0. TypeRows
  BY TypeParts
<1>1. /\ effect["completed"] = "executed" /\ effect' = [effect EXCEPT !["completed"] = "reserved"]
      /\ kind' = kind
  BY DEF ConfirmTerminalDeliveryAbsent, SetEffect, Kinds, KeyAndReceipt, threads
<1>2. Uncertain # {} /\ receipts # <<>> /\ DOMAIN receipts = {1} /\ Len(receipts) = 1
  BY <1>1, OnlyReceipt DEF ConfirmTerminalDeliveryAbsent
<1>3. Uncertain = {1}
  BY <1>2 DEF Uncertain, Bound
<1>4. Max(Uncertain) = 1
  BY <1>3, LastPosition
<1>5. /\ Receipt("failed", TRUE, TRUE) \in Receipts
      /\ Receipt("failed", TRUE, TRUE).state = "failed" /\ Receipt("failed", TRUE, TRUE).bound
  BY DEF Receipt, Receipts
<1>6. receipts' = [receipts EXCEPT ![1] = Receipt("failed", TRUE, TRUE)]
  BY <1>4 DEF ConfirmTerminalDeliveryAbsent
<1>7. Len(receipts') = 1 /\ receipts'[1] = Receipt("failed", TRUE, TRUE)
  BY <1>0, <1>2, <1>5, <1>6, ReceiptType
<1>8. effect'["completed"] = "reserved" /\ effect'["completed_empty"] = effect["completed_empty"]
  BY <1>0, <1>1 DEF TypeRows, Kinds
<1>9. KeyAndReceipt'
  BY <1>1, <1>2, <1>5, <1>7, <1>8, KeyFrame DEF KeyAndReceipt
<1>10. receipts' # <<>>
  BY <1>7
<1> QED
  BY <1>1, <1>2, <1>5, <1>7, <1>8, <1>9, <1>10

-----------------------------------------------------------------------------
(* The order of the attempts, and their budget                             *)

\* A thread that is under way moves to a step after its preparation.
LEMMA OrderlyFrame ==
    ASSUME TypeOK, Orderly, NEW t \in Threads, pc[t] # "idle",
           \A u \in Threads \ {t} : pc'[u] = pc[u] /\ safe'[u] = safe[u],
           pc'[t] \notin {"reserve", "dispatch"}, safe'[t] => pc'[t] = "fail",
           \/ effect'["completed"] = effect["completed"] \/ effect["completed"] # "reserved"
           \/ pc[t] \in {"reserve", "dispatch"}
    PROVE  Orderly'
<1>0. Scheduler \in Threads /\ Scheduler \notin Approvers /\ Approvers \subseteq Threads
      /\ (t = Scheduler \/ t \in Approvers)
  BY ThreadsAssumption DEF Threads
<1>1. \A a \in Approvers : pc'[a] \notin {"reserve", "dispatch"}
  BY <1>0 DEF Orderly
<1>2. pc'[Scheduler] = "dispatch" => effect'["completed"] = "reserved"
  BY <1>0 DEF Orderly
<1>3. \A u \in Threads : pc'[u] = "dispatch" => effect'["completed"] = "reserved"
  BY <1>1, <1>2 DEF Threads
<1>4. \A u \in Threads : safe'[u] => pc'[u] = "fail"
  BY DEF Orderly
<1>5. \A a, b \in Approvers : pc'[a] # "idle" /\ pc'[b] # "idle" => a = b
  BY <1>0 DEF Orderly
<1> QED
  BY <1>1, <1>3, <1>4, <1>5 DEF Orderly

\* The units are numbers.
LEMMA UnitTypes ==
    ASSUME TypeOK
    PROVE  /\ SchedulerFlies \in {0, 1} /\ ApproverFlies \in {0, 1}
           /\ SchedulerReturns \in {0, 1} /\ ApproverReturns \in {0, 1}
           /\ SchedulerFlies' \in {0, 1} /\ ApproverFlies' \in {0, 1}
           /\ SchedulerReturns' \in {0, 1} /\ ApproverReturns' \in {0, 1}
           /\ sent \in Nat /\ orphans \in Nat /\ pardons \in Nat
BY DEF SchedulerFlies, ApproverFlies, SchedulerReturns, ApproverReturns, Unit, TypeOK

\* Only the units of the thread that moves change: the scheduler's ...
LEMMA SchedulerUnits ==
    ASSUME \A u \in Threads \ {Scheduler} : pc'[u] = pc[u] /\ landed'[u] = landed[u] /\ safe'[u] = safe[u]
    PROVE  /\ ApproverFlies' = ApproverFlies /\ ApproverReturns' = ApproverReturns
           /\ SchedulerFlies' = Unit(OnItsWay(Scheduler)') /\ SchedulerFlies = Unit(OnItsWay(Scheduler))
           /\ SchedulerReturns' = Unit(Unsent(Scheduler)') /\ SchedulerReturns = Unit(Unsent(Scheduler))
<1>1. \A a \in Approvers : a \in Threads \ {Scheduler}
  BY ThreadsAssumption DEF Threads
<1>2. /\ (\E a \in Approvers : OnItsWay(a)') <=> (\E a \in Approvers : OnItsWay(a))
      /\ (\E a \in Approvers : Unsent(a)') <=> (\E a \in Approvers : Unsent(a))
  BY <1>1 DEF OnItsWay, Unsent
<1> QED
  BY <1>2 DEF ApproverFlies, ApproverReturns, SchedulerFlies, SchedulerReturns, Unit

\* ... or those of the permission thread, which are the only ones on its side.
LEMMA ApproverUnits ==
    ASSUME Orderly, NEW t \in Approvers, pc[t] # "idle",
           \A u \in Threads \ {t} : pc'[u] = pc[u] /\ landed'[u] = landed[u] /\ safe'[u] = safe[u]
    PROVE  /\ SchedulerFlies' = SchedulerFlies /\ SchedulerReturns' = SchedulerReturns
           /\ ApproverFlies' = Unit(OnItsWay(t)') /\ ApproverFlies = Unit(OnItsWay(t))
           /\ ApproverReturns' = Unit(Unsent(t)') /\ ApproverReturns = Unit(Unsent(t))
           /\ pc'[Scheduler] = pc[Scheduler]
<1>1. Scheduler \in Threads \ {t} /\ \A a \in Approvers \ {t} : a \in Threads \ {t} /\ pc[a] = "idle"
  BY ThreadsAssumption DEF Threads, Orderly
<1>2. /\ (\E a \in Approvers : OnItsWay(a)') <=> OnItsWay(t)'
      /\ (\E a \in Approvers : Unsent(a)') <=> Unsent(t)'
      /\ (\E a \in Approvers : OnItsWay(a)) <=> OnItsWay(t)
      /\ (\E a \in Approvers : Unsent(a)) <=> Unsent(t)
      /\ OnItsWay(Scheduler)' <=> OnItsWay(Scheduler)
      /\ Unsent(Scheduler)' <=> Unsent(Scheduler)
      /\ pc'[Scheduler] = pc[Scheduler]
  BY <1>1 DEF OnItsWay, Unsent
<1> QED
  BY <1>2 DEF ApproverFlies, ApproverReturns, SchedulerFlies, SchedulerReturns, Unit

\* The sums of a step that neither costs more nor gives more back.
LEMMA BudgetFrame ==
    ASSUME pardons \in Nat, Spent \in Nat, Spent' \in Nat,
           SchedulerReturns \in Nat, ApproverReturns \in Nat,
           SchedulerReturns' \in Nat, ApproverReturns' \in Nat,
           Budget, UNCHANGED pardons, Spent' <= Spent,
           Spent' + ApproverReturns' <= Spent + ApproverReturns,
           Spent' + SchedulerReturns' + ApproverReturns' <= Spent + SchedulerReturns + ApproverReturns,
           \/ effect'["completed"] = effect["completed"]
           \/ effect'["completed"] = "verified"
           \/ effect["completed"] = "absent" /\ effect'["completed"] = "reserved",
           SchedulersTurn' => SchedulersTurn
    PROVE  Budget'
<1>0. PICK s \in Nat, s1 \in Nat, r \in Nat, r1 \in Nat, a \in Nat, a1 \in Nat :
         /\ s = Spent /\ s1 = Spent' /\ r = SchedulerReturns /\ r1 = SchedulerReturns'
         /\ a = ApproverReturns /\ a1 = ApproverReturns'
  OBVIOUS
<1>1. s1 <= s /\ s1 + a1 <= s + a /\ s1 + r1 + a1 <= s + r + a
  BY <1>0
<1>2. s <= 1 + pardons
  BY <1>0 DEF Budget
<1>3. ASSUME effect'["completed"] \in {"absent", "reserved"}
      PROVE  s1 + (IF SchedulersTurn' THEN a1 ELSE 0) <= pardons
  <2>1. s + (IF SchedulersTurn THEN a ELSE 0) <= pardons
    BY <1>0, <1>3 DEF Budget
  <2>2. CASE SchedulersTurn'
    BY <1>1, <2>1, <2>2
  <2>3. CASE ~SchedulersTurn'
    BY <1>1, <2>1, <2>3
  <2> QED
    BY <2>2, <2>3
<1>4. ASSUME effect'["completed"] = "executed"
      PROVE  s1 + r1 + a1 <= 1 + pardons
  <2>1. s + r + a <= 1 + pardons
    BY <1>0, <1>4 DEF Budget
  <2> QED
    BY <1>1, <2>1
<1>5. s1 <= 1 + pardons
  BY <1>1, <1>2
<1>6. Budget' <=>
         /\ s1 <= 1 + pardons
         /\ effect'["completed"] \in {"absent", "reserved"} =>
                s1 + (IF SchedulersTurn' THEN a1 ELSE 0) <= pardons
         /\ effect'["completed"] = "executed" => s1 + r1 + a1 <= 1 + pardons
  BY <1>0 DEF Budget
<1> QED
  BY <1>3, <1>4, <1>5, <1>6

\* A step of one thread that costs nothing and gives nothing back.
LEMMA MoveBudget ==
    ASSUME TypeOK, Orderly, Budget, NEW t \in Threads, pc[t] # "idle",
           \A u \in Threads \ {t} : pc'[u] = pc[u] /\ landed'[u] = landed[u] /\ safe'[u] = safe[u],
           UNCHANGED pardons, sent' \in Nat, orphans' \in Nat,
           sent' + orphans' + Unit(OnItsWay(t)') <= sent + orphans + Unit(OnItsWay(t)),
           sent' + orphans' + Unit(OnItsWay(t)') + Unit(Unsent(t)')
               <= sent + orphans + Unit(OnItsWay(t)) + Unit(Unsent(t)),
           \/ effect'["completed"] = effect["completed"]
           \/ effect'["completed"] = "verified"
           \/ effect["completed"] = "absent" /\ effect'["completed"] = "reserved",
           SchedulersTurn' => SchedulersTurn
    PROVE  Budget'
<1>0. /\ SchedulerReturns \in Nat /\ ApproverReturns \in Nat
      /\ SchedulerReturns' \in Nat /\ ApproverReturns' \in Nat /\ pardons \in Nat /\ Spent \in Nat
  BY UnitTypes DEF Spent
<1>1. /\ Spent' \in Nat /\ Spent' <= Spent /\ Spent' + ApproverReturns' <= Spent + ApproverReturns
      /\ Spent' + SchedulerReturns' + ApproverReturns' <= Spent + SchedulerReturns + ApproverReturns
  <2>1. CASE t = Scheduler
    BY <2>1, SchedulerUnits, UnitTypes DEF Spent
  <2>2. CASE t \in Approvers
    BY <2>2, ApproverUnits, UnitTypes DEF Spent
  <2> QED
    BY <2>1, <2>2 DEF Threads
<1> QED
  BY <1>0, <1>1, BudgetFrame

\* The budget after a step, by its sums.
LEMMA BudgetIs ==
    ASSUME NEW s \in Nat, NEW r \in Nat, NEW a \in Nat, NEW p \in Nat,
           s = Spent', r = SchedulerReturns', a = ApproverReturns', p = pardons',
           s <= 1 + p,
           effect'["completed"] \in {"absent", "reserved"} => s + (IF SchedulersTurn' THEN a ELSE 0) <= p,
           effect'["completed"] = "executed" => s + r + a <= 1 + p
    PROVE  Budget'
<1>1. Budget' <=>
         /\ s <= 1 + p
         /\ effect'["completed"] \in {"absent", "reserved"} =>
                s + (IF SchedulersTurn' THEN a ELSE 0) <= p
         /\ effect'["completed"] = "executed" => s + r + a <= 1 + p
  BY DEF Budget
<1> QED
  BY <1>1

\* A thread that is under way does not make it the scheduler's turn.
LEMMA TurnFrame ==
    ASSUME NEW t \in Threads, pc[t] # "idle", \A u \in Threads \ {t} : pc'[u] = pc[u],
           receipts' = receipts \/ (receipts' # <<>> => receipts'[1].state # "failed")
    PROVE  SchedulersTurn' => SchedulersTurn
<1>1. Scheduler \in Threads
  BY DEF Threads
<1> QED
  BY <1>1 DEF SchedulersTurn

\* A thread returns from deliver_routine_notice without having settled anything.
LEMMA ReturnBudget ==
    ASSUME TypeOK, Orderly, Budget, NEW t \in Threads, pc[t] # "idle",
           NEW o \in {"delivered", "review", "retry"}, Return(t, o),
           UNCHANGED <<sent, orphans, pardons>>,
           \/ UNCHANGED effect
           \/ /\ effect'["completed"] = "verified"
              /\ effect["completed"] # "reserved" \/ pc[t] \in {"reserve", "dispatch"},
           receipts' = receipts \/ (receipts' # <<>> => receipts'[1].state # "failed")
    PROVE  Orderly' /\ Budget'
<1>0. TypeThreads /\ sent \in Nat /\ orphans \in Nat
  BY TypeParts DEF TypeWorld
<1>1. /\ pc'[t] \in {"policy", "park"} /\ ~landed'[t] /\ ~safe'[t]
      /\ \A u \in Threads \ {t} : pc'[u] = pc[u] /\ landed'[u] = landed[u] /\ safe'[u] = safe[u]
  BY <1>0, ReturnType DEF Outcomes
<1>2. Orderly'
  BY <1>1, OrderlyFrame
<1>3. SchedulersTurn' => SchedulersTurn
  BY <1>1, TurnFrame
<1>4. Unit(OnItsWay(t)') = 0 /\ Unit(Unsent(t)') = 0
  BY <1>1 DEF OnItsWay, Unsent, Unit
<1>5. Unit(OnItsWay(t)) \in Nat /\ Unit(Unsent(t)) \in Nat
  BY DEF Unit
<1>6. /\ sent' + orphans' + Unit(OnItsWay(t)') <= sent + orphans + Unit(OnItsWay(t))
      /\ sent' + orphans' + Unit(OnItsWay(t)') + Unit(Unsent(t)')
             <= sent + orphans + Unit(OnItsWay(t)) + Unit(Unsent(t))
  BY <1>0, <1>4, <1>5
<1>7. Budget'
  BY <1>0, <1>1, <1>3, <1>6, MoveBudget
<1> QED
  BY <1>2, <1>7

\* The first attempt begins when nothing has happened.
LEMMA StartBudget ==
    ASSUME TypeOK, NothingYet, KeyAndReceipt, Orderly, Budget, OneKey, NEW t \in Threads, StartDelivery(t)
    PROVE  KeyAndReceipt' /\ Orderly' /\ Budget'
<1>0. TypeThreads /\ "reserve" \in Steps /\ Scheduler \in Threads /\ Approvers \subseteq Threads
  BY TypeParts DEF Steps, Threads
<1>1. /\ \A u \in Threads : pc[u] = "idle"
      /\ receipts = <<>> /\ UNCHANGED <<effect, receipts, landed, safe, sent, orphans, pardons>>
  BY DEF StartDelivery, NothingYet, durable, world
<1>2. pc'[t] = "reserve" /\ \A u \in Threads \ {t} : pc'[u] = "idle"
  BY <1>0, <1>1, GotoType DEF StartDelivery
<1>3. KeyAndReceipt'
  <2>1. \A u \in Threads : kind'[u] = "completed"
    BY <1>0 DEF StartDelivery, FirstKind, OneKey, KeyAndReceipt, TypeThreads
  <2> QED
    BY <1>1, <2>1 DEF KeyAndReceipt
<1>4. \A u \in Threads : ~safe[u]
  BY <1>1 DEF Orderly
<1>5. Orderly'
  <2>1. \A a, b \in Approvers : pc'[a] # "idle" /\ pc'[b] # "idle" => a = b
    BY <1>0, <1>2
  <2>2. \A u \in Threads : ~safe'[u] /\ pc'[u] # "dispatch"
    BY <1>1, <1>2, <1>4
  <2>3. \A a \in Approvers : pc'[a] = "reserve" => pc'[Scheduler] = "idle" /\ receipts' = <<>>
    BY <1>0, <1>1, <1>2, ThreadsAssumption
  <2> QED
    BY <1>0, <2>1, <2>2, <2>3 DEF Orderly
<1>6. \A u \in Threads : ~OnItsWay(u) /\ ~Unsent(u) /\ ~OnItsWay(u)' /\ ~Unsent(u)'
  BY <1>1, <1>2 DEF OnItsWay, Unsent
<1>7. /\ SchedulerFlies = 0 /\ ApproverFlies = 0 /\ SchedulerFlies' = 0 /\ ApproverFlies' = 0
      /\ SchedulerReturns' = 0 /\ ApproverReturns' = 0 /\ ApproverReturns = 0
  BY <1>0, <1>6 DEF SchedulerFlies, ApproverFlies, SchedulerReturns, ApproverReturns, Unit
<1>8. sent \in Nat /\ orphans \in Nat /\ pardons \in Nat
  BY DEF TypeOK
<1>9. Spent' = sent + orphans /\ Spent = sent + orphans
  BY <1>1, <1>7, <1>8 DEF Spent
<1>10. sent + orphans <= 1 + pardons /\ (effect["completed"] \in {"absent", "reserved"} => sent + orphans <= pardons)
  BY <1>7, <1>8, <1>9 DEF Budget
<1>11. effect["completed"] = "absent"
  BY <1>1, OnlyReceipt
<1>12. Budget'
  <2>1. sent + orphans \in Nat /\ 0 \in Nat
    BY <1>8
  <2>2. /\ sent + orphans <= 1 + pardons
        /\ sent + orphans + (IF SchedulersTurn' THEN 0 ELSE 0) <= pardons
    BY <1>8, <1>10, <1>11
  <2> QED
    BY <1>1, <1>7, <1>8, <1>9, <1>11, <2>1, <2>2, BudgetIs
<1> QED
  BY <1>3, <1>5, <1>12

\* A retry begins when the receipt failed: then the budget was the scheduler's.
LEMMA RetryBudget ==
    ASSUME TypeOK, KeyAndReceipt, Orderly, Budget, RetryPendingTerminalDelivery
    PROVE  KeyAndReceipt' /\ Orderly' /\ Budget'
<1>0. TypeThreads /\ "reserve" \in Steps /\ Scheduler \in Threads /\ Approvers \subseteq Threads
      /\ Scheduler \notin Approvers
  BY TypeParts, ThreadsAssumption DEF Steps, Threads
<1>1. /\ UNCHANGED <<effect, receipts, landed, safe, sent, orphans, pardons>>
      /\ pc[Scheduler] = "idle"
  BY DEF RetryPendingTerminalDelivery, durable, world
<1>2. pc'[Scheduler] = "reserve" /\ \A u \in Threads \ {Scheduler} : pc'[u] = pc[u]
  BY <1>0, GotoType DEF RetryPendingTerminalDelivery
<1>3. KeyAndReceipt'
  <2>1. \A u \in Threads : kind'[u] = "completed"
    BY <1>0 DEF RetryPendingTerminalDelivery, RetryKind, KeyAndReceipt, TypeThreads
  <2> QED
    BY <1>1, <2>1 DEF KeyAndReceipt
<1>4. receipts # <<>> /\ receipts[1].state = "failed"
  BY OnlyReceipt DEF RetryPendingTerminalDelivery, Retryable
<1>5. \A a \in Approvers : pc[a] \notin {"reserve", "dispatch"} /\ pc'[a] = pc[a]
  BY <1>0, <1>2, <1>4 DEF Orderly
<1>6. Orderly'
  <2>1. \A u \in Threads : ~(pc'[u] = "dispatch") /\ (safe'[u] => pc'[u] = "fail")
    BY <1>0, <1>1, <1>2, <1>5 DEF Orderly, Threads
  <2>2. \A a, b \in Approvers : pc'[a] # "idle" /\ pc'[b] # "idle" => a = b
    BY <1>5 DEF Orderly
  <2> QED
    BY <1>5, <2>1, <2>2 DEF Orderly
<1>7. SchedulersTurn
  BY <1>4 DEF SchedulersTurn
<1>8. /\ ApproverFlies' = ApproverFlies /\ ApproverReturns' = ApproverReturns
      /\ SchedulerFlies' = 0 /\ SchedulerReturns' = 0 /\ SchedulerFlies = 0 /\ SchedulerReturns = 0
  BY <1>1, <1>2, SchedulerUnits DEF OnItsWay, Unsent, Unit
<1>9. Budget'
  BY <1>1, <1>7, <1>8, UnitTypes, BudgetFrame DEF Spent
<1> QED
  BY <1>3, <1>6, <1>9

\* The thread t moves on after its preparation, and touches no row of the journal.
LEMMA QuietMove ==
    ASSUME TypeOK, KeyAndReceipt, Orderly, Budget, NEW t \in Threads, pc[t] # "idle",
           \A u \in Threads \ {t} : pc'[u] = pc[u] /\ landed'[u] = landed[u] /\ safe'[u] = safe[u],
           \A u \in Threads : kind'[u] = "completed", UNCHANGED <<effect, receipts, pardons>>,
           pc'[t] \notin {"reserve", "dispatch"}, safe'[t] => pc'[t] = "fail",
           sent' \in Nat, orphans' \in Nat,
           sent' + orphans' + Unit(OnItsWay(t)') <= sent + orphans + Unit(OnItsWay(t)),
           sent' + orphans' + Unit(OnItsWay(t)') + Unit(Unsent(t)')
               <= sent + orphans + Unit(OnItsWay(t)) + Unit(Unsent(t))
    PROVE  KeyAndReceipt' /\ Orderly' /\ Budget'
<1>1. KeyAndReceipt'
  BY DEF KeyAndReceipt
<1>2. Orderly'
  BY OrderlyFrame
<1>3. SchedulersTurn' => SchedulersTurn
  BY TurnFrame
<1>4. Budget'
  BY <1>3, MoveBudget
<1> QED
  BY <1>1, <1>2, <1>4

\* The notice and the answer of the provider.
LEMMA ProviderBudget ==
    ASSUME TypeOK, KeyAndReceipt, Orderly, Budget, NEW t \in Threads,
           \/ NoticeLands(t) \/ ProviderAccepts(t) \/ ProviderUnavailable(t)
           \/ ProviderUncertain(t) \/ FinishFails(t)
    PROVE  KeyAndReceipt' /\ Orderly' /\ Budget'
<1>0. /\ TypeThreads /\ {"finish", "fail"} \subseteq Steps
      /\ sent \in Nat /\ orphans \in Nat /\ landed[t] \in BOOLEAN /\ safe[t] \in BOOLEAN
  BY TypeParts DEF TypeThreads, TypeWorld, Steps
<1>1. /\ UNCHANGED <<effect, receipts, pardons>> /\ pc[t] \in {"sending", "finish"}
      /\ kind' = kind
  BY DEF NoticeLands, ProviderAccepts, ProviderUnavailable, ProviderUncertain, FinishFails,
         durable, world
<1>2. ~safe[t] /\ pc[t] # "idle" /\ \A u \in Threads : kind'[u] = "completed"
  BY <1>1 DEF Orderly, KeyAndReceipt
<1>3. Unit(Unsent(t)) = 0 /\ Unit(OnItsWay(t)) = IF pc[t] = "sending" /\ ~landed[t] THEN 1 ELSE 0
  BY <1>1 DEF Unit, OnItsWay, Unsent
<1>4. Unit(Unsent(t)') = (IF pc'[t] = "fail" /\ safe'[t] THEN 1 ELSE 0)
      /\ Unit(OnItsWay(t)') = (IF pc'[t] = "sending" /\ ~landed'[t] THEN 1 ELSE 0)
  BY DEF Unit, OnItsWay, Unsent
<1>5. CASE NoticeLands(t)
  <2>1. /\ pc' = pc /\ safe' = safe /\ sent' \in {sent, sent + 1} /\ orphans' = orphans /\ pc[t] = "sending"
        /\ ~landed[t]
    BY <1>5 DEF NoticeLands
  <2>2. landed'[t] /\ \A u \in Threads \ {t} : landed'[u] = landed[u]
    BY <1>0, <1>5 DEF NoticeLands, TypeThreads
  <2>3. /\ sent' \in Nat /\ orphans' \in Nat
        /\ sent' + orphans' + Unit(OnItsWay(t)') <= sent + orphans + Unit(OnItsWay(t))
        /\ sent' + orphans' + Unit(OnItsWay(t)') + Unit(Unsent(t)')
               <= sent + orphans + Unit(OnItsWay(t)) + Unit(Unsent(t))
    <3>1. /\ Unit(OnItsWay(t)) = 1 /\ Unit(Unsent(t)) = 0
          /\ Unit(OnItsWay(t)') = 0 /\ Unit(Unsent(t)') = 0
      BY <1>2, <1>3, <1>4, <2>1, <2>2
    <3>2. CASE sent' = sent
      BY <1>0, <2>1, <3>1, <3>2
    <3>3. CASE sent' = sent + 1
      BY <1>0, <2>1, <3>1, <3>3
    <3> QED
      BY <2>1, <3>2, <3>3
  <2> QED
    BY <1>1, <1>2, <2>1, <2>2, <2>3, QuietMove
<1>6. ASSUME NEW s \in {"finish", "fail"}, Goto(t, s)
      PROVE  pc'[t] = s /\ \A u \in Threads \ {t} : pc'[u] = pc[u]
  BY <1>0, <1>6, GotoType
<1>7. CASE ProviderAccepts(t) \/ FinishFails(t)
  <2>1. pc'[t] \in {"finish", "fail"} /\ \A u \in Threads \ {t} : pc'[u] = pc[u]
    BY <1>6, <1>7 DEF ProviderAccepts, FinishFails
  <2>2. landed' = landed /\ safe' = safe /\ sent' = sent /\ orphans' = orphans
    BY <1>7 DEF ProviderAccepts, FinishFails, world
  <2>3. /\ sent' + orphans' + Unit(OnItsWay(t)') <= sent + orphans + Unit(OnItsWay(t))
        /\ sent' + orphans' + Unit(OnItsWay(t)') + Unit(Unsent(t)')
               <= sent + orphans + Unit(OnItsWay(t)) + Unit(Unsent(t))
    BY <1>0, <1>2, <1>3, <1>4, <2>1, <2>2
  <2> QED
    BY <1>0, <1>1, <1>2, <2>1, <2>2, <2>3, QuietMove
<1>8. CASE ProviderUnavailable(t)
  <2>1. pc'[t] = "fail" /\ \A u \in Threads \ {t} : pc'[u] = pc[u]
    BY <1>6, <1>8 DEF ProviderUnavailable
  <2>2. landed' = landed /\ sent' = sent /\ orphans' = orphans /\ pc[t] = "sending" /\ ~landed[t]
    BY <1>8 DEF ProviderUnavailable, world
  <2>3. safe'[t] /\ \A u \in Threads \ {t} : safe'[u] = safe[u]
    BY <1>0, <1>8 DEF ProviderUnavailable, TypeThreads
  <2>4. /\ sent' + orphans' + Unit(OnItsWay(t)') <= sent + orphans + Unit(OnItsWay(t))
        /\ sent' + orphans' + Unit(OnItsWay(t)') + Unit(Unsent(t)')
               <= sent + orphans + Unit(OnItsWay(t)) + Unit(Unsent(t))
    BY <1>0, <1>2, <1>3, <1>4, <2>1, <2>2, <2>3
  <2> QED
    BY <1>0, <1>1, <1>2, <2>1, <2>2, <2>3, <2>4, QuietMove
<1>9. CASE ProviderUncertain(t)
  <2>1. pc'[t] = "fail" /\ \A u \in Threads \ {t} : pc'[u] = pc[u]
    BY <1>6, <1>9 DEF ProviderUncertain
  <2>2. /\ landed' = landed /\ safe' = safe /\ sent' = sent /\ pc[t] = "sending"
        /\ orphans' = orphans \/ (~landed[t] /\ orphans' = orphans + 1)
    BY <1>9 DEF ProviderUncertain
  <2>3. /\ orphans' \in Nat
        /\ sent' + orphans' + Unit(OnItsWay(t)') <= sent + orphans + Unit(OnItsWay(t))
        /\ sent' + orphans' + Unit(OnItsWay(t)') + Unit(Unsent(t)')
               <= sent + orphans + Unit(OnItsWay(t)) + Unit(Unsent(t))
    BY <1>0, <1>2, <1>3, <1>4, <2>1, <2>2
  <2> QED
    BY <1>0, <1>1, <1>2, <2>1, <2>2, <2>3, QuietMove
<1> QED
  BY <1>5, <1>7, <1>8, <1>9

\* What the caller does with the outcome.
LEMMA ApplyBudget ==
    ASSUME TypeOK, KeyAndReceipt, Orderly, Budget, NEW t \in Threads,
           \/ RecordResultPolicy(t) \/ ReconcileTask(t) \/ RecordStatus(t)
           \/ ParkSchedule(t) \/ BlockTask(t) \/ ApplyFails(t)
    PROVE  KeyAndReceipt' /\ Orderly' /\ Budget'
<1>0. /\ TypeThreads /\ {"reconcile", "status", "block"} \subseteq Steps
      /\ sent \in Nat /\ orphans \in Nat
  BY TypeParts DEF TypeWorld, Steps
<1>1. /\ UNCHANGED <<effect, receipts, sent, orphans, pardons>>
      /\ pc[t] \in {"policy", "reconcile", "status", "park", "block"}
  BY DEF RecordResultPolicy, ReconcileTask, RecordStatus, ParkSchedule, BlockTask, ApplyFails,
         durable, world
<1>2. ~safe[t] /\ pc[t] # "idle"
  BY <1>1 DEF Orderly
<1>3. /\ pc'[t] \in {"reconcile", "status", "block", "idle"} /\ ~safe'[t]
      /\ \A u \in Threads \ {t} : pc'[u] = pc[u] /\ landed'[u] = landed[u] /\ safe'[u] = safe[u]
      /\ \A u \in Threads : kind'[u] = "completed"
  <2>1. CASE RecordResultPolicy(t) \/ ReconcileTask(t) \/ ParkSchedule(t)
    <3>1. landed' = landed /\ safe' = safe /\ kind' = kind
          /\ \E s \in {"reconcile", "status", "block"} : Goto(t, s)
      BY <2>1 DEF RecordResultPolicy, ReconcileTask, ParkSchedule
    <3>2. pc'[t] \in {"reconcile", "status", "block"} /\ \A u \in Threads \ {t} : pc'[u] = pc[u]
      BY <1>0, <3>1, GotoType
    <3> QED
      BY <1>2, <3>1, <3>2 DEF KeyAndReceipt
  <2>2. CASE RecordStatus(t) \/ BlockTask(t) \/ ApplyFails(t)
    <3>1. Leave({t})
      BY <2>2 DEF RecordStatus, BlockTask, ApplyFails
    <3> QED
      BY <1>0, <3>1, LeaveType DEF KeyAndReceipt
  <2> QED
    BY <2>1, <2>2
<1>4. Unit(Unsent(t)) = 0 /\ Unit(OnItsWay(t)) = 0 /\ Unit(Unsent(t)') = 0 /\ Unit(OnItsWay(t)') = 0
  BY <1>1, <1>3 DEF Unit, OnItsWay, Unsent
<1>5. /\ sent' + orphans' + Unit(OnItsWay(t)') <= sent + orphans + Unit(OnItsWay(t))
      /\ sent' + orphans' + Unit(OnItsWay(t)') + Unit(Unsent(t)')
             <= sent + orphans + Unit(OnItsWay(t)) + Unit(Unsent(t))
  BY <1>0, <1>1, <1>4
<1> QED
  BY <1>0, <1>1, <1>2, <1>3, <1>5, QuietMove

\* An attempt that ends before it is made.
LEMMA EarlyReturnBudget ==
    ASSUME TypeOK, KeyAndReceipt, Orderly, Budget, NEW t \in Threads,
           \/ AlreadyDelivered(t) \/ DispatchedBefore(t) \/ ReservationFails(t)
           \/ FailureNotRecorded(t)
    PROVE  KeyAndReceipt' /\ Orderly' /\ Budget'
<1>0. TypeRows /\ kind[t] = "completed"
  BY TypeParts DEF KeyAndReceipt
<1>1. CASE AlreadyDelivered(t)
  <2>1. /\ effect' = [effect EXCEPT !["completed"] = "verified"] /\ effect["completed"] # "absent"
        /\ Return(t, "delivered") /\ UNCHANGED <<receipts, kind, sent, orphans, pardons>>
        /\ pc[t] = "reserve"
    BY <1>0, <1>1 DEF AlreadyDelivered, SetEffect, world
  <2>2. effect'["completed"] = "verified" /\ effect'["completed_empty"] = effect["completed_empty"]
    BY <1>0, <2>1 DEF TypeRows, Kinds
  <2>3. KeyAndReceipt'
    BY <2>1, <2>2, KeyFrame DEF KeyAndReceipt
  <2>4. Orderly' /\ Budget'
    BY <2>1, <2>2, ReturnBudget
  <2> QED
    BY <2>3, <2>4
<1>2. CASE DispatchedBefore(t) \/ ReservationFails(t) \/ FailureNotRecorded(t)
  <2>1. /\ Return(t, "review") /\ UNCHANGED <<effect, receipts, kind, sent, orphans, pardons>>
        /\ pc[t] # "idle"
    BY <1>2 DEF DispatchedBefore, ReservationFails, FailureNotRecorded, durable, world
  <2>2. KeyAndReceipt'
    BY <2>1 DEF KeyAndReceipt
  <2>3. Orderly' /\ Budget'
    BY <2>1, ReturnBudget
  <2> QED
    BY <2>2, <2>3
<1> QED
  BY <1>1, <1>2

\* Who reserves is alone with its preparation.
LEMMA ReserveBudget ==
    ASSUME TypeOK, KeyAndReceipt, Orderly, Budget, NEW t \in Threads, ReserveForSend(t)
    PROVE  KeyAndReceipt' /\ Orderly' /\ Budget'
<1>0. Scheduler \in Threads /\ Scheduler \notin Approvers /\ Approvers \subseteq Threads
      /\ (t = Scheduler \/ t \in Approvers) /\ sent \in Nat /\ orphans \in Nat
  BY ThreadsAssumption DEF Threads, TypeOK
<1>1. /\ KeyAndReceipt' /\ effect["completed"] \in {"absent", "reserved"}
      /\ effect'["completed"] = "reserved" /\ receipts' # <<>> /\ receipts'[1].state = "pending"
      /\ pc[t] = "reserve" /\ pc'[t] = "dispatch" /\ \A u \in Threads \ {t} : pc'[u] = pc[u]
  BY ReserveKey
<1>2. UNCHANGED <<landed, safe, sent, orphans, pardons>>
  BY DEF ReserveForSend, world
<1>3. Orderly'
  <2>1. \A a, b \in Approvers : pc'[a] # "idle" /\ pc'[b] # "idle" => a = b
    BY <1>0, <1>1 DEF Orderly
  <2>2. \A u \in Threads : safe'[u] => pc'[u] = "fail"
    BY <1>1, <1>2 DEF Orderly
  <2>3. \A a \in Approvers : pc'[a] # "reserve" /\ (pc'[a] = "dispatch" => pc'[Scheduler] = "idle")
    BY <1>0, <1>1 DEF Orderly
  <2> QED
    BY <1>1, <2>1, <2>2, <2>3 DEF Orderly
<1>4. SchedulersTurn' => SchedulersTurn
  BY <1>1, TurnFrame
<1>5. Unit(Unsent(t)) = 0 /\ Unit(OnItsWay(t)) = 0 /\ Unit(Unsent(t)') = 0 /\ Unit(OnItsWay(t)') = 0
  BY <1>1 DEF Unit, OnItsWay, Unsent
<1>6. /\ sent' + orphans' + Unit(OnItsWay(t)') <= sent + orphans + Unit(OnItsWay(t))
      /\ sent' + orphans' + Unit(OnItsWay(t)') + Unit(Unsent(t)')
             <= sent + orphans + Unit(OnItsWay(t)) + Unit(Unsent(t))
  BY <1>0, <1>2, <1>5
<1>7. Budget'
  BY <1>0, <1>1, <1>2, <1>4, <1>6, MoveBudget
<1> QED
  BY <1>1, <1>3, <1>7

\* Without a failed lookup every reservation has its task.
LEMMA LookupSucceeds ==
    ASSUME OneKey, NEW t \in Threads
    PROVE  ~ReserveWithoutTask(t)
BY DEF ReserveWithoutTask, Fault, OneKey

\* The one who enters the dispatch boundary spends what the reservation left.
LEMMA DispatchBudget ==
    ASSUME TypeOK, KeyAndReceipt, Orderly, Budget, NEW t \in Threads,
           MarkRoutineDeliveryDispatched(t) \/ DispatchFails(t)
    PROVE  KeyAndReceipt' /\ Orderly' /\ Budget'
<1>0. /\ Scheduler \in Threads /\ Scheduler \notin Approvers /\ (t = Scheduler \/ t \in Approvers)
      /\ TypeRows /\ TypeThreads /\ {"sending", "fail"} \subseteq Steps /\ kind[t] = "completed"
      /\ sent \in Nat /\ orphans \in Nat /\ pardons \in Nat
  BY TypeParts, ThreadsAssumption DEF Threads, TypeWorld, Steps, KeyAndReceipt
<1>1. /\ pc[t] = "dispatch" /\ effect["completed"] = "reserved" /\ ~safe[t]
      /\ rcpt[t] = 1 /\ receipts # <<>> /\ receipts[1].bound
      /\ UNCHANGED <<receipts, kind, landed, sent, orphans, pardons>>
  BY OnlyReceipt DEF MarkRoutineDeliveryDispatched, DispatchFails, Orderly, Attempting, durable, world
<1>2. Spent + (IF SchedulersTurn THEN ApproverReturns ELSE 0) <= pardons
  BY <1>1 DEF Budget
<1>3. /\ \A u \in Threads \ {t} : pc'[u] = pc[u] /\ landed'[u] = landed[u] /\ safe'[u] = safe[u]
      /\ safe'[t] => pc'[t] = "fail"
      /\ effect'["completed_empty"] = effect["completed_empty"]
      /\ \/ pc'[t] = "sending" /\ effect'["completed"] = "executed"
         \/ pc'[t] = "fail" /\ effect' = effect
  <2>1. CASE MarkRoutineDeliveryDispatched(t)
    <3>1. Goto(t, "sending") /\ effect' = [effect EXCEPT !["completed"] = "executed"] /\ safe' = safe
      BY <1>0, <1>1, <2>1 DEF MarkRoutineDeliveryDispatched, SetEffect
    <3>2. effect'["completed"] = "executed" /\ effect'["completed_empty"] = effect["completed_empty"]
      BY <1>0, <3>1 DEF TypeRows, Kinds
    <3>3. pc'[t] = "sending" /\ \A u \in Threads \ {t} : pc'[u] = pc[u]
      BY <1>0, <3>1, GotoType
    <3> QED
      BY <1>1, <3>1, <3>2, <3>3
  <2>2. CASE DispatchFails(t)
    <3>1. Goto(t, "fail") /\ effect' = effect /\ safe' = [safe EXCEPT ![t] = TRUE]
      BY <2>2 DEF DispatchFails, durable
    <3>2. pc'[t] = "fail" /\ \A u \in Threads \ {t} : pc'[u] = pc[u]
      BY <1>0, <3>1, GotoType
    <3>3. \A u \in Threads \ {t} : safe'[u] = safe[u]
      BY <1>0, <3>1 DEF TypeThreads
    <3> QED
      BY <1>1, <3>1, <3>2, <3>3
  <2> QED
    BY <2>1, <2>2
<1>4. KeyAndReceipt'
  BY <1>1, <1>3, KeyFrame DEF KeyAndReceipt
<1>5. Orderly'
  BY <1>1, <1>3, OrderlyFrame
<1>6. Unit(Unsent(t)) = 0 /\ Unit(OnItsWay(t)) = 0 /\ Unit(Unsent(t)') \in {0, 1} /\ Unit(OnItsWay(t)') \in {0, 1}
      /\ (pc'[t] = "sending" => Unit(Unsent(t)') = 0) /\ (pc'[t] = "fail" => Unit(OnItsWay(t)') = 0)
  BY <1>1 DEF Unit, OnItsWay, Unsent
<1>7. CASE t = Scheduler
  <2>1. /\ ApproverFlies' = ApproverFlies /\ ApproverReturns' = ApproverReturns
        /\ SchedulerFlies' = Unit(OnItsWay(t)') /\ SchedulerFlies = 0
        /\ SchedulerReturns' = Unit(Unsent(t)') /\ SchedulersTurn
    BY <1>1, <1>3, <1>6, <1>7, SchedulerUnits DEF SchedulersTurn
  <2>2. PICK a \in {0, 1}, f \in {0, 1}, f1 \in {0, 1}, r1 \in {0, 1} :
           /\ a = ApproverReturns /\ f = ApproverFlies /\ f1 = SchedulerFlies' /\ r1 = SchedulerReturns'
    BY UnitTypes
  <2>3. Spent = sent + orphans + f /\ Spent' = sent + orphans + f + f1
    BY <1>0, <1>1, <2>1, <2>2 DEF Spent
  <2>4. sent + orphans + f + a <= pardons
    BY <1>0, <1>2, <2>1, <2>2, <2>3
  <2>5. /\ pc'[t] = "sending" => r1 = 0
        /\ pc'[t] = "fail" => f1 = 0
    BY <1>6, <2>1, <2>2
  <2>0. /\ sent \in Nat /\ orphans \in Nat /\ pardons \in Nat /\ a \in Nat /\ f \in Nat
        /\ f1 \in Nat /\ r1 \in Nat /\ f1 <= 1
    BY <1>0, <2>2
  <2>6. sent + orphans + f + f1 \in Nat /\ sent + orphans + f + f1 <= 1 + pardons
    BY <2>0, <2>4
  <2>7. ASSUME effect'["completed"] \in {"absent", "reserved"}
        PROVE  sent + orphans + f + f1 + (IF SchedulersTurn' THEN a ELSE 0) <= pardons
    <3>1. f1 = 0
      BY <1>3, <2>5, <2>7
    <3>2. sent + orphans + f + f1 + a <= pardons /\ sent + orphans + f + f1 + 0 <= pardons
      BY <2>0, <2>4, <3>1
    <3> QED
      BY <3>2
  <2>8. ASSUME effect'["completed"] = "executed"
        PROVE  sent + orphans + f + f1 + r1 + a <= 1 + pardons
    <3>1. pc'[t] = "sending"
      BY <1>1, <1>3, <2>8
    <3>2. r1 = 0
      BY <2>5, <3>1
    <3> QED
      BY <2>0, <2>4, <3>2
  <2>9. a = ApproverReturns' /\ pardons = pardons' /\ a \in Nat /\ r1 \in Nat
    BY <1>1, <2>1, <2>2
  <2>10. Budget'
    BY <1>0, <2>2, <2>3, <2>6, <2>7, <2>8, <2>9, BudgetIs
  <2> QED
    BY <1>4, <1>5, <2>10
<1>8. CASE t \in Approvers
  <2>1. pc[Scheduler] = "idle" /\ receipts[1].state = "pending"
    BY <1>1, <1>8 DEF Orderly
  <2>2. /\ SchedulerFlies' = 0 /\ SchedulerReturns' = 0 /\ SchedulerFlies = 0
        /\ ApproverFlies' = Unit(OnItsWay(t)') /\ ApproverFlies = 0
        /\ ApproverReturns' = Unit(Unsent(t)') /\ pc'[Scheduler] = "idle"
    BY <1>1, <1>3, <1>6, <1>8, <2>1, ApproverUnits DEF SchedulerFlies, SchedulerReturns, Unit, OnItsWay, Unsent
  <2>3. ~SchedulersTurn'
    BY <1>1, <2>1, <2>2 DEF SchedulersTurn
  <2>4. PICK f1 \in {0, 1}, a1 \in {0, 1} : f1 = ApproverFlies' /\ a1 = ApproverReturns'
    BY UnitTypes
  <2>5. Spent = sent + orphans /\ Spent' = sent + orphans + f1
    BY <1>0, <1>1, <2>2, <2>4 DEF Spent
  <2>6. sent + orphans <= pardons
    <3>1. ApproverReturns \in {0, 1}
      BY UnitTypes
    <3> QED
      BY <1>0, <1>2, <2>5, <3>1
  <2>7. (pc'[t] = "sending" => a1 = 0) /\ (pc'[t] = "fail" => f1 = 0)
    BY <1>6, <2>2, <2>4
  <2>0. sent \in Nat /\ orphans \in Nat /\ pardons \in Nat /\ a1 \in Nat /\ f1 \in Nat /\ f1 <= 1
    BY <1>0, <2>4
  <2>8. sent + orphans + f1 \in Nat /\ sent + orphans + f1 <= 1 + pardons
    BY <2>0, <2>6
  <2>9. ASSUME effect'["completed"] \in {"absent", "reserved"}
        PROVE  sent + orphans + f1 + (IF SchedulersTurn' THEN a1 ELSE 0) <= pardons
    <3>1. f1 = 0
      BY <1>3, <2>7, <2>9
    <3> QED
      BY <2>0, <2>3, <2>6, <3>1
  <2>10. ASSUME effect'["completed"] = "executed"
         PROVE  sent + orphans + f1 + 0 + a1 <= 1 + pardons
    <3>1. a1 = 0
      BY <1>1, <1>3, <2>7, <2>10
    <3> QED
      BY <2>0, <2>6, <3>1
  <2>11. 0 = SchedulerReturns' /\ pardons = pardons' /\ a1 \in Nat /\ 0 \in Nat
    BY <1>1, <2>2, <2>4
  <2>12. Budget'
    BY <1>0, <2>4, <2>5, <2>8, <2>9, <2>10, <2>11, BudgetIs
  <2> QED
    BY <1>4, <1>5, <2>12
<1> QED
  BY <1>0, <1>7, <1>8

\* A delivery that is finished pays nothing more.
LEMMA FinishBudget ==
    ASSUME TypeOK, KeyAndReceipt, Orderly, Budget, NEW t \in Threads, FinishRoutineDelivery(t)
    PROVE  KeyAndReceipt' /\ Orderly' /\ Budget'
<1>0. TypeThreads /\ "fail" \in Steps /\ sent \in Nat /\ orphans \in Nat
  BY TypeParts DEF Steps, TypeWorld
<1>1. /\ KeyAndReceipt' /\ pc[t] = "finish" /\ ~safe[t] /\ kind' = kind
      /\ UNCHANGED <<sent, orphans, pardons>>
  BY FinishKey DEF FinishRoutineDelivery, world, Orderly
<1>2. CASE /\ effect["completed"] = "executed" /\ effect'["completed"] = "verified"
           /\ receipts'[1].state = "delivered" /\ Return(t, "delivered")
  <2>1. Orderly' /\ Budget'
    BY <1>1, <1>2, ReturnBudget
  <2> QED
    BY <1>1, <2>1
<1>3. CASE UNCHANGED <<effect, receipts, landed, safe>> /\ Goto(t, "fail")
  <2>1. pc'[t] = "fail" /\ \A u \in Threads \ {t} : pc'[u] = pc[u]
    BY <1>0, <1>3, GotoType
  <2>2. Unit(Unsent(t)) = 0 /\ Unit(OnItsWay(t)) = 0 /\ Unit(Unsent(t)') = 0 /\ Unit(OnItsWay(t)') = 0
    BY <1>1, <1>3, <2>1 DEF Unit, OnItsWay, Unsent
  <2>3. /\ sent' + orphans' + Unit(OnItsWay(t)') <= sent + orphans + Unit(OnItsWay(t))
        /\ sent' + orphans' + Unit(OnItsWay(t)') + Unit(Unsent(t)')
               <= sent + orphans + Unit(OnItsWay(t)) + Unit(Unsent(t))
    BY <1>0, <1>1, <2>2
  <2>4. \A u \in Threads : kind'[u] = "completed"
    BY <1>1 DEF KeyAndReceipt
  <2> QED
    BY <1>0, <1>1, <1>3, <2>1, <2>3, <2>4, QuietMove
<1> QED
  BY <1>2, <1>3, FinishKey

\* What was not sent is given back, and the attempt that may follow is paid with it.
LEMMA FailBudget ==
    ASSUME TypeOK, KeyAndReceipt, Orderly, Budget, NEW t \in Threads, FailRoutineDelivery(t)
    PROVE  KeyAndReceipt' /\ Orderly' /\ Budget'
<1>0. /\ TypeThreads /\ (t = Scheduler \/ t \in Approvers) /\ effect["completed"] \in EffectStates
      /\ sent \in Nat /\ orphans \in Nat /\ pardons \in Nat
  BY TypeParts DEF Threads, TypeWorld, TypeRows, Kinds
<1>1. /\ KeyAndReceipt' /\ pc[t] = "fail" /\ UNCHANGED <<sent, orphans, pardons>>
      /\ effect'["completed"] = IF safe[t] /\ effect["completed"] = "executed" THEN "reserved"
                                ELSE effect["completed"]
      /\ \E o \in {"retry", "review"} : Return(t, o)
  BY FailKey DEF FailRoutineDelivery, world
<1>2. /\ pc'[t] = "park" /\ ~landed'[t] /\ ~safe'[t]
      /\ \A u \in Threads \ {t} : pc'[u] = pc[u] /\ landed'[u] = landed[u] /\ safe'[u] = safe[u]
  BY <1>0, <1>1, ReturnType DEF Outcomes
<1>3. Orderly'
  BY <1>1, <1>2, OrderlyFrame
<1>4. /\ Unit(OnItsWay(t)) = 0 /\ Unit(OnItsWay(t)') = 0 /\ Unit(Unsent(t)') = 0
      /\ (safe[t] => Unit(Unsent(t)) = 1)
  BY <1>1, <1>2 DEF Unit, OnItsWay, Unsent
<1>5. PICK s \in Nat, r \in Nat, a \in Nat :
         s = Spent /\ r = SchedulerReturns /\ a = ApproverReturns
  BY UnitTypes DEF Spent
<1>6. /\ s <= 1 + pardons
      /\ effect["completed"] \in {"absent", "reserved"} => s + (IF SchedulersTurn THEN a ELSE 0) <= pardons
      /\ effect["completed"] = "executed" => s + r + a <= 1 + pardons
  BY <1>5 DEF Budget
<1>7. CASE t = Scheduler
  <2>1. /\ Spent' = s /\ SchedulerReturns' = 0 /\ ApproverReturns' = a
        /\ (safe[t] => r = 1) /\ SchedulersTurn
    <3>1. /\ SchedulerFlies' = SchedulerFlies /\ ApproverFlies' = ApproverFlies
          /\ SchedulerReturns' = 0 /\ ApproverReturns' = ApproverReturns
          /\ (safe[t] => SchedulerReturns = 1)
      BY <1>2, <1>4, <1>7, SchedulerUnits
    <3> QED
      BY <1>1, <1>5, <1>7, <3>1 DEF Spent, SchedulersTurn
  <2>2. ASSUME effect'["completed"] \in {"absent", "reserved"}
        PROVE  s + (IF SchedulersTurn' THEN a ELSE 0) <= pardons
    <3>1. s + a <= pardons
      <4>1. CASE safe[t] /\ effect["completed"] = "executed"
        BY <1>0, <1>5, <1>6, <2>1, <4>1
      <4>2. CASE ~(safe[t] /\ effect["completed"] = "executed")
        BY <1>0, <1>1, <1>5, <1>6, <2>1, <2>2, <4>2
      <4> QED
        BY <4>1, <4>2
    <3> QED
      BY <1>0, <1>5, <3>1
  <2>3. ASSUME effect'["completed"] = "executed"
        PROVE  s + 0 + a <= 1 + pardons
    <3>1. effect["completed"] = "executed"
      BY <1>1, <2>3
    <3> QED
      BY <1>0, <1>5, <1>6, <3>1
  <2>4. Budget'
    BY <1>0, <1>1, <1>5, <1>6, <2>1, <2>2, <2>3, BudgetIs
  <2> QED
    BY <1>1, <1>3, <2>4
<1>8. CASE t \in Approvers
  <2>1. /\ Spent' = s /\ SchedulerReturns' = r /\ ApproverReturns' = 0
        /\ (safe[t] => a = 1)
    <3>1. /\ SchedulerFlies' = SchedulerFlies /\ ApproverFlies' = ApproverFlies
          /\ SchedulerReturns' = SchedulerReturns /\ ApproverReturns' = 0
          /\ (safe[t] => ApproverReturns = 1)
      BY <1>1, <1>2, <1>4, <1>8, ApproverUnits
    <3> QED
      BY <1>1, <1>5, <3>1 DEF Spent
  <2>2. ASSUME effect'["completed"] \in {"absent", "reserved"}
        PROVE  s + (IF SchedulersTurn' THEN 0 ELSE 0) <= pardons
    <3>1. s <= pardons
      <4>1. CASE safe[t] /\ effect["completed"] = "executed"
        BY <1>0, <1>5, <1>6, <2>1, <4>1
      <4>2. CASE ~(safe[t] /\ effect["completed"] = "executed")
        <5>1. s + (IF SchedulersTurn THEN a ELSE 0) <= pardons
          BY <1>1, <1>6, <2>2, <4>2
        <5> QED
          BY <1>0, <1>5, <5>1
      <4> QED
        BY <4>1, <4>2
    <3> QED
      BY <1>0, <1>5, <3>1
  <2>3. ASSUME effect'["completed"] = "executed"
        PROVE  s + r + 0 <= 1 + pardons
    <3>1. effect["completed"] = "executed"
      BY <1>1, <2>3
    <3> QED
      BY <1>0, <1>5, <1>6, <3>1
  <2>4. Budget'
    BY <1>0, <1>1, <1>5, <1>6, <2>1, <2>2, <2>3, BudgetIs
  <2> QED
    BY <1>1, <1>3, <2>4
<1> QED
  BY <1>0, <1>7, <1>8

\* Without a step of a thread its units stay.
LEMMA SameUnits ==
    ASSUME UNCHANGED <<pc, landed, safe>>
    PROVE  /\ SchedulerFlies' = SchedulerFlies /\ ApproverFlies' = ApproverFlies
           /\ SchedulerReturns' = SchedulerReturns /\ ApproverReturns' = ApproverReturns
BY DEF SchedulerFlies, ApproverFlies, SchedulerReturns, ApproverReturns, OnItsWay, Unsent

\* A mistaken confirmation pays for the attempt it allows; one that is right has
\* nothing to pay for.
LEMMA ConfirmBudget ==
    ASSUME TypeOK, KeyAndReceipt, Orderly, Budget, ConfirmTerminalDeliveryAbsent
    PROVE  KeyAndReceipt' /\ Orderly' /\ Budget'
<1>0. Scheduler \in Threads /\ Approvers \subseteq Threads
      /\ sent \in Nat /\ orphans \in Nat /\ pardons \in Nat
  BY DEF Threads, TypeOK
<1>1. /\ KeyAndReceipt' /\ receipts # <<>> /\ receipts' # <<>> /\ receipts'[1].state = "failed"
      /\ effect["completed"] = "executed" /\ effect'["completed"] = "reserved"
  BY ConfirmKey
<1>2. UNCHANGED <<pc, landed, safe, sent, orphans>>
      /\ pardons' = IF MayHaveArrived THEN pardons + 1 ELSE pardons
  BY DEF ConfirmTerminalDeliveryAbsent, threads
<1>3. /\ \A u \in Threads : pc[u] # "dispatch"
      /\ \A a \in Approvers : pc[a] # "reserve"
  BY <1>1 DEF Orderly
<1>4. Orderly'
  BY <1>0, <1>2, <1>3 DEF Orderly
<1>5. PICK s \in Nat, r \in Nat, a \in Nat :
         s = Spent /\ r = SchedulerReturns /\ a = ApproverReturns
  BY UnitTypes DEF Spent
<1>6. s + r + a <= 1 + pardons
  BY <1>1, <1>5 DEF Budget
<1>7. Spent' = s /\ SchedulerReturns' = r /\ ApproverReturns' = a
  BY <1>2, <1>5, SameUnits DEF Spent
<1>8. PICK p \in Nat : p = pardons'
  BY <1>0, <1>2
<1>9. s + a <= p
  <2>1. CASE MayHaveArrived
    <3>1. p = pardons + 1
      BY <1>2, <1>8, <2>1
    <3> QED
      BY <1>0, <1>5, <1>6, <3>1
  <2>2. CASE ~MayHaveArrived
    <3>1. sent = 0 /\ orphans = 0 /\ \A u \in Threads : ~OnItsWay(u) /\ ~Unsent(u)
      BY <1>0, <2>2 DEF MayHaveArrived, OnItsWay, Unsent
    <3>2. SchedulerFlies = 0 /\ ApproverFlies = 0 /\ ApproverReturns = 0
      BY <1>0, <3>1 DEF SchedulerFlies, ApproverFlies, ApproverReturns, Unit
    <3>3. s = 0 /\ a = 0
      BY <1>5, <3>1, <3>2 DEF Spent
    <3> QED
      BY <1>8, <3>3
  <2> QED
    BY <2>1, <2>2
<1>10. s <= 1 + p /\ s + (IF SchedulersTurn' THEN a ELSE 0) <= p
  <2>1. s \in Nat /\ a \in Nat /\ p \in Nat
    BY <1>5, <1>8
  <2>2. s + 0 <= p /\ s <= 1 + p
    BY <1>9, <2>1
  <2> QED
    BY <1>9, <2>2
<1>11. Budget'
  BY <1>1, <1>5, <1>7, <1>8, <1>10, BudgetIs
<1> QED
  BY <1>1, <1>4, <1>11

\* A dead process leaves no more notices on their way than its threads had.
LEMMA FlyingCount ==
    ASSUME TypeOK, Orderly
    PROVE  LET n == Cardinality({t \in Threads : Flying(t)})
           IN  n \in Nat /\ n <= SchedulerFlies + ApproverFlies
<1> DEFINE F == {t \in Threads : OnItsWay(t)}
           A == {a \in Approvers : OnItsWay(a)}
<1>0. Scheduler \in Threads /\ Scheduler \notin Approvers /\ Threads = Approvers \cup {Scheduler}
  BY ThreadsAssumption DEF Threads
<1>1. A = {} \/ \E a \in Approvers : A = {a}
  BY DEF Orderly, OnItsWay
<1>2. IsFiniteSet(A) /\ Cardinality(A) = ApproverFlies
  <2>1. CASE A = {}
    <3>1. ApproverFlies = 0
      BY <2>1 DEF ApproverFlies, Unit
    <3> QED
      BY <2>1, <3>1, FS_EmptySet
  <2>2. CASE \E a \in Approvers : A = {a}
    <3>1. PICK a \in Approvers : A = {a}
      BY <2>2
    <3>2. ApproverFlies = 1
      BY <3>1 DEF ApproverFlies, Unit
    <3> QED
      BY <3>1, <3>2, FS_Singleton
  <2> QED
    BY <1>1, <2>1, <2>2
<1>3. ASSUME OnItsWay(Scheduler)
      PROVE  IsFiniteSet(F) /\ Cardinality(F) \in Nat /\ Cardinality(F) <= SchedulerFlies + ApproverFlies
  <2>1. F = A \cup {Scheduler} /\ Scheduler \notin A
    BY <1>0, <1>3 DEF OnItsWay
  <2>2. IsFiniteSet(F) /\ Cardinality(F) = ApproverFlies + 1 /\ SchedulerFlies = 1
    BY <1>2, <1>3, <2>1, FS_AddElement DEF SchedulerFlies, Unit
  <2> QED
    BY <2>2, UnitTypes
<1>4. ASSUME ~OnItsWay(Scheduler)
      PROVE  IsFiniteSet(F) /\ Cardinality(F) \in Nat /\ Cardinality(F) <= SchedulerFlies + ApproverFlies
  <2>1. F = A
    BY <1>0, <1>4 DEF OnItsWay
  <2>2. IsFiniteSet(F) /\ Cardinality(F) = ApproverFlies /\ SchedulerFlies = 0
    BY <1>2, <1>4, <2>1 DEF SchedulerFlies, Unit
  <2> QED
    BY <2>2, UnitTypes
<1>5. IsFiniteSet(F) /\ Cardinality(F) \in Nat /\ Cardinality(F) <= SchedulerFlies + ApproverFlies
  BY <1>3, <1>4
<1>6. {t \in Threads : Flying(t)} \subseteq F
  BY DEF Flying, OnItsWay
<1> DEFINE G == {t \in Threads : Flying(t)}
<1> HIDE DEF F, G
<1>7. Cardinality(G) \in Nat /\ Cardinality(G) <= Cardinality(F)
  BY <1>5, <1>6, FS_Subset, FS_CardinalityType DEF G
<1> QED
  BY <1>5, <1>7, UnitTypes DEF G

\* A crash forgets the threads and what they would have given back.
LEMMA CrashBudget ==
    ASSUME TypeOK, KeyAndReceipt, Orderly, Budget, Crash
    PROVE  KeyAndReceipt' /\ Orderly' /\ Budget'
<1>0. TypeThreads /\ sent \in Nat /\ orphans \in Nat /\ pardons \in Nat
      /\ Scheduler \in Threads /\ Approvers \subseteq Threads
  BY TypeParts DEF TypeWorld, Threads
<1>1. UNCHANGED <<effect, receipts, sent, pardons>> /\ Leave(Threads)
  BY DEF Crash, durable
<1>2. \A u \in Threads : pc'[u] = "idle" /\ ~safe'[u] /\ kind'[u] = "completed"
  BY <1>0, <1>1, LeaveType
<1>3. KeyAndReceipt'
  BY <1>1, <1>2 DEF KeyAndReceipt
<1>4. Orderly'
  BY <1>0, <1>2 DEF Orderly
<1>5. PICK n \in Nat : orphans' = orphans + n /\ n <= SchedulerFlies + ApproverFlies
  <2> DEFINE m == Cardinality({t \in Threads : Flying(t)})
  <2>1. m \in Nat /\ m <= SchedulerFlies + ApproverFlies
    BY FlyingCount
  <2>2. \E n \in 0 .. m : orphans' = orphans + n
    BY DEF Crash
  <2> HIDE DEF m
  <2>3. PICK n \in 0 .. m : orphans' = orphans + n
    BY <2>2
  <2>4. n \in Nat /\ n <= SchedulerFlies + ApproverFlies
    BY <2>1, <2>3, UnitTypes
  <2> QED
    BY <2>3, <2>4
<1>6. \A u \in Threads : ~OnItsWay(u)' /\ ~Unsent(u)'
  BY <1>2 DEF OnItsWay, Unsent
<1>7. SchedulerFlies' = 0 /\ ApproverFlies' = 0 /\ SchedulerReturns' = 0 /\ ApproverReturns' = 0
  BY <1>0, <1>6 DEF SchedulerFlies, ApproverFlies, SchedulerReturns, ApproverReturns, Unit
<1>8. SchedulersTurn' => SchedulersTurn
  BY <1>0, <1>1, <1>2 DEF SchedulersTurn
<1>9. /\ Spent \in Nat /\ Spent' \in Nat /\ Spent' <= Spent
      /\ Spent' + ApproverReturns' <= Spent + ApproverReturns
      /\ Spent' + SchedulerReturns' + ApproverReturns' <= Spent + SchedulerReturns + ApproverReturns
  <2>1. PICK x \in Nat, y \in Nat, r \in Nat, a \in Nat :
           x = SchedulerFlies /\ y = ApproverFlies /\ r = SchedulerReturns /\ a = ApproverReturns
    BY UnitTypes
  <2>2. Spent = sent + orphans + x + y /\ Spent' = sent + orphans + n
    BY <1>0, <1>1, <1>5, <1>7, <2>1 DEF Spent
  <2>3. /\ sent + orphans + x + y \in Nat /\ sent + orphans + n \in Nat
        /\ sent + orphans + n <= sent + orphans + x + y
        /\ sent + orphans + n + 0 <= sent + orphans + x + y + a
        /\ sent + orphans + n + 0 + 0 <= sent + orphans + x + y + r + a
    BY <1>0, <1>5, <2>1
  <2> QED
    BY <1>7, <2>1, <2>2, <2>3
<1>10. Budget'
  BY <1>0, <1>1, <1>7, <1>8, <1>9, UnitTypes, BudgetFrame
<1> QED
  BY <1>3, <1>4, <1>10

\* Sums with a smaller part.
LEMMA SmallerSums ==
    ASSUME NEW m \in Nat, NEW n \in Nat, NEW v \in Nat, NEW w \in Nat, m + n <= v + w,
           NEW x \in Nat, NEW y \in Nat, NEW r \in Nat, NEW a \in Nat
    PROVE  /\ v + w + x + y \in Nat /\ m + n + x + y \in Nat /\ m + n + x + y <= v + w + x + y
           /\ m + n + x + y + a <= v + w + x + y + a
           /\ m + n + x + y + r + a <= v + w + x + y + r + a
OBVIOUS

\* Without a step of a thread the budget depends on what arrived and may arrive.
LEMMA WorldBudget ==
    ASSUME TypeOK, Budget, UNCHANGED <<effect, pc, landed, safe, pardons>>,
           sent' \in Nat, orphans' \in Nat, sent' + orphans' <= sent + orphans,
           SchedulersTurn' => SchedulersTurn
    PROVE  Budget'
<1>0. sent \in Nat /\ orphans \in Nat /\ pardons \in Nat
  BY DEF TypeOK
<1>1. /\ Spent \in Nat /\ Spent' \in Nat /\ Spent' <= Spent
      /\ Spent' + ApproverReturns' <= Spent + ApproverReturns
      /\ Spent' + SchedulerReturns' + ApproverReturns' <= Spent + SchedulerReturns + ApproverReturns
  <2>1. PICK x \in Nat, y \in Nat, r \in Nat, a \in Nat :
           x = SchedulerFlies /\ y = ApproverFlies /\ r = SchedulerReturns /\ a = ApproverReturns
    BY UnitTypes
  <2>2. PICK m \in Nat, n \in Nat, v \in Nat, w \in Nat :
           m = sent' /\ n = orphans' /\ v = sent /\ w = orphans
    BY <1>0
  <2>3. /\ Spent = v + w + x + y /\ Spent' = m + n + x + y
        /\ SchedulerReturns' = r /\ ApproverReturns' = a
    BY <2>1, <2>2, SameUnits DEF Spent
  <2>4. m + n <= v + w
    BY <2>2
  <2>5. /\ v + w + x + y \in Nat /\ m + n + x + y \in Nat /\ m + n + x + y <= v + w + x + y
        /\ m + n + x + y + a <= v + w + x + y + a
        /\ m + n + x + y + r + a <= v + w + x + y + r + a
    BY <2>4, SmallerSums
  <2> QED
    BY <2>1, <2>3, <2>5
<1> QED
  BY <1>0, <1>1, UnitTypes, BudgetFrame

\* An orphan that lands or does not, time and the ledger.
LEMMA OtherBudget ==
    ASSUME TypeOK, KeyAndReceipt, Orderly, Budget,
           \/ OrphanLands \/ LedgerReconciles \/ UNCHANGED vars
           \/ \E i \in DOMAIN receipts : BackoffElapses(i)
    PROVE  KeyAndReceipt' /\ Orderly' /\ Budget'
<1>0. TypeRows /\ sent \in Nat /\ orphans \in Nat /\ pardons \in Nat
  BY TypeParts DEF TypeWorld
<1>1. UNCHANGED <<effect, pc, kind, landed, safe, pardons>>
  BY DEF OrphanLands, LedgerReconciles, BackoffElapses, durable, threads, world, vars
<1>2. \/ UNCHANGED receipts
      \/ /\ receipts # <<>> /\ receipts' # <<>> /\ Len(receipts') = 1 /\ receipts'[1].bound
         /\ receipts'[1].state = receipts[1].state
  <2>1. CASE OrphanLands \/ LedgerReconciles \/ UNCHANGED vars
    BY <2>1 DEF OrphanLands, LedgerReconciles, durable, vars
  <2>2. CASE \E i \in DOMAIN receipts : BackoffElapses(i)
    <3>1. receipts # <<>> /\ Len(receipts) = 1 /\ DOMAIN receipts = {1} /\ receipts[1].bound
      BY <2>2, OnlyReceipt
    <3> DEFINE r == [receipts[1] EXCEPT !.aged = TRUE]
    <3>2. receipts[1] \in Receipts
      BY <1>0, <3>1 DEF TypeRows
    <3>3. r \in Receipts /\ r.state = receipts[1].state /\ r.bound = receipts[1].bound
      BY <3>2 DEF Receipts
    <3>4. receipts' = [receipts EXCEPT ![1] = r]
      BY <2>2, <3>1 DEF BackoffElapses
    <3> HIDE DEF r
    <3>5. Len(receipts') = 1 /\ receipts'[1] = r
      BY <1>0, <3>1, <3>3, <3>4, ReceiptType
    <3>6. receipts' # <<>>
      BY <3>5
    <3> QED
      BY <3>1, <3>3, <3>5, <3>6
  <2> QED
    BY <2>1, <2>2
<1>3. KeyAndReceipt'
  BY <1>1, <1>2, KeyFrame DEF KeyAndReceipt
<1>4. Orderly'
  BY <1>1, <1>2 DEF Orderly
<1>5. sent' \in Nat /\ orphans' \in Nat /\ sent' + orphans' <= sent + orphans
  BY <1>0 DEF OrphanLands, LedgerReconciles, BackoffElapses, durable, world, vars
<1>6. SchedulersTurn' => SchedulersTurn
  BY <1>1, <1>2 DEF SchedulersTurn
<1>7. Budget'
  BY <1>1, <1>5, <1>6, WorldBudget
<1> QED
  BY <1>3, <1>4, <1>7

-----------------------------------------------------------------------------
(* The notice arrives once                                                 *)

\* Every step keeps the key, the order and the budget.
LEMMA StepBudget ==
    ASSUME OneKey, TypeOK, NothingYet, KeyAndReceipt, Orderly, Budget, [Next]_vars
    PROVE  KeyAndReceipt' /\ Orderly' /\ Budget'
<1>1. ASSUME NEW t \in Threads, DeliveryStep(t)
      PROVE  KeyAndReceipt' /\ Orderly' /\ Budget'
  BY <1>1, StartBudget, EarlyReturnBudget, ReserveBudget, DispatchBudget, ProviderBudget,
     FinishBudget, FailBudget, ApplyBudget DEF DeliveryStep
<1>2. ASSUME NEW t \in Threads, NoticeLands(t) \/ FaultyStep(t)
      PROVE  KeyAndReceipt' /\ Orderly' /\ Budget'
  BY <1>2, ProviderBudget, EarlyReturnBudget, LookupSucceeds, DispatchBudget, ApplyBudget
     DEF FaultyStep
<1> QED
  BY <1>1, <1>2, RetryBudget, OtherBudget, ConfirmBudget, CrashBudget DEF Next

\* They hold when the run begins.
LEMMA InitBudget == Init => KeyAndReceipt /\ Orderly /\ Budget
<1> SUFFICES ASSUME Init PROVE KeyAndReceipt /\ Orderly /\ Budget
  OBVIOUS
<1>0. Scheduler \in Threads /\ Approvers \subseteq Threads
  BY DEF Threads
<1>1. KeyAndReceipt
  BY DEF Init, KeyAndReceipt, Kinds
<1>2. Orderly
  BY <1>0 DEF Init, Orderly
<1>3. \A t \in Threads : ~OnItsWay(t) /\ ~Unsent(t)
  BY DEF Init, OnItsWay, Unsent
<1>4. SchedulerFlies = 0 /\ ApproverFlies = 0 /\ SchedulerReturns = 0 /\ ApproverReturns = 0
  BY <1>0, <1>3 DEF SchedulerFlies, ApproverFlies, SchedulerReturns, ApproverReturns, Unit
<1>5. sent = 0 /\ orphans = 0 /\ pardons = 0 /\ effect["completed"] = "absent"
  BY DEF Init, Kinds
<1>6. Spent = 0
  BY <1>4, <1>5 DEF Spent
<1>7. Budget
  BY <1>4, <1>5, <1>6 DEF Budget
<1> QED
  BY <1>1, <1>2, <1>7

\* They always hold when one thread finishes the run.
LEMMA BudgetHolds ==
    ASSUME OneKey
    PROVE  OneFinisher /\ Spec => [](KeyAndReceipt /\ Orderly /\ Budget)
<1>1. /\ TypeOK /\ NothingYet /\ KeyAndReceipt /\ Orderly /\ Budget /\ [Next]_vars
      => (KeyAndReceipt /\ Orderly /\ Budget)'
  BY StepBudget
<1> QED
  BY <1>1, InitBudget, TypesHold, NothingYetHolds, PTL DEF Spec

\* Steps that neither let a notice arrive nor take one back.
LEMMA AbstractStutter ==
    ASSUME UNCHANGED <<sent, pardons>>
    PROVE  UNCHANGED Once!vars
BY DEF Once!vars

\* A notice that arrives was in the budget.
LEMMA ArrivalPerforms ==
    ASSUME TypeOK, Budget, UNCHANGED pardons, sent' = sent + 1,
           orphans > 0 \/ \E t \in Threads : OnItsWay(t)
    PROVE  Once!Perform("notice")
<1>0. sent \in Nat /\ orphans \in Nat /\ pardons \in Nat
  BY DEF TypeOK
<1>1. PICK x \in {0, 1}, y \in {0, 1} : x = SchedulerFlies /\ y = ApproverFlies
  BY UnitTypes
<1>2. sent + orphans + x + y <= 1 + pardons
  BY <1>1 DEF Budget, Spent
<1>3. orphans > 0 \/ x = 1 \/ y = 1
  <2>1. CASE \E t \in Threads : OnItsWay(t)
    <3>1. OnItsWay(Scheduler) \/ \E a \in Approvers : OnItsWay(a)
      BY <2>1 DEF Threads
    <3> QED
      BY <1>1, <3>1 DEF SchedulerFlies, ApproverFlies, Unit
  <2> QED
    BY <2>1
<1>4. sent < 1 + pardons
  <2>1. x \in Nat /\ y \in Nat
    BY <1>1
  <2> QED
    BY <1>0, <1>2, <1>3, <2>1
<1> QED
  BY <1>4 DEF Once!Perform

\* A mistaken confirmation takes the notice back.
LEMMA ConfirmTakesBack ==
    ASSUME TypeOK, ConfirmTerminalDeliveryAbsent
    PROVE  Once!TakeBack("notice") \/ UNCHANGED Once!vars
<1>1. CASE MayHaveArrived
  <2>1. pardons' = pardons + 1 /\ sent' = sent /\ pardons \in Nat
    BY <1>1 DEF ConfirmTerminalDeliveryAbsent, TypeOK
  <2>2. 1 + pardons' = (1 + pardons) + 1
    BY <2>1
  <2> QED
    BY <2>1, <2>2 DEF Once!TakeBack
<1>2. CASE ~MayHaveArrived
  BY <1>2, AbstractStutter DEF ConfirmTerminalDeliveryAbsent
<1> QED
  BY <1>1, <1>2

\* Every step of the delivery is a step of the abstract specification or leaves
\* it alone.
LEMMA StepImplements ==
    ASSUME TypeOK, Budget, [Next]_vars
    PROVE  [Once!Next]_(Once!vars)
<1>1. ASSUME NEW t \in Threads, NoticeLands(t)
      PROVE  Once!Perform("notice") \/ UNCHANGED Once!vars
  <2>1. UNCHANGED pardons /\ OnItsWay(t) /\ (sent' = sent \/ sent' = sent + 1)
    BY <1>1 DEF NoticeLands, OnItsWay
  <2>2. CASE sent' = sent
    BY <2>1, <2>2, AbstractStutter
  <2>3. CASE sent' = sent + 1
    BY <2>1, <2>3, ArrivalPerforms
  <2> QED
    BY <2>1, <2>2, <2>3
<1>2. CASE OrphanLands
  <2>1. CASE sent' = sent
    BY <1>2, <2>1, AbstractStutter DEF OrphanLands
  <2>2. CASE sent' = sent + 1
    BY <1>2, <2>2, ArrivalPerforms DEF OrphanLands, Once!Next
  <2> QED
    BY <1>2, <2>1, <2>2 DEF OrphanLands
<1>3. ASSUME NEW t \in Threads, DeliveryStep(t)
      PROVE  UNCHANGED <<sent, pardons>>
  BY <1>3 DEF DeliveryStep, StartDelivery, AlreadyDelivered, DispatchedBefore, ReserveForSend,
     MarkRoutineDeliveryDispatched, ProviderAccepts, ProviderUnavailable, ProviderUncertain,
     FinishRoutineDelivery, FailRoutineDelivery, RecordResultPolicy, ReconcileTask, RecordStatus,
     ParkSchedule, BlockTask, world
<1>4. ASSUME NEW t \in Threads, FaultyStep(t)
      PROVE  UNCHANGED <<sent, pardons>>
  BY <1>4 DEF FaultyStep, ReservationFails, ReserveWithoutTask, DispatchFails, FinishFails,
     FailureNotRecorded, ApplyFails, world
<1>5. CASE \/ RetryPendingTerminalDelivery \/ \E i \in DOMAIN receipts : BackoffElapses(i)
           \/ LedgerReconciles \/ Crash \/ UNCHANGED vars
  BY <1>5, AbstractStutter DEF RetryPendingTerminalDelivery, BackoffElapses, LedgerReconciles,
     Crash, world, vars
<1>6. CASE ConfirmTerminalDeliveryAbsent
  BY <1>6, ConfirmTakesBack DEF Once!Next
<1>7. CASE \E t \in Threads : NoticeLands(t)
  BY <1>1, <1>7 DEF Once!Next
<1> QED
  BY <1>2, <1>3, <1>4, <1>5, <1>6, <1>7, AbstractStutter DEF Next

\* When one thread finishes the run, the delivery implements the abstract promise
\* of EffectOnce for every number of attempts, confirmations, failed writes and
\* crashes: the notice arrives at most once, and once more for each mistaken
\* confirmation (reserve, dispatch, finish and fail of delivery.rs). OneFinisher is
\* needed, two finishing threads break it (SentOnce); OneKey is what the argument
\* uses, the run checks the case without it.
THEOREM DeliveryImplementsEffectOnce ==
    ASSUME OneKey
    PROVE  OneFinisher /\ Spec => ImplementsEffectOnce
<1>1. Init => Once!Init
  <2>1. 1 + 0 = 1
    OBVIOUS
  <2> QED
    BY <2>1 DEF Init, Once!Init
<1>2. TypeOK /\ Budget /\ [Next]_vars => [Once!Next]_(Once!vars)
  BY StepImplements
<1> QED
  BY <1>1, <1>2, TypesHold, BudgetHolds, PTL DEF Spec, ImplementsEffectOnce, Once!Spec

=============================================================================
