----------------------- MODULE RoutineSchedulerProofs -----------------------
(***************************************************************************)
(* The scheduler for every interval, policy, cap, threshold, lease, end    *)
(* boundary and number of commands and crashes.                            *)
(*                                                                         *)
(* The types carry the cadence: every occurrence that a row, a plan, a     *)
(* snapshot or a run speaks of is in Times, a set that is closed under     *)
(* adding the interval.  That the plan of a claim stays in it, and is      *)
(* never empty, is an induction over the walk of Successors                *)
(* (RoutineSuccessors).  OnlyFailuresLeaveClaims needs to know at which    *)
(* steps a claim can be held (ClaimHeld).                                  *)
(***************************************************************************)
EXTENDS RoutineScheduler, RecurrenceProofs

-----------------------------------------------------------------------------
(* The inductive invariants                                                *)

\* The last instant a run can be due at.
Last == MaxTime + Interval + Backoff

\* Where the user, Run Now and transient failures let the routine be due.
Starts == anchors \union asked \union drift
Times == {None} \union CadenceFrom(Starts)

Ends == {"Completed", "Failed", "Transient", "AwaitingApproval", "Unverified", "Error"}
Stored == Ends \ {"Transient"}
Busy == {"running", "requeue", "persist", "policy", "finish"}
SchSteps == Busy \union {"asleep", "lease", "finalize", "claim", "skip", "plan", "rest"}
PermSteps == {"idle", "running", "load", "persist", "policy", "finish"}

\* The rows, plans and snapshots, with occurrences in T.
Entries(T) == [for : T \intersect Instant, next : T]
Plans(T) == Seq(Entries(T))
Snaps(T) == [next : T, last : Nat, resume : T]
Rows(T) ==
    [there : BOOLEAN, active : BOOLEAN, next : T, claimed : {None} \union Instant,
     reason : {"none", "user", "failures", "end"}, status : RunStatus \union {"none"},
     last : Nat, fails : Nat, resume : T]
RunRecs(T) == [for : T \intersect Instant, status : RunStatus]
Runs(T) == Seq(RunRecs(T))
Schs(T) ==
    [pc : SchSteps, at : Instant, snap : Snaps(T), plan : Plans(T), cur : Nat,
     outcome : Ends \union {"none"}]
Perms(T) == [pc : PermSteps, cur : Nat, outcome : Ends \union {"none"}, snap : Snaps(T)]

TypeRow == row \in Rows(Times)
TypeRuns == runs \in Runs(Times)
TypeSch == sch \in Schs(Times)
TypePerm == perm \in Perms(Times)
TypeRest ==
    /\ now \in Instant
    /\ lease \in [owner : 0..MaxEvents + 1, expires : 0..MaxTime + OwnerLease]
    /\ events \in Nat /\ crashes \in Nat /\ events + crashes <= MaxEvents /\ owner = crashes + 1
    /\ poll \in BOOLEAN /\ wake \in BOOLEAN /\ reopened \in BOOLEAN
    /\ Starts \subseteq 0..Last

\* Who points to a run points to one that exists, until the routine is deleted.
Pointers ==
    row.there => row.last <= Len(runs) /\ sch.cur <= Len(runs) /\ perm.cur <= Len(runs)

\* What a thread has read before the steps that rely on it.
Stages ==
    /\ sch.pc = "skip" => sch.snap.next # None /\ sch.snap.next <= sch.at
    /\ sch.pc \in Busy => sch.plan # <<>>
    /\ sch.pc = "persist" => sch.outcome \in Stored
    /\ perm.pc \in {"load", "persist"} => perm.outcome \in Stored

Types == TypeRow /\ TypeRuns /\ TypeSch /\ TypePerm /\ TypeRest /\ Pointers /\ Stages

\* A claim is held from the tick that took it to the result of the run.
ClaimHeld ==
    row.there /\ row.claimed # None =>
        \/ left
        \/ sch.pc \in {"skip", "running", "requeue", "persist"}
        \/ sch.pc = "plan" /\ sch.plan # <<>>

-----------------------------------------------------------------------------
(* The successors of an occurrence                                         *)

\* t comes a number of intervals after a.
OnFrom(a, t) == \E m \in Nat : t = a + m * Interval

LEMMA Constants ==
    /\ Interval \in Nat \ {0} /\ Cap \in Nat \ {0} /\ Threshold \in Nat \ {0}
    /\ Backoff \in Nat \ {0} /\ OwnerLease \in Nat \ {0} /\ ClaimLease \in Nat \ {0}
    /\ MaxTime \in Nat /\ Horizon \in Nat /\ MaxEvents \in Nat /\ MaxCatchUp \in Nat
    /\ Last \in Nat
BY SchedulerAssumption, CatchUpAssumption DEF Last

LEMMA Candidate ==
    ASSUME NEW t \in Nat
    PROVE  ScheduleCandidateAfter(Routine, t) = t + Interval
BY DEF ScheduleCandidateAfter, NextRunAfterInTimezone, Routine

LEMMA Successor ==
    ASSUME NEW t \in Nat
    PROVE  NextRunWithEndBoundary(Routine, t) \in {None, t + Interval}
<1>1. ~Routine.oneShot
  BY DEF Routine
<1> QED
  BY <1>1, Candidate DEF NextRunWithEndBoundary, CandidateWithinEndBoundary

LEMMA OnFromSelf ==
    ASSUME NEW a \in Nat
    PROVE  OnFrom(a, a) /\ OnFrom(a, a + Interval)
<1>1. a = a + 0 * Interval /\ a + Interval = a + 1 * Interval
  BY Constants
<1> QED
  BY <1>1 DEF OnFrom

LEMMA OnFromFrom ==
    ASSUME NEW a \in Nat, NEW b, NEW c, OnFrom(a, b), OnFrom(b, c)
    PROVE  OnFrom(a, c)
<1>1. PICK m \in Nat : b = a + m * Interval
  BY DEF OnFrom
<1>2. PICK k \in Nat : c = b + k * Interval
  BY DEF OnFrom
<1>3. c = a + (m + k) * Interval /\ m + k \in Nat
  BY <1>1, <1>2, Constants
<1> QED
  BY <1>3 DEF OnFrom

\* first_run_after_now_from_occurrence stays on the cadence of the occurrence
\* and goes at most one interval past now.
LEMMA PastNow ==
    ASSUME NEW o \in Nat, NEW at \in Nat, o <= at,
           NEW r, r = FirstRunAfterNowFromOccurrence(Routine, o, at)
    PROVE  r = None \/ (r \in Nat /\ r <= at + Interval /\ OnFrom(o, r))
<1> DEFINE c == NextRunWithEndBoundary(Routine, o)
           skipped == (at - c) \div Interval + 1
<1>0. Interval \in Nat \ {0}
  BY Constants
<1>1. r = IF Stops(c) \/ c > at THEN c ELSE CandidateWithinEndBoundary(Routine, c + skipped * Interval)
  BY DEF FirstRunAfterNowFromOccurrence, Routine
<1>2. c \in {None, o + Interval}
  BY Successor
<1>3. CASE c = None
  BY <1>1, <1>3 DEF Stops
<1>4. CASE c = o + Interval /\ c > at
  <2>1. r = o + Interval
    BY <1>1, <1>4
  <2> QED
    BY <2>1, <1>0, OnFromSelf
<1>5. CASE c = o + Interval /\ ~(c > at)
  <2>1. c \in Nat /\ at - c \in Nat /\ ~Stops(c)
    BY <1>5, <1>0 DEF Stops, None, Err
  <2>2. r \in {None, c + skipped * Interval}
    BY <1>1, <1>5, <2>1 DEF CandidateWithinEndBoundary
  <2>3. PICK d \in Nat : d = (at - c) \div Interval /\ d * Interval <= at - c
    BY <2>1, <1>0, Division
  <2>4. skipped = d + 1
    BY <2>3
  <2>5. (d + 1) * Interval = d * Interval + Interval /\ d * Interval \in Nat
    BY <1>0, <2>3
  <2>6. c + skipped * Interval \in Nat /\ c + skipped * Interval <= at + Interval
    BY <1>0, <2>1, <2>3, <2>4, <2>5
  <2>7. OnFrom(c, c + skipped * Interval)
    BY <2>4 DEF OnFrom
  <2>8. OnFrom(o, c)
    BY <1>5, OnFromSelf
  <2>9. OnFrom(o, c + skipped * Interval)
    BY <2>7, <2>8, OnFromFrom
  <2> QED
    BY <2>2, <2>6, <2>9
<1> QED
  BY <1>2, <1>3, <1>4, <1>5

\* A path of successors that starts at o and has not left "until" behind
\* before its last point.
IsRoutinePath(o, until, p) ==
    /\ p \in Seq(Int) /\ Len(p) >= 2 /\ p[1] = o
    /\ \A i \in 1..Len(p) - 1 :
          /\ p[i] \in Nat /\ p[i] <= until /\ OnFrom(o, p[i])
          /\ p[i + 1] \in {None, p[i] + Interval}

LEMMA RoutineStart ==
    ASSUME NEW o \in Nat, NEW until \in Nat, o <= until
    PROVE  IsRoutinePath(o, until, Start(Routine, o))
<1>1. NextRunWithEndBoundary(Routine, o) \in {None, o + Interval}
  BY Successor
<1>2. PICK x \in Int : x = NextRunWithEndBoundary(Routine, o) /\ x \in {None, o + Interval}
  BY <1>1, Constants DEF None
<1>3. OnFrom(o, o)
  BY OnFromSelf
<1> QED
  BY <1>2, <1>3 DEF IsRoutinePath, Start

LEMMA RoutineGrow ==
    ASSUME NEW o \in Nat, NEW until \in Nat, NEW p, IsRoutinePath(o, until, p)
    PROVE  IsRoutinePath(o, until, Grow(Routine, until, p))
<1> DEFINE last == p[Len(p)]
<1>1. p \in Seq(Int) /\ Len(p) >= 2 /\ p[1] = o /\ Len(p) \in Nat
  BY DEF IsRoutinePath
<1>2. CASE Stops(last) \/ last > until
  BY <1>2 DEF Grow
<1>3. CASE ~(Stops(last) \/ last > until)
  <2>1. Len(p) - 1 \in 1..Len(p) - 1 /\ (Len(p) - 1) + 1 = Len(p)
    BY <1>1
  <2>2. PICK b \in Nat : b = p[Len(p) - 1] /\ OnFrom(o, b) /\ last \in {None, b + Interval}
    BY <2>1 DEF IsRoutinePath
  <2>3. last = b + Interval /\ last \in Nat /\ last <= until
    BY <1>3, <2>2, Constants DEF Stops
  <2>4. OnFrom(o, last)
    BY <2>2, <2>3, OnFromSelf, OnFromFrom
  <2>5. PICK x \in Int : x = NextRunWithEndBoundary(Routine, last) /\ x \in {None, last + Interval}
    BY <2>3, Successor, Constants DEF None
  <2>6. Grow(Routine, until, p) = Append(p, x)
    BY <1>3, <2>5 DEF Grow
  <2>7. PICK q : q = Append(p, x)
    OBVIOUS
  <2>8. /\ q \in Seq(Int) /\ Len(q) = Len(p) + 1
        /\ \A i \in 1..Len(p) : q[i] = p[i]
        /\ q[Len(p) + 1] = x
    BY <1>1, <2>5, <2>7
  <2>9. ASSUME NEW i \in 1..Len(q) - 1
        PROVE  /\ q[i] \in Nat /\ q[i] <= until /\ OnFrom(o, q[i])
               /\ q[i + 1] \in {None, q[i] + Interval}
    <3>1. CASE i = Len(p)
      BY <3>1, <2>3, <2>4, <2>5, <2>8, <1>1
    <3>2. CASE i # Len(p)
      <4>1. i \in 1..Len(p) - 1 /\ i \in 1..Len(p) /\ i + 1 \in 1..Len(p)
        BY <3>2, <2>8, <1>1
      <4> QED
        BY <4>1, <2>8 DEF IsRoutinePath
    <3> QED
      BY <3>1, <3>2
  <2>10. IsRoutinePath(o, until, q)
    <3>1. q[1] = o /\ Len(q) >= 2
      BY <1>1, <2>8
    <3> QED
      BY <2>8, <2>9, <3>1 DEF IsRoutinePath
  <2> QED
    BY <2>6, <2>7, <2>10
<1> QED
  BY <1>2, <1>3

LEMMA RoutineSuccessors ==
    ASSUME NEW o \in Nat, NEW until \in Nat, o <= until
    PROVE  IsRoutinePath(o, until, Successors(Routine, o, until))
<1>1. PICK w : IsWalk(Routine, o, until, MaxCatchUp, w) /\ Successors(Routine, o, until) = w[MaxCatchUp]
  BY WalkIsChosen
<1> DEFINE S == {k \in 0..MaxCatchUp : IsRoutinePath(o, until, w[k])}
<1>2. \A k \in 0..MaxCatchUp : w[k] = IF k = 0 THEN Start(Routine, o) ELSE Grow(Routine, until, w[k - 1])
  BY <1>1 DEF IsWalk
<1>3. MaxCatchUp \in Nat
  BY Constants
<1>4. 0 \in S
  BY <1>2, <1>3, RoutineStart
<1>5. ASSUME NEW k \in 0..MaxCatchUp, k \in S, k < MaxCatchUp
      PROVE  k + 1 \in S
  <2>1. k + 1 \in 0..MaxCatchUp /\ k + 1 # 0 /\ (k + 1) - 1 = k
    BY <1>3, <1>5
  <2>2. w[k + 1] = Grow(Routine, until, w[k])
    BY <1>2, <2>1
  <2> QED
    BY <1>5, <2>1, <2>2, RoutineGrow
<1>6. MaxCatchUp \in S
  <2> HIDE DEF S
  <2> QED
    BY <1>3, <1>4, <1>5, Segment
<1> QED
  BY <1>1, <1>6

-----------------------------------------------------------------------------
(* Plans                                                                   *)

\* A set of instants that a cadence does not leave before the last one.
Closed(T) ==
    /\ None \in T /\ T \subseteq Later
    /\ \A t \in T \ {None}, r \in 0..Last : OnFrom(t, r) => r \in T

LEMMA PlannedNext ==
    ASSUME NEW T, Closed(T), NEW o \in Instant, o \in T, NEW at \in Instant, o <= at,
           NEW resume \in T
    PROVE  PlannedNextAfterClaim(Routine, o, resume, at) \in T
<1>0. /\ o \in Nat /\ at \in Nat /\ o \in T \ {None} /\ Interval \in Nat \ {0} /\ at + Interval <= Last
      /\ Last \in Nat
  BY Constants DEF Instant, None, Last
<1>1. CASE resume # None
  BY <1>1 DEF PlannedNextAfterClaim, CandidateWithinEndBoundary, Routine, Closed
<1>2. CASE resume = None /\ Policy # "run_each"
  <2>1. PICK r : r = FirstRunAfterNowFromOccurrence(Routine, o, at)
    OBVIOUS
  <2>2. PlannedNextAfterClaim(Routine, o, resume, at) = r
    BY <1>2, <2>1 DEF PlannedNextAfterClaim, Routine
  <2>3. r = None \/ (r \in Nat /\ r <= at + Interval /\ OnFrom(o, r))
    BY <1>0, <2>1, PastNow
  <2>4. r = None \/ (r \in 0..Last /\ OnFrom(o, r))
    BY <1>0, <2>3
  <2> QED
    BY <1>0, <2>2, <2>4 DEF Closed
<1>3. CASE resume = None /\ Policy = "run_each"
  <2>1. PlannedNextAfterClaim(Routine, o, resume, at) = NextRunWithEndBoundary(Routine, o)
    BY <1>3 DEF PlannedNextAfterClaim, Routine
  <2>2. o + Interval \in 0..Last /\ OnFrom(o, o + Interval)
    BY <1>0, OnFromSelf
  <2> QED
    BY <1>0, <2>1, <2>2, Successor DEF Closed
<1> QED
  BY <1>1, <1>2, <1>3

\* claimed_occurrences_at plans at least one occurrence, all of them due and on
\* the cadence.
LEMMA PlanOfClaim ==
    ASSUME NEW T, Closed(T), NEW o \in Instant, o \in T, NEW at \in Instant, o <= at,
           NEW resume \in T
    PROVE  /\ ClaimedOccurrencesAt(Routine, o, resume, at) \in Plans(T)
           /\ ClaimedOccurrencesAt(Routine, o, resume, at) # <<>>
<1>0. /\ o \in Nat /\ at \in Nat /\ o \in T \ {None} /\ Interval \in Nat \ {0} /\ at + Interval <= Last
      /\ Last \in Nat /\ at <= MaxTime
  BY Constants DEF Instant, None, Last
<1>1. CASE resume # None \/ Policy # "run_each"
  <2>1. PICK n \in T : n = PlannedNextAfterClaim(Routine, o, resume, at)
    BY PlannedNext
  <2>2. ClaimedOccurrencesAt(Routine, o, resume, at) = <<[for |-> o, next |-> n]>>
    BY <1>1, <2>1 DEF ClaimedOccurrencesAt, Routine
  <2>3. [for |-> o, next |-> n] \in Entries(T)
    BY <2>1 DEF Entries
  <2> QED
    BY <2>2, <2>3 DEF Plans
<1>2. CASE resume = None /\ Policy = "run_each"
  <2> DEFINE pa == Successors(Routine, o, at)
             c == Min({Cap, Len(pa) - 1})
             nx(k) == IF k = c /\ ~Stops(pa[k + 1]) /\ pa[k + 1] <= at
                      THEN FirstRunAfterNowFromOccurrence(Routine, pa[k], at) ELSE pa[k + 1]
  <2>1. ClaimedOccurrencesAt(Routine, o, resume, at) = [k \in 1..c |-> [for |-> pa[k], next |-> nx(k)]]
    BY <1>2 DEF ClaimedOccurrencesAt, Routine
  <2>2. PICK path : path = pa /\ IsRoutinePath(o, at, path)
    BY <1>0, RoutineSuccessors
  <2>3. PICK count \in Nat : count = c /\ count >= 1 /\ count <= Len(path) - 1
    <3>1. Len(path) - 1 \in Nat /\ Len(path) - 1 >= 1 /\ Cap \in Nat /\ Cap >= 1
      BY <2>2, Constants DEF IsRoutinePath
    <3>2. PICK b \in Nat : b = Len(path) - 1 /\ b >= 1
      BY <3>1
    <3>3. c = Min({Cap, b})
      BY <2>2, <3>2
    <3>4. Min({Cap, b}) \in {Cap, b} /\ Min({Cap, b}) <= b
      BY <3>1, MinOfTwo
    <3> HIDE DEF c
    <3> QED
      BY <3>1, <3>2, <3>3, <3>4
  <2>4. ASSUME NEW k \in 1..count
        PROVE  [for |-> pa[k], next |-> nx(k)] \in Entries(T)
    <3>1. k \in 1..Len(path) - 1
      BY <2>2, <2>3 DEF IsRoutinePath
    <3>2. /\ path[k] \in Nat /\ path[k] <= at /\ OnFrom(o, path[k])
          /\ path[k + 1] \in {None, path[k] + Interval}
      BY <2>2, <3>1 DEF IsRoutinePath
    <3>3. path[k] \in T /\ path[k] \in Instant
      <4>1. PICK x \in Nat : x = path[k] /\ x <= at /\ OnFrom(o, x)
        BY <3>2
      <4>2. x \in 0..Last /\ x \in 0..MaxTime
        BY <1>0, <4>1, Constants
      <4>3. x \in T
        BY <1>0, <4>1, <4>2 DEF Closed
      <4> QED
        BY <4>1, <4>2, <4>3 DEF Instant
    <3>4. path[k + 1] \in T
      <4>1. path[k] + Interval \in 0..Last /\ OnFrom(path[k], path[k] + Interval)
        BY <1>0, <3>2, OnFromSelf
      <4>2. path[k] \in T \ {None}
        BY <3>2, <3>3 DEF None
      <4> QED
        BY <3>2, <4>1, <4>2 DEF Closed
    <3>5. FirstRunAfterNowFromOccurrence(Routine, path[k], at) \in T
      <4>1. PICK r : r = FirstRunAfterNowFromOccurrence(Routine, path[k], at)
        OBVIOUS
      <4>2. r = None \/ (r \in Nat /\ r <= at + Interval /\ OnFrom(path[k], r))
        BY <1>0, <3>2, <4>1, PastNow
      <4>3. r = None \/ (r \in 0..Last /\ OnFrom(path[k], r))
        BY <1>0, <4>2
      <4>4. path[k] \in T \ {None}
        BY <3>2, <3>3 DEF None
      <4> QED
        BY <4>1, <4>3, <4>4 DEF Closed
    <3>6. nx(k) \in T
      BY <2>2, <3>4, <3>5
    <3>7. PICK x, y : x = pa[k] /\ y = nx(k)
      OBVIOUS
    <3>8. x \in T \intersect Instant /\ y \in T
      BY <2>2, <3>3, <3>6, <3>7
    <3>9. [for |-> x, next |-> y] \in Entries(T)
      BY <3>8 DEF Entries
    <3> QED
      BY <3>7, <3>9
  <2>5. PICK plan : plan = [k \in 1..count |-> [for |-> pa[k], next |-> nx(k)]]
    OBVIOUS
  <2>6. plan \in [1..count -> Entries(T)]
    <3> DEFINE en(k) == [for |-> pa[k], next |-> nx(k)]
    <3>1. \A k \in 1..count : en(k) \in Entries(T)
      BY <2>4
    <3>2. plan = [k \in 1..count |-> en(k)]
      BY <2>5
    <3> HIDE DEF en
    <3> QED
      BY <3>1, <3>2
  <2>7. plan \in Seq(Entries(T)) /\ plan # <<>>
    <3>1. plan \in Seq(Entries(T)) /\ Len(plan) = count
      BY <2>6
    <3> QED
      BY <2>3, <3>1
  <2>8. ClaimedOccurrencesAt(Routine, o, resume, at) = plan
    BY <2>1, <2>3, <2>5
  <2> QED
    BY <2>7, <2>8 DEF Plans
<1> QED
  BY <1>1, <1>2

\* Released gives back the claim at a later occurrence of the cadence.
LEMMA ReleasedNext ==
    ASSUME NEW T, Closed(T), NEW o \in Instant, o \in T, NEW at \in Instant, o <= at
    PROVE  FirstRunAfterNowFromOccurrence(Routine, o, at) \in T
<1>0. o \in Nat /\ at \in Nat /\ o \in T \ {None} /\ at + Interval <= Last /\ Last \in Nat
  BY Constants DEF Instant, None, Last
<1>1. PICK r : r = FirstRunAfterNowFromOccurrence(Routine, o, at)
  OBVIOUS
<1>2. r = None \/ (r \in Nat /\ r <= at + Interval /\ OnFrom(o, r))
  BY <1>0, <1>1, PastNow
<1>3. r = None \/ (r \in 0..Last /\ OnFrom(o, r))
  BY <1>0, <1>2, Constants
<1> QED
  BY <1>0, <1>1, <1>3 DEF Closed

-----------------------------------------------------------------------------
(* The cadence that the user and the failures fixed                        *)

LEMMA CadenceSelf ==
    ASSUME NEW S, NEW t \in 0..Last, t \in S
    PROVE  t \in CadenceFrom(S)
<1>1. (t - t) % Interval = 0
  <2>1. t - t = 0 * Interval
    BY Constants
  <2> QED
    BY <2>1, MultipleHasNoRest, Constants
<1> QED
  BY <1>1 DEF CadenceFrom, Last

LEMMA CadenceMonotone ==
    ASSUME NEW S, NEW U, S \subseteq U
    PROVE  CadenceFrom(S) \subseteq CadenceFrom(U)
BY DEF CadenceFrom

LEMMA CadenceGoesOn ==
    ASSUME NEW S, S \subseteq 0..Last, NEW t \in CadenceFrom(S), NEW r \in 0..Last, OnFrom(t, r)
    PROVE  r \in CadenceFrom(S)
<1>0. Interval \in Nat \ {0} /\ Last \in Nat
  BY Constants
<1>1. t \in 0..Last
  BY DEF CadenceFrom, Last
<1>2. PICK a \in S : t >= a /\ (t - a) % Interval = 0
  BY DEF CadenceFrom
<1>3. PICK m \in Nat : r = t + m * Interval
  BY DEF OnFrom
<1>4. a \in Nat /\ t - a \in Nat
  BY <1>0, <1>1, <1>2
<1>5. PICK q \in Nat : t - a = q * Interval
  <2>1. PICK x \in Nat : x = t - a /\ x % Interval = 0
    BY <1>2, <1>4
  <2>2. PICK d \in Nat : d = x \div Interval /\ x % Interval = x - d * Interval
    BY <1>0, Division
  <2>3. x = d * Interval
    BY <1>0, <2>1, <2>2
  <2> QED
    BY <2>1, <2>3
<1>6. r - a = (q + m) * Interval /\ q + m \in Nat
  BY <1>0, <1>1, <1>3, <1>4, <1>5
<1>7. (r - a) % Interval = 0
  BY <1>0, <1>6, MultipleHasNoRest
<1>8. m * Interval \in Nat
  BY <1>0
<1>9. r >= a
  BY <1>1, <1>2, <1>3, <1>4, <1>8
<1> QED
  BY <1>7, <1>9 DEF CadenceFrom, Last

LEMMA CadenceClosed ==
    ASSUME NEW S, S \subseteq 0..Last
    PROVE  Closed({None} \union CadenceFrom(S))
<1>1. CadenceFrom(S) \subseteq Later
  BY DEF CadenceFrom, Later
<1>2. None \in Later
  BY DEF Later
<1> QED
  BY <1>1, <1>2, CadenceGoesOn DEF Closed

LEMMA TimesClosed ==
    ASSUME TypeRest
    PROVE  Closed(Times)
<1>1. Starts \subseteq 0..Last
  BY DEF TypeRest
<1> QED
  BY <1>1, CadenceClosed DEF Times

LEMMA TimesStay ==
    ASSUME UNCHANGED <<anchors, asked, drift>>
    PROVE  Starts' = Starts /\ Times' = Times
<1>1. Starts' = Starts
  BY DEF Starts
<1> QED
  BY <1>1 DEF Times, CadenceFrom

LEMMA TimesGrow ==
    ASSUME Starts \subseteq Starts'
    PROVE  Times \subseteq Times'
<1>1. CadenceFrom(Starts) \subseteq CadenceFrom(Starts')
  BY CadenceMonotone
<1>2. Times' = {None} \union CadenceFrom(Starts')
  BY DEF Times, CadenceFrom
<1> QED
  BY <1>1, <1>2 DEF Times

\* An instant that is added to the starts unless it is on the user's cadence.
LEMMA TimesAdded ==
    ASSUME NEW t \in 0..Last, Starts \subseteq Starts', OffCadence({t}) \subseteq Starts'
    PROVE  t \in Times'
<1>0. Times' = {None} \union CadenceFrom(Starts')
  BY DEF Times, CadenceFrom
<1>1. CASE t \in CadenceFrom(anchors)
  <2>1. CadenceFrom(anchors) \subseteq CadenceFrom(Starts')
    BY CadenceMonotone DEF Starts
  <2> QED
    BY <1>0, <1>1, <2>1
<1>2. CASE t \notin CadenceFrom(anchors)
  <2>1. t \in Starts'
    BY <1>2 DEF OffCadence
  <2>2. t \in CadenceFrom(Starts')
    BY <2>1, CadenceSelf
  <2> QED
    BY <1>0, <2>2
<1> QED
  BY <1>1, <1>2

-----------------------------------------------------------------------------
(* What the operations on rows and threads return                          *)

LEMMA Wider ==
    ASSUME NEW T, NEW U, T \subseteq U
    PROVE  /\ Rows(T) \subseteq Rows(U) /\ Snaps(T) \subseteq Snaps(U)
           /\ Plans(T) \subseteq Plans(U) /\ Runs(T) \subseteq Runs(U)
           /\ Schs(T) \subseteq Schs(U) /\ Perms(T) \subseteq Perms(U)
<1>1. Rows(T) \subseteq Rows(U)
  BY DEF Rows
<1>2. Snaps(T) \subseteq Snaps(U)
  BY DEF Snaps
<1>3. Plans(T) \subseteq Plans(U)
  <2>1. Entries(T) \subseteq Entries(U)
    BY DEF Entries
  <2> QED
    BY <2>1 DEF Plans
<1>4. Runs(T) \subseteq Runs(U)
  <2>1. RunRecs(T) \subseteq RunRecs(U)
    BY DEF RunRecs
  <2> QED
    BY <2>1 DEF Runs
<1>5. Schs(T) \subseteq Schs(U)
  BY <1>2, <1>3 DEF Schs
<1>6. Perms(T) \subseteq Perms(U)
  BY <1>2 DEF Perms
<1> QED
  BY <1>1, <1>2, <1>3, <1>4, <1>5, <1>6

LEMMA Idle ==
    ASSUME NEW T, None \in T
    PROVE  /\ Asleep \in Schs(T) /\ [Asleep EXCEPT !.pc = "lease"] \in Schs(T)
           /\ Asleep.pc = "asleep" /\ Asleep.cur = 0
           /\ [Asleep EXCEPT !.pc = "lease"].pc = "lease" /\ [Asleep EXCEPT !.pc = "lease"].cur = 0
           /\ NoPerm \in Perms(T) /\ NoPerm.pc = "idle" /\ NoPerm.cur = 0
<1>1. NoSnap \in Snaps(T)
  BY DEF NoSnap, Snaps
<1>2. <<>> \in Plans(T)
  BY DEF Plans
<1>3. 0 \in Instant
  BY Constants DEF Instant
<1> QED
  BY <1>1, <1>2, <1>3 DEF Asleep, NoPerm, Schs, Perms, SchSteps, PermSteps, Busy

LEMMA NextOccurrenceIs ==
    ASSUME NEW T, NEW s \in Schs(T), s.plan # <<>>
    PROVE  /\ NextOccurrence(s) \in Schs(T)
           /\ NextOccurrence(s).pc = "plan" /\ NextOccurrence(s).cur = 0
           /\ NextOccurrence(s).plan = Tail(s.plan)
<1>1. Tail(s.plan) \in Plans(T)
  BY DEF Schs, Plans
<1>2. PICK p \in Plans(T) : p = Tail(s.plan)
  BY <1>1
<1> QED
  BY <1>2 DEF NextOccurrence, Schs, SchSteps

LEMMA HeadIs ==
    ASSUME NEW T, NEW s \in Schs(T), s.plan # <<>>
    PROVE  Head(s.plan) \in Entries(T) /\ Head(s.plan).for \in T \intersect Instant /\ Head(s.plan).next \in T
<1>1. Head(s.plan) \in Entries(T)
  BY DEF Schs, Plans
<1> QED
  BY <1>1 DEF Entries

LEMMA FinishedIs ==
    ASSUME NEW T, None \in T, NEW r \in Rows(T)
    PROVE  /\ Finished(r) \in Rows(T) /\ Finished(r).there = r.there /\ Finished(r).last = r.last
           /\ Finished(r).claimed = None /\ Finished(r).active = FALSE
BY DEF Finished, Rows

LEMMA PersistedIs ==
    ASSUME NEW T, None \in T, NEW r \in Rows(T), NEW status \in RunStatus, NEW instance \in Nat,
           NEW next \in T
    PROVE  /\ Persisted(r, status, instance, next) \in Rows(T)
           /\ Persisted(r, status, instance, next).there = r.there
           /\ Persisted(r, status, instance, next).last = instance
           /\ Persisted(r, status, instance, next).claimed = None
           /\ Persisted(r, status, instance, next).active = r.active
           /\ Persisted(r, status, instance, next).fails = r.fails
BY DEF Persisted, Rows

LEMMA WithPolicyIs ==
    ASSUME NEW T, NEW r \in Rows(T), NEW failed \in BOOLEAN, NEW w, w = WithPolicy(r, failed)
    PROVE  /\ w \in Rows(T) /\ w.there = r.there
           /\ w.last = r.last /\ w.claimed = r.claimed
           /\ w.active => w.fails < Threshold
<1>0. Threshold \in Nat \ {0} /\ r.fails \in Nat
  BY Constants DEF Rows
<1>1. CASE ~failed
  <2>1. w = [r EXCEPT !.fails = 0, !.reason = "none"]
    BY <1>1 DEF WithPolicy
  <2>2. w \in Rows(T) /\ w.there = r.there /\ w.last = r.last /\ w.claimed = r.claimed
    <3>1. 0 \in Nat /\ "none" \in {"none", "user", "failures", "end"}
      OBVIOUS
    <3>2. w \in Rows(T)
      BY <2>1, <3>1 DEF Rows
    <3> QED
      BY <2>1, <3>2 DEF Rows
  <2>3. w.fails = 0
    BY <2>1 DEF Rows
  <2> QED
    BY <1>0, <2>2, <2>3
<1>2. CASE failed
  <2>1. PICK n \in Nat : n = r.fails + 1
    BY <1>0
  <2>2. CASE n < Threshold
    <3>1. w = [r EXCEPT !.fails = n]
      BY <1>2, <2>1, <2>2 DEF WithPolicy
    <3>2. w \in Rows(T) /\ w.there = r.there /\ w.last = r.last /\ w.claimed = r.claimed
      BY <3>1 DEF Rows
    <3>3. w.fails = n
      BY <3>1 DEF Rows
    <3> QED
      BY <2>2, <3>2, <3>3
  <2>3. CASE ~(n < Threshold)
    <3>1. w = [r EXCEPT !.fails = n, !.active = FALSE, !.reason = "failures"]
      BY <1>2, <2>1, <2>3 DEF WithPolicy
    <3>2. w \in Rows(T) /\ w.there = r.there /\ w.last = r.last /\ w.claimed = r.claimed
      BY <3>1 DEF Rows
    <3>3. w.active = FALSE
      BY <3>1 DEF Rows
    <3> QED
      BY <3>2, <3>3
  <2> QED
    BY <2>2, <2>3
<1> QED
  BY <1>1, <1>2

LEMMA ReleasedIs ==
    ASSUME NEW T, Closed(T), NEW r \in Rows(T), NEW o \in Instant, o \in T, NEW at \in Instant, o <= at
    PROVE  /\ Released(r, o, at) \in Rows(T) /\ Released(r, o, at).there = r.there
           /\ Released(r, o, at).last = r.last /\ Released(r, o, at).claimed = None
           /\ Released(r, o, at).active => r.active /\ Released(r, o, at).fails = r.fails
<1>1. PICK later \in T : later = FirstRunAfterNowFromOccurrence(Routine, o, at)
  BY ReleasedNext
<1>2. Released(r, o, at) =
        IF later = None THEN Finished(r)
        ELSE [r EXCEPT !.claimed = None, !.next = later, !.status = "Pending"]
  BY <1>1 DEF Released
<1>3. CASE later = None
  <2>1. None \in T
    BY DEF Closed
  <2> QED
    BY <1>2, <1>3, <2>1, FinishedIs
<1>4. CASE later # None
  <2>1. Released(r, o, at) = [r EXCEPT !.claimed = None, !.next = later, !.status = "Pending"]
    BY <1>2, <1>4
  <2>2. PICK w : w = [r EXCEPT !.claimed = None, !.next = later, !.status = "Pending"]
    OBVIOUS
  <2>3. "Pending" \in RunStatus \union {"none"}
    BY DEF RunStatus
  <2>4. w \in Rows(T)
    BY <2>2, <2>3 DEF Rows
  <2>5. w.there = r.there /\ w.last = r.last /\ w.claimed = None /\ w.active = r.active
        /\ w.fails = r.fails
    BY <2>2 DEF Rows
  <2> QED
    BY <2>1, <2>2, <2>4, <2>5
<1> QED
  BY <1>3, <1>4

\* A run's status changes, and nothing else of the runs.
SameRuns(new, old) ==
    Len(new) = Len(old) /\ \A i \in 1..Len(old) : new[i].for = old[i].for

LEMMA StatusChange ==
    ASSUME NEW T, NEW rs \in Runs(T), NEW i, NEW v \in RunStatus
    PROVE  /\ [rs EXCEPT ![i].status = v] \in Runs(T)
           /\ SameRuns([rs EXCEPT ![i].status = v], rs)
<1>1. rs \in Seq(RunRecs(T))
  BY DEF Runs
<1>2. CASE i \in 1..Len(rs)
  <2>1. rs[i] \in RunRecs(T)
    BY <1>1, <1>2
  <2>2. PICK e : e = [rs[i] EXCEPT !.status = v] /\ e \in RunRecs(T) /\ e.for = rs[i].for
    <3>1. PICK x \in RunRecs(T) : x = rs[i]
      BY <2>1
    <3>2. [x EXCEPT !.status = v] \in RunRecs(T) /\ [x EXCEPT !.status = v].for = x.for
      BY DEF RunRecs
    <3> QED
      BY <3>1, <3>2
  <2>3. [rs EXCEPT ![i].status = v] = [rs EXCEPT ![i] = e]
    BY <2>2
  <2>4. PICK q : q = [rs EXCEPT ![i] = e]
    OBVIOUS
  <2>5. q \in Seq(RunRecs(T)) /\ Len(q) = Len(rs) /\ \A j \in 1..Len(rs) : q[j] = IF j = i THEN e ELSE rs[j]
    BY <1>1, <1>2, <2>2, <2>4
  <2>6. SameRuns(q, rs)
    BY <2>2, <2>5 DEF SameRuns
  <2> QED
    BY <2>3, <2>4, <2>5, <2>6 DEF Runs
<1>3. CASE i \notin 1..Len(rs)
  <2>1. i \notin DOMAIN rs
    BY <1>1, <1>3
  <2>2. [rs EXCEPT ![i].status = v] = rs
    BY <1>1, <2>1
  <2> QED
    BY <2>2 DEF SameRuns
<1> QED
  BY <1>2, <1>3

-----------------------------------------------------------------------------
(* Types: the scheduler's steps                                            *)

LEMMA Base ==
    ASSUME Types
    PROVE  /\ None \in Times /\ Closed(Times) /\ now \in Instant
           /\ row \in Rows(Times) /\ runs \in Runs(Times)
           /\ sch \in Schs(Times) /\ perm \in Perms(Times)
           /\ Len(runs) \in Nat /\ sch.cur \in Nat /\ perm.cur \in Nat /\ row.last \in Nat
<1>1. Closed(Times)
  BY TimesClosed DEF Types
<1>2. None \in Times
  BY DEF Times
<1> QED
  BY <1>1, <1>2 DEF Types, TypeRow, TypeRuns, TypeSch, TypePerm, TypeRest, Runs, Rows, Schs, Perms

LEMMA PointersStay ==
    ASSUME Types, Len(runs') = Len(runs), row'.there => row.there,
           row'.last \in {0, row.last, sch.cur, perm.cur}, sch'.cur \in {0, sch.cur},
           perm'.cur \in {0, perm.cur}
    PROVE  Pointers'
<1>1. SUFFICES ASSUME row'.there
               PROVE  row'.last <= Len(runs') /\ sch'.cur <= Len(runs') /\ perm'.cur <= Len(runs')
  BY DEF Pointers
<1>2. row.last <= Len(runs) /\ sch.cur <= Len(runs) /\ perm.cur <= Len(runs)
  BY <1>1 DEF Types, Pointers
<1>3. 0 <= Len(runs)
  BY Base
<1> QED
  BY <1>2, <1>3

LEMMA RestStays ==
    ASSUME Types, UNCHANGED <<now, lease, owner, events, crashes, anchors, asked, drift>>,
           poll' \in BOOLEAN, wake' \in BOOLEAN, reopened' \in BOOLEAN
    PROVE  TypeRest'
BY TimesStay DEF Types, TypeRest

\* A step of the scheduler thread that leaves the other thread alone.
LEMMA SchedulerKeeps ==
    ASSUME Types, UNCHANGED <<anchors, asked, drift, perm>>,
           row' \in Rows(Times), runs' \in Runs(Times), sch' \in Schs(Times),
           TypeRest', Pointers',
           sch'.pc = "skip" => sch'.snap.next # None /\ sch'.snap.next <= sch'.at,
           sch'.pc \in Busy => sch'.plan # <<>>,
           sch'.pc = "persist" => sch'.outcome \in Stored
    PROVE  Types'
<1>1. Times' = Times
  BY TimesStay
<1>2. Stages'
  BY DEF Types, Stages
<1> QED
  BY <1>1, <1>2 DEF Types, TypeRow, TypeRuns, TypeSch, TypePerm

LEMMA Moved ==
    ASSUME NEW T, NEW s \in Schs(T), NEW p \in SchSteps, NEW w, w = [s EXCEPT !.pc = p]
    PROVE  /\ w \in Schs(T) /\ w.pc = p /\ w.plan = s.plan /\ w.cur = s.cur
           /\ w.outcome = s.outcome /\ w.snap = s.snap /\ w.at = s.at
BY DEF Schs

LEMMA SchMoves ==
    ASSUME Types, NEW p \in SchSteps, sch' = [sch EXCEPT !.pc = p]
    PROVE  /\ sch' \in Schs(Times) /\ sch'.pc = p /\ sch'.plan = sch.plan /\ sch'.cur = sch.cur
           /\ sch'.outcome = sch.outcome /\ sch'.snap = sch.snap /\ sch'.at = sch.at
<1>1. sch \in Schs(Times)
  BY Base
<1> QED
  BY <1>1, Moved

LEMMA Steps == {"asleep", "lease", "finalize", "claim", "skip", "plan", "rest"} \union Busy \subseteq SchSteps
BY DEF SchSteps

LEMMA WakeUpTypes ==
    ASSUME Types, WakeUp
    PROVE  Types'
<1>1. sch' = [sch EXCEPT !.pc = "lease"] /\ wake' = FALSE
  BY DEF WakeUp
<1>2. UNCHANGED <<now, row, runs, lease, owner, poll, perm, events, crashes, anchors, asked, drift, reopened>>
  BY DEF WakeUp, dbVars, bounds, history
<1>3. sch' \in Schs(Times) /\ sch'.pc = "lease" /\ sch'.cur = sch.cur
  BY <1>1, Steps, SchMoves
<1>4. TypeRest'
  BY <1>1, <1>2, RestStays DEF Types, TypeRest
<1>5. Pointers'
  BY <1>2, <1>3, PointersStay
<1> QED
  BY <1>2, <1>3, <1>4, <1>5, Base, SchedulerKeeps DEF Busy

LEMMA AcquireLeaseTypes ==
    ASSUME Types, AcquireLease
    PROVE  Types'
<1>1. PICK p \in {"rest", "finalize"} : sch' = [sch EXCEPT !.pc = p]
  BY DEF AcquireLease
<1>2. UNCHANGED <<now, row, runs, owner, poll, wake, perm, events, crashes, anchors, asked, drift, reopened>>
  BY DEF AcquireLease, bounds, history
<1>3. sch' \in Schs(Times) /\ sch'.pc = p /\ sch'.cur = sch.cur
  BY <1>1, Steps, SchMoves
<1>4. lease' \in [owner : 0..MaxEvents + 1, expires : 0..MaxTime + OwnerLease]
  <2>1. CASE lease' = lease
    BY <2>1 DEF Types, TypeRest
  <2>2. CASE lease' = [owner |-> owner, expires |-> now + OwnerLease]
    <3>1. owner \in 0..MaxEvents + 1 /\ now + OwnerLease \in 0..MaxTime + OwnerLease
      BY Constants DEF Types, TypeRest, Instant
    <3> QED
      BY <2>2, <3>1
  <2> QED
    BY <2>1, <2>2 DEF AcquireLease
<1>5. TypeRest'
  BY <1>2, <1>4, TimesStay DEF Types, TypeRest
<1>6. Pointers'
  BY <1>2, <1>3, PointersStay
<1> QED
  BY <1>2, <1>3, <1>5, <1>6, Base, SchedulerKeeps DEF Busy

LEMMA FinalizeTypes ==
    ASSUME Types, Finalize
    PROVE  Types'
<1>1. sch' = [sch EXCEPT !.pc = "claim", !.at = now] /\ row' \in {row, Finished(row)}
  BY DEF Finalize
<1>2. UNCHANGED <<now, runs, lease, owner, poll, wake, perm, events, crashes, anchors, asked, drift, reopened>>
  BY DEF Finalize, bounds, history
<1>3. sch' \in Schs(Times) /\ sch'.pc = "claim" /\ sch'.cur = sch.cur
  BY <1>1, Base DEF Schs, SchSteps
<1>4. row' \in Rows(Times) /\ row'.there = row.there /\ row'.last = row.last
  BY <1>1, Base, FinishedIs
<1>5. TypeRest'
  BY <1>2, RestStays DEF Types, TypeRest
<1>6. Pointers'
  BY <1>2, <1>3, <1>4, PointersStay
<1> QED
  BY <1>2, <1>3, <1>4, <1>5, <1>6, Base, SchedulerKeeps DEF Busy

LEMMA ClaimDueTypes ==
    ASSUME Types, ClaimDue
    PROVE  Types'
<1>0. UNCHANGED <<now, runs, lease, owner, poll, wake, perm, events, crashes, anchors, asked, drift, reopened>>
  BY DEF ClaimDue, bounds, history
<1>1. TypeRest'
  BY <1>0, RestStays DEF Types, TypeRest
<1>2. CASE Claimable(sch.at)
  <2>1. PICK sn : sn = [next |-> row.next, last |-> row.last, resume |-> row.resume]
    OBVIOUS
  <2>2. sn \in Snaps(Times) /\ sn.next = row.next
    BY <2>1, Base DEF Rows, Snaps
  <2>3. sch' = [sch EXCEPT !.pc = "skip", !.snap = sn]
    BY <1>2, <2>1 DEF ClaimDue
  <2>4. /\ sch' \in Schs(Times) /\ sch'.pc = "skip" /\ sch'.cur = sch.cur /\ sch'.at = sch.at
        /\ sch'.snap = sn
    BY <2>2, <2>3, Base DEF Schs, SchSteps
  <2>5. row' = [row EXCEPT !.claimed = sch.at, !.status = "Running"]
    BY <1>2 DEF ClaimDue
  <2>6. sch.at \in Instant
    BY Base DEF Schs
  <2>7. row' \in Rows(Times) /\ row'.there = row.there /\ row'.last = row.last
    BY <2>5, <2>6, Base DEF Rows, RunStatus
  <2>8. row.next # None /\ row.next <= sch.at
    BY <1>2 DEF Claimable
  <2>9. Pointers'
    BY <1>0, <2>4, <2>7, PointersStay
  <2> QED
    BY <1>0, <1>1, <2>2, <2>4, <2>7, <2>8, <2>9, Base, SchedulerKeeps DEF Busy
<1>3. CASE ~Claimable(sch.at)
  <2>1. sch' = [sch EXCEPT !.pc = "rest"] /\ row' = row
    BY <1>3 DEF ClaimDue
  <2>2. sch' \in Schs(Times) /\ sch'.pc = "rest" /\ sch'.cur = sch.cur
    BY <2>1, Steps, SchMoves
  <2>3. Pointers'
    BY <1>0, <2>1, <2>2, PointersStay
  <2> QED
    BY <1>0, <1>1, <2>1, <2>2, <2>3, Base, SchedulerKeeps DEF Busy
<1> QED
  BY <1>2, <1>3

LEMMA SkipOrPlanTypes ==
    ASSUME Types, SkipOrPlan
    PROVE  Types' /\ (sch'.pc = "plan" => sch'.plan # <<>>)
           /\ sch'.pc \in {"rest", "plan"} /\ (sch'.pc = "plan" => row' = row)
           /\ (sch'.pc = "rest" /\ row.there => row'.claimed = None)
           /\ row'.there = row.there /\ (row'.active => row.active /\ row'.fails = row.fails)
<1>0. UNCHANGED <<now, runs, lease, owner, poll, wake, perm, events, crashes, anchors, asked, drift, reopened>>
  BY DEF SkipOrPlan, bounds, history
<1>1. TypeRest'
  BY <1>0, RestStays DEF Types, TypeRest
<1>2. PICK o \in Times : o = sch.snap.next /\ o # None /\ o <= sch.at
  BY Base DEF SkipOrPlan, Types, Stages, Schs, Snaps
<1>3. PICK at \in Instant : at = sch.at
  BY Base DEF Schs
<1>4. o \in Instant
  BY <1>2, <1>3, Base, Constants DEF Closed, Instant, Later, None
<1>5. CASE Ended(Routine, sch.at)
  <2>1. row' \in {row, Finished(row)} /\ (row.there => row' = Finished(row))
    BY <1>5 DEF SkipOrPlan
  <2>2. sch' = [sch EXCEPT !.pc = "rest"]
    BY <1>5 DEF SkipOrPlan
  <2>3. sch' \in Schs(Times) /\ sch'.pc = "rest" /\ sch'.cur = sch.cur
    BY <2>2, Steps, SchMoves
  <2>4. /\ row' \in Rows(Times) /\ row'.there = row.there /\ row'.last = row.last
        /\ row.there => row'.claimed = None
        /\ row'.active => row' = row
    BY <2>1, Base, FinishedIs
  <2>5. Pointers'
    BY <1>0, <2>3, <2>4, PointersStay
  <2> QED
    BY <1>0, <1>1, <2>3, <2>4, <2>5, Base, SchedulerKeeps DEF Busy
<1>6. CASE ~Ended(Routine, sch.at) /\ sch.snap.resume = None /\ MissedBySkipPolicy(Routine, o, sch.at)
  <2>1. row' \in {row, Released(row, o, at)} /\ (row.there => row' = Released(row, o, at))
    BY <1>2, <1>3, <1>6 DEF SkipOrPlan
  <2>2. sch' = [sch EXCEPT !.pc = "rest"]
    BY <1>2, <1>6 DEF SkipOrPlan
  <2>3. sch' \in Schs(Times) /\ sch'.pc = "rest" /\ sch'.cur = sch.cur
    BY <2>2, Steps, SchMoves
  <2>4. /\ row' \in Rows(Times) /\ row'.there = row.there /\ row'.last = row.last
        /\ row.there => row'.claimed = None
        /\ row'.active => row.active /\ row'.fails = row.fails
    BY <1>2, <1>3, <1>4, <2>1, Base, ReleasedIs
  <2>5. Pointers'
    BY <1>0, <2>3, <2>4, PointersStay
  <2> QED
    BY <1>0, <1>1, <2>3, <2>4, <2>5, Base, SchedulerKeeps DEF Busy
<1>7. CASE ~Ended(Routine, sch.at) /\ ~(sch.snap.resume = None /\ MissedBySkipPolicy(Routine, o, sch.at))
  <2>1. PICK resume \in Times : resume = sch.snap.resume
    BY Base DEF Schs, Snaps
  <2>2. PICK plan : plan = ClaimedOccurrencesAt(Routine, o, resume, at)
    OBVIOUS
  <2>3. plan \in Plans(Times) /\ plan # <<>>
    BY <1>2, <1>3, <1>4, <2>1, <2>2, Base, PlanOfClaim
  <2>4. sch' = [sch EXCEPT !.pc = "plan", !.at = 0, !.plan = plan] /\ row' = row
    BY <1>2, <1>3, <1>7, <2>1, <2>2 DEF SkipOrPlan
  <2>5. 0 \in Instant
    BY Constants DEF Instant
  <2>6. sch' \in Schs(Times) /\ sch'.pc = "plan" /\ sch'.cur = sch.cur /\ sch'.plan = plan
    BY <2>3, <2>4, <2>5, Base DEF Schs, SchSteps
  <2>7. Pointers'
    BY <1>0, <2>4, <2>6, PointersStay
  <2> QED
    BY <1>0, <1>1, <2>3, <2>4, <2>6, <2>7, Base, SchedulerKeeps DEF Busy
<1> QED
  BY <1>5, <1>6, <1>7

\* The tick ends, with or without an error.
LEMMA SleepTypes ==
    ASSUME Types, sch' = Asleep, poll' \in BOOLEAN, row' \in Rows(Times), row'.there = row.there,
           row'.last = row.last,
           UNCHANGED <<now, runs, lease, owner, wake, perm, events, crashes, anchors, asked, drift, reopened>>
    PROVE  Types'
<1>1. sch' \in Schs(Times) /\ sch'.pc = "asleep" /\ sch'.cur = 0
  BY Base, Idle
<1>2. TypeRest'
  BY RestStays DEF Types, TypeRest
<1>3. Pointers'
  BY <1>1, PointersStay
<1> QED
  BY <1>1, <1>2, <1>3, Base, SchedulerKeeps DEF Busy

LEMMA AdvanceRecordedTypes ==
    ASSUME Types, AdvanceRecorded
    PROVE  Types' /\ row'.there = row.there /\ (row.there => row'.claimed = None /\ row'.active = row.active
                                                             /\ row'.fails = row.fails)
<1>0. UNCHANGED <<now, runs, lease, owner, wake, perm, events, crashes, anchors, asked, drift, reopened>>
  BY DEF AdvanceRecorded, bounds, history
<1>1. CASE row.there
  <2>1. PICK n \in Times : n = Head(sch.plan).next
    BY Base, HeadIs DEF AdvanceRecorded
  <2>2. row' = [row EXCEPT !.claimed = None, !.next = n, !.resume = None]
    BY <1>1, <2>1 DEF AdvanceRecorded
  <2>3. /\ row' \in Rows(Times) /\ row'.there = row.there /\ row'.last = row.last /\ row'.claimed = None
        /\ row'.active = row.active /\ row'.fails = row.fails
    BY <2>2, Base DEF Rows
  <2>4. sch' = NextOccurrence(sch) /\ poll' = poll
    BY <1>1 DEF AdvanceRecorded
  <2>5. sch' \in Schs(Times) /\ sch'.pc = "plan" /\ sch'.cur = 0
    BY <2>4, Base, NextOccurrenceIs DEF AdvanceRecorded
  <2>6. TypeRest'
    BY <1>0, <2>4, RestStays DEF Types, TypeRest
  <2>7. Pointers'
    BY <1>0, <2>3, <2>5, PointersStay
  <2> QED
    BY <1>0, <2>3, <2>5, <2>6, <2>7, Base, SchedulerKeeps DEF Busy
<1>2. CASE ~row.there
  <2>1. sch' = Asleep /\ poll' = TRUE /\ row' = row
    BY <1>2 DEF AdvanceRecorded, TickFails
  <2> QED
    BY <1>0, <1>2, <2>1, Base, SleepTypes
<1> QED
  BY <1>1, <1>2

LEMMA AppendedRun ==
    ASSUME NEW T, NEW rs \in Runs(T), NEW f \in T \intersect Instant
    PROVE  /\ Append(rs, [for |-> f, status |-> "Running"]) \in Runs(T)
           /\ Len(Append(rs, [for |-> f, status |-> "Running"])) = Len(rs) + 1
           /\ Len(rs) \in Nat
<1>1. PICK e \in RunRecs(T) : e = [for |-> f, status |-> "Running"]
  BY DEF RunRecs, RunStatus
<1> QED
  BY <1>1 DEF Runs

LEMMA StartRunTypes ==
    ASSUME Types, StartRun
    PROVE  Types' /\ row' = row /\ sch'.pc \in {"running", "persist"}
<1>0. UNCHANGED <<now, row, lease, owner, poll, wake, perm, events, crashes, anchors, asked, drift, reopened>>
  BY DEF StartRun, bounds, history
<1>1. TypeRest'
  BY <1>0, RestStays DEF Types, TypeRest
<1>2. sch.plan # <<>> /\ Head(sch.plan).for \in Times \intersect Instant
  BY Base, HeadIs DEF StartRun
<1>3. CASE /\ RetryableInstance # 0
           /\ runs' = [runs EXCEPT ![RetryableInstance].status = "Running"]
           /\ sch' = [sch EXCEPT !.pc = "running", !.cur = RetryableInstance]
  <2>1. PICK i \in 1..Len(runs) : i = RetryableInstance
    BY <1>3 DEF RetryableInstance
  <2>2. runs' \in Runs(Times) /\ Len(runs') = Len(runs)
    BY <1>3, Base, StatusChange DEF RunStatus, SameRuns
  <2>3. i \in Nat /\ i <= Len(runs)
    BY <2>1, Base
  <2>4. sch' = [sch EXCEPT !.pc = "running", !.cur = i]
    BY <1>3, <2>1
  <2>5. sch' \in Schs(Times) /\ sch'.pc = "running" /\ sch'.cur = i /\ sch'.plan = sch.plan
    BY <2>3, <2>4, Base DEF Schs, SchSteps, Busy
  <2>6. Pointers'
    BY <1>0, <2>2, <2>3, <2>5 DEF Types, Pointers
  <2> QED
    BY <1>0, <1>1, <1>2, <2>2, <2>5, <2>6, Base, SchedulerKeeps
<1>4. CASE /\ runs' = Append(runs, [for |-> Head(sch.plan).for, status |-> "Running"])
           /\ sch' = [sch EXCEPT !.pc = "running", !.cur = Len(runs')]
  <2>1. runs' \in Runs(Times) /\ Len(runs') = Len(runs) + 1 /\ Len(runs) \in Nat
    BY <1>2, <1>4, Base, AppendedRun
  <2>2. PICK i \in Nat : i = Len(runs')
    BY <2>1
  <2>3. sch' = [sch EXCEPT !.pc = "running", !.cur = i]
    BY <1>4, <2>2
  <2>4. sch' \in Schs(Times) /\ sch'.pc = "running" /\ sch'.cur = i /\ sch'.plan = sch.plan
    BY <2>2, <2>3, Base DEF Schs, SchSteps, Busy
  <2>5. Pointers'
    <3>1. SUFFICES ASSUME row.there
                   PROVE  row.last <= Len(runs') /\ sch'.cur <= Len(runs') /\ perm.cur <= Len(runs')
      BY <1>0 DEF Pointers
    <3>2. row.last <= Len(runs) /\ perm.cur <= Len(runs)
      BY <3>1 DEF Types, Pointers
    <3> QED
      BY <2>1, <2>2, <2>4, <3>2, Base
  <2> QED
    BY <1>0, <1>1, <1>2, <2>1, <2>4, <2>5, Base, SchedulerKeeps
<1>5. CASE /\ runs' = runs
           /\ sch' = [sch EXCEPT !.pc = "persist", !.outcome = "Error"]
  <2>1. sch' \in Schs(Times) /\ sch'.pc = "persist" /\ sch'.cur = sch.cur /\ sch'.plan = sch.plan
        /\ sch'.outcome = "Error"
    BY <1>5, Base DEF Schs, SchSteps, Busy, Ends
  <2>2. Pointers'
    BY <1>0, <1>5, <2>1, PointersStay
  <2> QED
    BY <1>0, <1>1, <1>2, <1>5, <2>1, <2>2, Base, SchedulerKeeps DEF Stored, Ends
<1> QED
  BY <1>3, <1>4, <1>5 DEF StartRun

LEMMA RunEndsTypes ==
    ASSUME Types, NEW outcome \in Outcomes, RunEnds(outcome)
    PROVE  Types' /\ row' = row /\ sch'.pc \in {"requeue", "persist"}
<1>0. UNCHANGED <<now, row, lease, owner, poll, wake, perm, events, crashes, anchors, asked, drift, reopened>>
  BY DEF RunEnds, bounds, history
<1>1. TypeRest'
  BY <1>0, RestStays DEF Types, TypeRest
<1>2. outcome \in Ends
  BY SchedulerAssumption DEF Ends
<1>3. runs' \in Runs(Times) /\ Len(runs') = Len(runs)
  <2>0. runs \in Runs(Times)
    BY Base
  <2>1. CASE outcome = "Error"
    BY <2>0, <2>1 DEF RunEnds
  <2>2. CASE outcome # "Error"
    <3> DEFINE v == CASE outcome = "Transient" -> "Failed"
                      [] outcome = "Unverified" -> "Completed"
                      [] OTHER -> outcome
    <3>1. v \in RunStatus
      BY <1>2, <2>2 DEF Ends, RunStatus
    <3>2. runs' = [runs EXCEPT ![sch.cur].status = v]
      BY <2>2 DEF RunEnds
    <3> HIDE DEF v
    <3>3. runs' \in Runs(Times) /\ SameRuns(runs', runs)
      BY <2>0, <3>1, <3>2, StatusChange
    <3> QED
      BY <3>3 DEF SameRuns
  <2> QED
    BY <2>1, <2>2
<1>4. PICK p \in {"requeue", "persist"}, c \in {0, sch.cur} :
         /\ sch' = [sch EXCEPT !.outcome = outcome, !.cur = c, !.pc = p]
         /\ p = "persist" => outcome # "Transient"
  BY DEF RunEnds
<1>5. /\ sch' \in Schs(Times) /\ sch'.pc = p /\ sch'.cur = c /\ sch'.plan = sch.plan
      /\ sch'.outcome = outcome
  <2>1. outcome \in Ends \union {"none"} /\ p \in SchSteps /\ c \in Nat
    BY <1>2, <1>4, Base DEF SchSteps, Busy
  <2>2. PICK t \in Schs(Times) : t = sch
    BY Base
  <2>3. PICK w : w = [t EXCEPT !.outcome = outcome, !.cur = c, !.pc = p]
    OBVIOUS
  <2>4. w \in Schs(Times) /\ w.pc = p /\ w.cur = c /\ w.plan = t.plan /\ w.outcome = outcome
    BY <2>1, <2>3 DEF Schs
  <2> QED
    BY <1>4, <2>2, <2>3, <2>4
<1>6. sch.plan # <<>>
  BY DEF RunEnds, Types, Stages, Busy
<1>7. Pointers'
  BY <1>0, <1>3, <1>4, <1>5, PointersStay
<1>8. sch'.pc = "persist" => sch'.outcome \in Stored
  BY <1>2, <1>4, <1>5 DEF Stored
<1> QED
  BY <1>0, <1>1, <1>3, <1>4, <1>5, <1>6, <1>7, <1>8, Base, SchedulerKeeps

\* What was typed before stays so when the cadence is extended.
LEMMA Widened ==
    ASSUME Types, Starts \subseteq Starts'
    PROVE  /\ Times \subseteq Times' /\ row \in Rows(Times') /\ runs \in Runs(Times')
           /\ sch \in Schs(Times') /\ perm \in Perms(Times') /\ None \in Times'
<1>1. Times \subseteq Times'
  BY TimesGrow
<1> QED
  BY <1>1, Base, Wider

LEMMA RequeueTransientTypes ==
    ASSUME Types, RequeueTransient
    PROVE  Types' /\ row'.claimed = None /\ row'.there = row.there /\ row'.fails = row.fails
           /\ (reopened' <=> (reopened \/ row.fails >= Threshold))
<1>0. UNCHANGED <<now, lease, owner, poll, wake, perm, events, crashes, anchors, asked>>
  BY DEF RequeueTransient, bounds
<1>1. drift' = drift \union OffCadence({now + Backoff}) /\ reopened' = (reopened \/ row.fails >= Threshold)
  BY DEF RequeueTransient
<1>2. PICK t \in 0..Last : t = now + Backoff
  BY Base, Constants DEF Instant, Last
<1>3. Starts \subseteq Starts' /\ OffCadence({t}) \subseteq Starts'
  BY <1>0, <1>1, <1>2 DEF Starts
<1>4. t \in Times'
  BY <1>3, TimesAdded
<1>5. TypeRest'
  <2>1. Starts' \subseteq 0..Last
    BY <1>0, <1>1, <1>2 DEF Types, TypeRest, OffCadence, Starts
  <2>2. reopened' \in BOOLEAN
    BY <1>1
  <2> QED
    BY <1>0, <2>1, <2>2 DEF Types, TypeRest
<1>6. row' = [row EXCEPT !.active = TRUE, !.claimed = None, !.next = t, !.status = "Pending", !.last = sch.cur]
  BY <1>2 DEF RequeueTransient
<1>7. /\ row' \in Rows(Times') /\ row'.there = row.there /\ row'.last = sch.cur /\ row'.claimed = None
      /\ row'.fails = row.fails
  BY <1>3, <1>4, <1>6, Widened, Base DEF Rows, RunStatus
<1>8. runs' \in Runs(Times') /\ Len(runs') = Len(runs)
  BY <1>3, Widened, StatusChange DEF RequeueTransient, RunStatus, SameRuns
<1>9. sch.plan # <<>>
  BY DEF RequeueTransient, Types, Stages, Busy
<1>10. sch' \in Schs(Times') /\ sch'.pc = "plan" /\ sch'.cur = 0
  BY <1>3, <1>9, Widened, NextOccurrenceIs DEF RequeueTransient
<1>11. Pointers'
  BY <1>0, <1>7, <1>8, <1>10, PointersStay
<1>12. Stages'
  BY <1>0, <1>10 DEF Types, Stages, Busy
<1>13. perm' \in Perms(Times')
  BY <1>0, <1>3, Widened
<1> QED
  BY <1>1, <1>5, <1>7, <1>8, <1>10, <1>11, <1>12, <1>13
     DEF Types, TypeRow, TypeRuns, TypeSch, TypePerm

LEMMA StoredStatus ==
    ASSUME NEW outcome \in Stored
    PROVE  RowStatus(outcome) \in RunStatus
BY DEF RowStatus, RunStatus, Stored, Ends

LEMMA PersistResultTypes ==
    ASSUME Types, PersistResult
    PROVE  Types' /\ row'.there = row.there
           /\ (row.there => row'.claimed = None /\ row'.active = row.active /\ row'.fails = row.fails)
<1>0. UNCHANGED <<now, runs, lease, owner, wake, perm, events, crashes, anchors, asked, drift, reopened>>
  BY DEF PersistResult, bounds, history
<1>1. CASE row.there
  <2>1. sch.plan # <<>> /\ sch.outcome \in Stored
    BY DEF PersistResult, Types, Stages, Busy
  <2>2. Head(sch.plan).next \in Times
    BY <2>1, Base, HeadIs
  <2>3. RowStatus(sch.outcome) \in RunStatus
    BY <2>1, StoredStatus
  <2>4. row' = Persisted(row, RowStatus(sch.outcome), sch.cur, Head(sch.plan).next)
    BY <1>1 DEF PersistResult
  <2>5. /\ row' \in Rows(Times) /\ row'.there = row.there /\ row'.last = sch.cur /\ row'.claimed = None
        /\ row'.active = row.active /\ row'.fails = row.fails
    <3>1. None \in Times /\ row \in Rows(Times) /\ sch.cur \in Nat
      BY Base
    <3> QED
      BY <2>2, <2>3, <2>4, <3>1, PersistedIs
  <2>6. sch' = [sch EXCEPT !.pc = "policy"] /\ poll' = poll
    BY <1>1 DEF PersistResult
  <2>7. sch' \in Schs(Times) /\ sch'.pc = "policy" /\ sch'.cur = sch.cur /\ sch'.plan = sch.plan
    BY <2>6, Steps, SchMoves DEF Busy
  <2>8. TypeRest'
    BY <1>0, <2>6, RestStays DEF Types, TypeRest
  <2>9. Pointers'
    BY <1>0, <2>5, <2>7, PointersStay
  <2> QED
    BY <1>0, <2>1, <2>5, <2>7, <2>8, <2>9, Base, SchedulerKeeps
<1>2. CASE ~row.there
  <2>1. sch' = Asleep /\ poll' = TRUE /\ row' = row
    BY <1>2 DEF PersistResult, TickFails
  <2> QED
    BY <1>0, <1>2, <2>1, Base, SleepTypes
<1> QED
  BY <1>1, <1>2

LEMMA RecordPolicyTypes ==
    ASSUME Types, RecordPolicy
    PROVE  Types' /\ row'.there = row.there /\ (row.there => row'.claimed = row.claimed)
           /\ (row'.there /\ row'.active => row'.fails < Threshold)
<1>0. UNCHANGED <<now, runs, lease, owner, poll, wake, perm, events, crashes, anchors, asked, drift>>
  BY DEF RecordPolicy, bounds
<1>1. reopened' \in BOOLEAN
  BY DEF RecordPolicy
<1>2. /\ row' \in Rows(Times) /\ row'.there = row.there /\ row'.last = row.last
      /\ row.there => row'.claimed = row.claimed
      /\ row'.there /\ row'.active => row'.fails < Threshold
  <2>1. CASE row.there
    <3>1. PICK failed \in BOOLEAN : failed = (RowStatus(sch.outcome) = "Failed")
      OBVIOUS
    <3>2. row' = WithPolicy(row, failed)
      BY <2>1, <3>1 DEF RecordPolicy
    <3>3. row \in Rows(Times)
      BY Base
    <3> QED
      BY <3>2, <3>3, WithPolicyIs
  <2>2. CASE ~row.there
    <3>1. row' = row
      BY <2>2 DEF RecordPolicy
    <3> QED
      BY <2>2, <3>1, Base
  <2> QED
    BY <2>1, <2>2
<1>3. sch.plan # <<>>
  BY DEF RecordPolicy, Types, Stages, Busy
<1>4. sch' \in Schs(Times) /\ sch'.pc = "finish" /\ sch'.cur = sch.cur /\ sch'.plan = sch.plan
  BY Steps, SchMoves DEF Busy, RecordPolicy
<1>5. TypeRest'
  BY <1>0, <1>1, RestStays DEF Types, TypeRest
<1>6. Pointers'
  BY <1>0, <1>2, <1>4, PointersStay
<1> QED
  BY <1>0, <1>2, <1>3, <1>4, <1>5, <1>6, Base, SchedulerKeeps

LEMMA FinishOccurrenceTypes ==
    ASSUME Types, FinishOccurrence
    PROVE  Types' /\ row' \in {row, Finished(row)}
<1>0. UNCHANGED <<now, runs, lease, owner, wake, perm, events, crashes, anchors, asked, drift, reopened>>
  BY DEF FinishOccurrence, bounds, history
<1>1. row' \in {row, Finished(row)}
  BY DEF FinishOccurrence
<1>2. row' \in Rows(Times) /\ row'.there = row.there /\ row'.last = row.last
  BY <1>1, Base, FinishedIs
<1>3. sch.plan # <<>>
  BY DEF FinishOccurrence, Types, Stages, Busy
<1>4. CASE sch.outcome = "Unverified"
  <2>1. sch' = Asleep /\ poll' = TRUE
    BY <1>4 DEF FinishOccurrence, TickFails
  <2> QED
    BY <1>0, <1>1, <1>2, <2>1, SleepTypes
<1>5. CASE sch.outcome # "Unverified"
  <2>1. sch' = NextOccurrence(sch) /\ poll' = poll
    BY <1>5 DEF FinishOccurrence
  <2>2. sch' \in Schs(Times) /\ sch'.pc = "plan" /\ sch'.cur = 0
    BY <1>3, <2>1, Base, NextOccurrenceIs
  <2>3. TypeRest'
    BY <1>0, <2>1, RestStays DEF Types, TypeRest
  <2>4. Pointers'
    BY <1>0, <1>2, <2>2, PointersStay
  <2> QED
    BY <1>0, <1>1, <1>2, <2>2, <2>3, <2>4, Base, SchedulerKeeps DEF Busy
<1> QED
  BY <1>4, <1>5

LEMMA RestTypes ==
    ASSUME Types, Rest
    PROVE  Types'
<1>1. UNCHANGED <<now, row, runs, lease, owner, wake, perm, events, crashes, anchors, asked, drift, reopened>>
  BY DEF Rest, dbVars, bounds, history
<1>2. sch' = Asleep /\ poll' \in BOOLEAN
  BY DEF Rest
<1> QED
  BY <1>1, <1>2, Base, SleepTypes

\* Every step of the scheduler thread.
LEMMA SchedulerTypes ==
    ASSUME Types, SchedulerStep
    PROVE  Types'
BY WakeUpTypes, AcquireLeaseTypes, FinalizeTypes, ClaimDueTypes, SkipOrPlanTypes,
   AdvanceRecordedTypes, StartRunTypes, RunEndsTypes, RequeueTransientTypes,
   PersistResultTypes, RecordPolicyTypes, FinishOccurrenceTypes, RestTypes DEF SchedulerStep

-----------------------------------------------------------------------------
(* Types: the user's commands                                              *)

LEMMA CommandKeeps ==
    ASSUME Types, NEW name, Command(name), Starts \subseteq Starts',
           Starts' \subseteq 0..Last,
           wake' \in BOOLEAN, reopened' \in BOOLEAN,
           row' \in Rows(Times'), runs' \in Runs(Times'), perm' \in Perms(Times'), Pointers',
           perm'.pc \in {"load", "persist"} => perm'.outcome \in Stored
    PROVE  Types'
<1>1. UNCHANGED <<now, lease, owner, sch, poll, crashes, drift>> /\ events' = events + 1 /\ events + crashes < MaxEvents
  BY DEF Command
<1>2. TypeRest'
  <2>1. events' \in Nat /\ events' + crashes' <= MaxEvents
    BY <1>1, Constants DEF Types, TypeRest
  <2> QED
    BY <1>1, <2>1 DEF Types, TypeRest
<1>3. sch' \in Schs(Times')
  BY <1>1, Widened
<1>4. Stages'
  BY <1>1 DEF Types, Stages
<1> QED
  BY <1>2, <1>3, <1>4 DEF Types, TypeRow, TypeRuns, TypeSch, TypePerm

\* A command that only changes the row.
LEMMA RowCommand ==
    ASSUME Types, NEW name, Command(name), Starts \subseteq Starts',
           Starts' \subseteq 0..Last,
           wake' \in BOOLEAN, reopened' \in BOOLEAN, UNCHANGED <<runs, perm>>,
           row' \in Rows(Times'), row'.there = row.there, row'.last = row.last
    PROVE  Types'
<1>1. sch' = sch
  BY DEF Command
<1>2. Pointers'
  BY <1>1, PointersStay
<1>3. runs' \in Runs(Times') /\ perm' \in Perms(Times')
  BY Widened
<1>4. perm'.pc \in {"load", "persist"} => perm'.outcome \in Stored
  BY DEF Types, Stages
<1> QED
  BY <1>2, <1>3, <1>4, CommandKeeps

LEMMA PauseTypes ==
    ASSUME Types, Pause
    PROVE  Types' /\ row'.claimed = None /\ ~row'.active
<1>1. Command("pause") /\ UNCHANGED <<runs, wake, perm, anchors, asked, reopened>>
  BY DEF Pause
<1>2. row' = [row EXCEPT !.active = FALSE, !.next = None, !.claimed = None, !.reason = "user"]
  BY DEF Pause
<1>3. /\ row' \in Rows(Times) /\ row'.there = row.there /\ row'.last = row.last /\ row'.claimed = None
      /\ row'.active = FALSE
  BY <1>2, Base DEF Rows
<1>4. Starts' = Starts /\ Times' = Times
  BY <1>1, TimesStay DEF Command
<1>5. Starts' \subseteq 0..Last /\ wake' \in BOOLEAN /\ reopened' \in BOOLEAN
  BY <1>1, <1>4 DEF Types, TypeRest
<1> QED
  BY <1>1, <1>3, <1>4, <1>5, RowCommand

\* The instant at which a cadence begins anew.
LEMMA Anew ==
    ASSUME Types
    PROVE  now + Interval \in 0..Last /\ ScheduleCandidateAfter(Routine, now) = now + Interval
           /\ now \in 0..Last
<1>1. now \in Nat /\ now <= MaxTime
  BY Base, Constants DEF Instant
<1> QED
  BY <1>1, Candidate, Constants DEF Last

LEMMA ResumeTypes ==
    ASSUME Types, Resume
    PROVE  Types' /\ row'.claimed = None /\ row'.there = row.there /\ row'.fails = row.fails
           /\ (reopened' <=> (reopened \/ row.fails >= Threshold))
<1>1. /\ Command("resume") /\ UNCHANGED <<runs, wake, perm, asked>>
      /\ reopened' = (reopened \/ row.fails >= Threshold)
      /\ anchors' = anchors \union OffCadence({row'.next})
  BY DEF Resume
<1>2. PICK t \in 0..Last : t = ScheduleCandidateAfter(Routine, now)
  BY Anew
<1>3. row' = [row EXCEPT !.active = TRUE, !.next = t, !.claimed = None, !.reason = "none"]
  BY <1>2 DEF Resume
<1>4. row'.next = t
  BY <1>3, Base DEF Rows
<1>5. drift' = drift
  BY <1>1 DEF Command
<1>6. Starts \subseteq Starts' /\ OffCadence({t}) \subseteq Starts'
  BY <1>1, <1>4, <1>5 DEF Starts
<1>7. t \in Times'
  BY <1>6, TimesAdded
<1>8. /\ row' \in Rows(Times') /\ row'.there = row.there /\ row'.last = row.last /\ row'.claimed = None
      /\ row'.fails = row.fails
  BY <1>3, <1>6, <1>7, Widened DEF Rows
<1>9. Starts' \subseteq 0..Last
  BY <1>1, <1>4, <1>5 DEF Types, TypeRest, OffCadence, Starts
<1>10. wake' \in BOOLEAN /\ reopened' \in BOOLEAN
  BY <1>1 DEF Types, TypeRest
<1> QED
  BY <1>1, <1>6, <1>8, <1>9, <1>10, RowCommand

LEMMA UpdateTypes ==
    ASSUME Types, Update
    PROVE  Types' /\ row'.claimed = None /\ row'.there = row.there /\ row'.fails = row.fails
           /\ row'.active = row.active /\ reopened' = reopened
<1>1. /\ Command("update") /\ UNCHANGED <<runs, wake, perm, asked, reopened>>
      /\ anchors' = anchors \union OffCadence({row'.next} \ {None})
  BY DEF Update
<1>2. PICK t \in {None} \union 0..Last :
         row' = [row EXCEPT !.claimed = None, !.next = t]
  BY Anew DEF Update
<1>3. row'.next = t
  BY <1>2, Base DEF Rows
<1>4. drift' = drift /\ Starts \subseteq Starts'
  BY <1>1 DEF Starts, Command
<1>5. t \in Times'
  <2>1. CASE t = None
    BY <2>1 DEF Times
  <2>2. CASE t # None
    <3>1. t \in 0..Last /\ OffCadence({t}) \subseteq Starts'
      BY <1>1, <1>2, <1>3, <2>2 DEF OffCadence, Starts
    <3> QED
      BY <1>4, <3>1, TimesAdded
  <2> QED
    BY <2>1, <2>2
<1>6. /\ row' \in Rows(Times') /\ row'.there = row.there /\ row'.last = row.last /\ row'.claimed = None
      /\ row'.fails = row.fails /\ row'.active = row.active
  BY <1>2, <1>4, <1>5, Widened DEF Rows
<1>7. Starts' \subseteq 0..Last
  BY <1>1, <1>2, <1>3, <1>4 DEF Types, TypeRest, OffCadence, Starts
<1>8. wake' \in BOOLEAN /\ reopened' \in BOOLEAN
  BY <1>1 DEF Types, TypeRest
<1> QED
  BY <1>1, <1>4, <1>6, <1>7, <1>8, RowCommand

LEMMA RunNowTypes ==
    ASSUME Types, RunNow
    PROVE  /\ Types'
           /\ \/ row' = row /\ reopened' = reopened
              \/ /\ row'.claimed = None /\ row'.there = row.there /\ row'.fails = row.fails
                 /\ reopened' <=> (reopened \/ row.fails >= Threshold)
<1> DEFINE queued == row.resume # None \/ (row.active /\ row.next # None /\ row.next <= now)
           resume == IF row.active /\ row.next # None THEN row.next ELSE ScheduleCandidateAfter(Routine, now)
<1>1. Command("run_now") /\ wake' = TRUE /\ UNCHANGED <<runs, perm, drift>>
  BY DEF RunNow, Command
<1>2. CASE queued
  <2>1. UNCHANGED <<row, anchors, asked, reopened>>
    BY <1>2 DEF RunNow
  <2>2. Starts' = Starts /\ Times' = Times
    BY <1>1, <2>1, TimesStay
  <2>3. Starts' \subseteq 0..Last /\ wake' \in BOOLEAN /\ reopened' \in BOOLEAN
    BY <1>1, <2>1, <2>2 DEF Types, TypeRest
  <2> QED
    BY <1>1, <2>1, <2>2, <2>3, Base, RowCommand
<1>3. CASE ~queued
  <2>1. /\ row' = [row EXCEPT !.active = TRUE, !.next = now, !.claimed = None,
                              !.reason = "none", !.resume = resume]
        /\ asked' = asked \union OffCadence({now})
        /\ anchors' = anchors \union OffCadence({resume})
        /\ reopened' = (reopened \/ row.fails >= Threshold)
    BY <1>3 DEF RunNow
  <2>2. PICK t \in 0..Last : t = resume
    <3>1. row.next \in {None} \union 0..Last
      BY Base DEF Rows, Closed, Later, Last
    <3> QED
      BY <3>1, Anew
  <2>3. Starts \subseteq Starts' /\ OffCadence({t}) \subseteq Starts' /\ OffCadence({now}) \subseteq Starts'
    BY <1>1, <2>1, <2>2 DEF Starts
  <2>4. t \in Times' /\ now \in Times'
    <3>1. now \in 0..Last
      BY Anew
    <3> QED
      BY <2>3, <3>1, TimesAdded
  <2>5. row' = [row EXCEPT !.active = TRUE, !.next = now, !.claimed = None, !.reason = "none", !.resume = t]
    BY <2>1, <2>2
  <2>6. /\ row' \in Rows(Times') /\ row'.there = row.there /\ row'.last = row.last /\ row'.claimed = None
        /\ row'.fails = row.fails
    BY <2>3, <2>4, <2>5, Widened DEF Rows
  <2>7. Starts' \subseteq 0..Last
    BY <1>1, <2>1, <2>2, Anew DEF Types, TypeRest, OffCadence, Starts
  <2>8. wake' \in BOOLEAN /\ reopened' \in BOOLEAN
    BY <1>1, <2>1
  <2> QED
    BY <1>1, <2>1, <2>3, <2>6, <2>7, <2>8, RowCommand
<1> QED
  BY <1>2, <1>3

LEMMA DeleteTypes ==
    ASSUME Types, Delete
    PROVE  Types' /\ ~row'.there
<1>1. /\ Command("delete") /\ UNCHANGED <<wake, perm, anchors, asked, reopened>>
      /\ row' = [row EXCEPT !.there = FALSE] /\ runs' = <<>>
  BY DEF Delete
<1>2. row' \in Rows(Times) /\ row'.there = FALSE
  BY <1>1, Base DEF Rows
<1>3. runs' \in Runs(Times)
  BY <1>1 DEF Runs
<1>4. Starts' = Starts /\ Times' = Times
  BY <1>1, TimesStay DEF Command
<1>5. Starts' \subseteq 0..Last /\ wake' \in BOOLEAN /\ reopened' \in BOOLEAN
  BY <1>1, <1>4 DEF Types, TypeRest
<1>6. Pointers'
  BY <1>2 DEF Pointers
<1>7. perm'.pc \in {"load", "persist"} => perm'.outcome \in Stored
  BY <1>1 DEF Types, Stages
<1> QED
  BY <1>1, <1>2, <1>3, <1>4, <1>5, <1>6, <1>7, Base, CommandKeeps

LEMMA ApproveTypes ==
    ASSUME Types, NEW i \in 1..Len(runs), Approve(i)
    PROVE  Types' /\ row' = row /\ reopened' = reopened
<1>1. /\ Command("approve") /\ UNCHANGED <<row, wake, anchors, asked, reopened>>
      /\ runs' = [runs EXCEPT ![i].status = "Running"]
      /\ perm' = [NoPerm EXCEPT !.pc = "running", !.cur = i]
  BY DEF Approve
<1>2. runs' \in Runs(Times) /\ Len(runs') = Len(runs)
  <2>1. runs \in Runs(Times)
    BY Base
  <2>2. runs' \in Runs(Times) /\ SameRuns(runs', runs)
    BY <1>1, <2>1, StatusChange DEF RunStatus
  <2> QED
    BY <2>2 DEF SameRuns
<1>3. i \in Nat /\ i <= Len(runs)
  BY Base
<1>4. perm' \in Perms(Times) /\ perm'.pc = "running" /\ perm'.cur = i
  <2>1. NoPerm \in Perms(Times)
    BY Base, Idle
  <2> QED
    BY <1>1, <1>3, <2>1 DEF Perms, PermSteps
<1>5. Starts' = Starts /\ Times' = Times
  BY <1>1, TimesStay DEF Command
<1>6. Starts' \subseteq 0..Last /\ wake' \in BOOLEAN /\ reopened' \in BOOLEAN
  BY <1>1, <1>5 DEF Types, TypeRest
<1>7. Pointers'
  <2>1. sch' = sch
    BY <1>1 DEF Command
  <2> QED
    BY <1>1, <1>2, <1>3, <1>4, <2>1 DEF Types, Pointers
<1> QED
  BY <1>1, <1>2, <1>4, <1>5, <1>6, <1>7, Base, CommandKeeps

LEMMA UserTypes ==
    ASSUME Types, UserStep
    PROVE  Types'
BY PauseTypes, ResumeTypes, UpdateTypes, RunNowTypes, DeleteTypes, ApproveTypes DEF UserStep

-----------------------------------------------------------------------------
(* Types: the approval thread, the clock and the restart                   *)

LEMMA ApprovalKeeps ==
    ASSUME Types, UNCHANGED <<now, lease, owner, sch, poll, wake, events, crashes, anchors, asked, drift>>,
           reopened' \in BOOLEAN,
           row' \in Rows(Times), runs' \in Runs(Times), perm' \in Perms(Times), Pointers',
           perm'.pc \in {"load", "persist"} => perm'.outcome \in Stored
    PROVE  Types'
<1>1. TypeRest'
  BY RestStays DEF Types, TypeRest
<1>2. Times' = Times
  BY TimesStay
<1>3. Stages'
  BY DEF Types, Stages
<1>4. sch' \in Schs(Times)
  BY Base
<1> QED
  BY <1>1, <1>2, <1>3, <1>4 DEF Types, TypeRow, TypeRuns, TypeSch, TypePerm

LEMMA ApprovedRunEndsTypes ==
    ASSUME Types, NEW outcome \in Outcomes, ApprovedRunEnds(outcome)
    PROVE  Types' /\ row' = row /\ reopened' = reopened
<1>0. UNCHANGED <<now, row, lease, owner, sch, poll, wake, events, crashes, anchors, asked, drift, reopened>>
  BY DEF ApprovedRunEnds, schedVars, bounds, history
<1>1. reopened' \in BOOLEAN
  BY <1>0 DEF Types, TypeRest
<1>2. outcome \in Ends
  BY SchedulerAssumption DEF Ends
<1>3. CASE outcome = "Error"
  <2>1. perm' = NoPerm /\ runs' = runs
    BY <1>3 DEF ApprovedRunEnds
  <2>2. perm' \in Perms(Times) /\ perm'.pc = "idle" /\ perm'.cur = 0
    BY <2>1, Base, Idle
  <2>3. Pointers'
    BY <1>0, <2>1, <2>2, PointersStay
  <2> QED
    BY <1>0, <1>1, <2>1, <2>2, <2>3, Base, ApprovalKeeps
<1>4. CASE outcome # "Error"
  <2>1. PICK v \in RunStatus : runs' = [runs EXCEPT ![perm.cur].status = v]
    <3> DEFINE v == CASE outcome = "Transient" -> "Failed"
                      [] outcome = "Unverified" -> "Completed"
                      [] OTHER -> outcome
    <3>1. v \in RunStatus
      BY <1>2, <1>4 DEF Ends, RunStatus
    <3>2. runs' = [runs EXCEPT ![perm.cur].status = v]
      BY <1>4 DEF ApprovedRunEnds
    <3> QED
      BY <3>1, <3>2
  <2>2. runs' \in Runs(Times) /\ Len(runs') = Len(runs)
    <3>1. runs \in Runs(Times)
      BY Base
    <3>2. runs' \in Runs(Times) /\ SameRuns(runs', runs)
      BY <2>1, <3>1, StatusChange
    <3> QED
      BY <3>2 DEF SameRuns
  <2>3. PICK o \in Stored : perm' = [perm EXCEPT !.pc = "load", !.outcome = o]
    BY <1>2, <1>4 DEF ApprovedRunEnds, Stored, Ends
  <2>4. perm' \in Perms(Times) /\ perm'.pc = "load" /\ perm'.cur = perm.cur /\ perm'.outcome = o
    BY <2>3, Base DEF Perms, PermSteps, Stored
  <2>5. Pointers'
    BY <1>0, <2>2, <2>4, PointersStay
  <2> QED
    BY <1>0, <1>1, <2>2, <2>3, <2>4, <2>5, Base, ApprovalKeeps
<1> QED
  BY <1>3, <1>4

LEMMA ApprovedLoadTypes ==
    ASSUME Types, ApprovedLoad
    PROVE  Types' /\ row' = row /\ reopened' = reopened
<1>0. UNCHANGED <<now, row, runs, lease, owner, sch, poll, wake, events, crashes, anchors, asked, drift, reopened>>
  BY DEF ApprovedLoad, dbVars, schedVars, bounds, history
<1>1. reopened' \in BOOLEAN
  BY <1>0 DEF Types, TypeRest
<1>2. CASE ~row.there
  <2>1. perm' = NoPerm
    BY <1>2 DEF ApprovedLoad
  <2>2. perm' \in Perms(Times) /\ perm'.pc = "idle" /\ perm'.cur = 0
    BY <2>1, Base, Idle
  <2>3. Pointers'
    BY <1>0, <2>2, PointersStay
  <2> QED
    BY <1>0, <1>1, <2>2, <2>3, Base, ApprovalKeeps
<1>3. CASE row.there
  <2>1. PICK sn : sn = [next |-> row.next, last |-> row.last, resume |-> row.resume]
    OBVIOUS
  <2>2. sn \in Snaps(Times)
    BY <2>1, Base DEF Rows, Snaps
  <2>3. perm' = [perm EXCEPT !.pc = "persist", !.snap = sn]
    BY <1>3, <2>1 DEF ApprovedLoad
  <2>4. /\ perm' \in Perms(Times) /\ perm'.pc = "persist" /\ perm'.cur = perm.cur
        /\ perm'.outcome = perm.outcome
    BY <2>2, <2>3, Base DEF Perms, PermSteps
  <2>5. perm.outcome \in Stored
    BY DEF ApprovedLoad, Types, Stages
  <2>6. Pointers'
    BY <1>0, <2>4, PointersStay
  <2> QED
    BY <1>0, <1>1, <2>4, <2>5, <2>6, Base, ApprovalKeeps
<1> QED
  BY <1>2, <1>3

LEMMA ApprovedPersistTypes ==
    ASSUME Types, ApprovedPersist
    PROVE  Types' /\ reopened' = reopened /\ row'.there = row.there
           /\ (row.there => row'.claimed = None /\ row'.active = row.active /\ row'.fails = row.fails)
<1>0. UNCHANGED <<now, runs, lease, owner, sch, poll, wake, events, crashes, anchors, asked, drift, reopened>>
  BY DEF ApprovedPersist, schedVars, bounds, history
<1>1. reopened' \in BOOLEAN
  BY <1>0 DEF Types, TypeRest
<1>2. /\ row' \in Rows(Times) /\ row'.there = row.there /\ row'.last \in {row.last, perm.cur}
      /\ row.there => row'.claimed = None /\ row'.active = row.active /\ row'.fails = row.fails
  <2>1. CASE row.there
    <3>1. perm.outcome \in Stored
      BY DEF ApprovedPersist, Types, Stages
    <3>2. RowStatus(perm.outcome) \in RunStatus
      BY <3>1, StoredStatus
    <3>3. perm.snap.next \in Times
      BY Base DEF Perms, Snaps
    <3>4. row' = Persisted(row, RowStatus(perm.outcome), perm.cur, perm.snap.next)
      BY <2>1 DEF ApprovedPersist
    <3>5. None \in Times /\ row \in Rows(Times) /\ perm.cur \in Nat
      BY Base
    <3> QED
      BY <3>2, <3>3, <3>4, <3>5, PersistedIs
  <2>2. CASE ~row.there
    <3>1. row' = row
      BY <2>2 DEF ApprovedPersist
    <3> QED
      BY <2>2, <3>1, Base
  <2> QED
    BY <2>1, <2>2
<1>3. perm' \in Perms(Times) /\ perm'.pc \in {"idle", "policy"} /\ perm'.cur \in {0, perm.cur}
  <2>1. CASE perm' = NoPerm
    BY <2>1, Base, Idle
  <2>2. CASE perm' = [perm EXCEPT !.pc = "policy"]
    BY <2>2, Base DEF Perms, PermSteps
  <2> QED
    BY <2>1, <2>2 DEF ApprovedPersist
<1>4. Pointers'
  BY <1>0, <1>2, <1>3, PointersStay
<1> QED
  BY <1>0, <1>1, <1>2, <1>3, <1>4, Base, ApprovalKeeps

LEMMA ApprovedPolicyTypes ==
    ASSUME Types, ApprovedPolicy
    PROVE  Types' /\ row'.there = row.there /\ (row.there => row'.claimed = row.claimed)
           /\ (row'.there /\ row'.active => row'.fails < Threshold)
<1>0. UNCHANGED <<now, runs, lease, owner, sch, poll, wake, events, crashes, anchors, asked, drift>>
  BY DEF ApprovedPolicy, schedVars, bounds
<1>1. reopened' \in BOOLEAN
  BY DEF ApprovedPolicy
<1>2. /\ row' \in Rows(Times) /\ row'.there = row.there /\ row'.last = row.last
      /\ row.there => row'.claimed = row.claimed
      /\ row'.there /\ row'.active => row'.fails < Threshold
  <2>1. CASE row.there
    <3>1. PICK failed \in BOOLEAN : failed = (perm.outcome = "Failed")
      OBVIOUS
    <3>2. row' = WithPolicy(row, failed)
      BY <2>1, <3>1 DEF ApprovedPolicy
    <3>3. row \in Rows(Times)
      BY Base
    <3> QED
      BY <3>2, <3>3, WithPolicyIs
  <2>2. CASE ~row.there
    <3>1. row' = row
      BY <2>2 DEF ApprovedPolicy
    <3> QED
      BY <2>2, <3>1, Base
  <2> QED
    BY <2>1, <2>2
<1>3. perm' \in Perms(Times) /\ perm'.pc = "finish" /\ perm'.cur = perm.cur
  BY Base DEF ApprovedPolicy, Perms, PermSteps
<1>4. Pointers'
  BY <1>0, <1>2, <1>3, PointersStay
<1> QED
  BY <1>0, <1>1, <1>2, <1>3, <1>4, Base, ApprovalKeeps

LEMMA ApprovedFinishTypes ==
    ASSUME Types, ApprovedFinish
    PROVE  Types' /\ row' \in {row, Finished(row)} /\ reopened' = reopened
<1>0. UNCHANGED <<now, runs, lease, owner, sch, poll, wake, events, crashes, anchors, asked, drift, reopened>>
  BY DEF ApprovedFinish, schedVars, bounds, history
<1>1. reopened' \in BOOLEAN
  BY <1>0 DEF Types, TypeRest
<1>2. row' \in {row, Finished(row)} /\ perm' = NoPerm
  BY DEF ApprovedFinish
<1>3. row' \in Rows(Times) /\ row'.there = row.there /\ row'.last = row.last
  BY <1>2, Base, FinishedIs
<1>4. perm' \in Perms(Times) /\ perm'.pc = "idle" /\ perm'.cur = 0
  BY <1>2, Base, Idle
<1>5. Pointers'
  BY <1>0, <1>3, <1>4, PointersStay
<1> QED
  BY <1>0, <1>1, <1>2, <1>3, <1>4, <1>5, Base, ApprovalKeeps

LEMMA ApprovalTypes ==
    ASSUME Types, ApprovalStep
    PROVE  Types'
BY ApprovedRunEndsTypes, ApprovedLoadTypes, ApprovedPersistTypes, ApprovedPolicyTypes,
   ApprovedFinishTypes DEF ApprovalStep

\* One more thing went wrong, and nothing else of what is typed is touched.
LEMMA OneMoreEvent ==
    ASSUME Types, MayFail, events' = events + 1, poll' \in BOOLEAN,
           UNCHANGED <<now, lease, owner, wake, crashes, anchors, asked, drift, reopened>>
    PROVE  TypeRest'
<1>1. events' \in Nat /\ events' + crashes' <= MaxEvents
  BY Constants DEF Types, TypeRest, MayFail
<1> QED
  BY <1>1, TimesStay DEF Types, TypeRest

LEMMA TickErrsTypes ==
    ASSUME Types, TickErrs
    PROVE  Types' /\ row' = row /\ reopened' = reopened
<1>1. UNCHANGED <<now, row, runs, lease, owner, wake, perm, crashes, anchors, asked, drift, reopened>>
  BY DEF TickErrs, dbVars
<1>2. MayFail /\ events' = events + 1 /\ sch' = Asleep /\ poll' = TRUE
  BY DEF TickErrs, TickFails
<1>3. TypeRest'
  BY <1>1, <1>2, OneMoreEvent
<1>4. sch' \in Schs(Times) /\ sch'.pc = "asleep" /\ sch'.cur = 0
  BY <1>2, Base, Idle
<1>5. Pointers'
  BY <1>1, <1>4, PointersStay
<1> QED
  BY <1>1, <1>3, <1>4, <1>5, Base, SchedulerKeeps DEF Busy

LEMMA ApprovalErrsTypes ==
    ASSUME Types, ApprovalErrs
    PROVE  Types' /\ row' = row /\ reopened' = reopened
<1>1. UNCHANGED <<now, row, runs, lease, owner, sch, poll, wake, crashes, anchors, asked, drift, reopened>>
  BY DEF ApprovalErrs, dbVars, schedVars, history
<1>2. MayFail /\ events' = events + 1 /\ perm' = NoPerm
  BY DEF ApprovalErrs
<1>3. poll' \in BOOLEAN
  BY <1>1 DEF Types, TypeRest
<1>4. TypeRest'
  BY <1>1, <1>2, <1>3, OneMoreEvent
<1>5. perm' \in Perms(Times) /\ perm'.pc = "idle" /\ perm'.cur = 0
  BY <1>2, Base, Idle
<1>6. Pointers'
  BY <1>1, <1>5, PointersStay
<1>7. Times' = Times
  BY <1>1, TimesStay
<1>8. Stages'
  BY <1>1, <1>5 DEF Types, Stages
<1> QED
  BY <1>1, <1>4, <1>5, <1>6, <1>7, <1>8 DEF Types, TypeRow, TypeRuns, TypeSch, TypePerm

LEMMA ClockTypes ==
    ASSUME Types, Clock
    PROVE  Types'
<1>1. now < MaxTime /\ now' = now + 1
      /\ UNCHANGED <<row, runs, lease, owner, sch, poll, wake, perm, events, crashes, anchors, asked, drift, reopened>>
  BY DEF Clock, dbVars, schedVars, bounds, history
<1>2. now' \in Instant
  BY <1>1, Base, Constants DEF Instant
<1>3. TypeRest'
  BY <1>1, <1>2, TimesStay DEF Types, TypeRest
<1>4. Times' = Times
  BY <1>1, TimesStay
<1>5. Pointers' /\ Stages'
  BY <1>1 DEF Types, Pointers, Stages
<1> QED
  BY <1>1, <1>3, <1>4, <1>5 DEF Types, TypeRow, TypeRuns, TypeSch, TypePerm

LEMMA CrashAndRestartTypes ==
    ASSUME Types, CrashAndRestart
    PROVE  Types' /\ row' = row /\ reopened' = reopened
<1>1. /\ events + crashes < MaxEvents /\ crashes' = crashes + 1 /\ owner' = owner + 1
      /\ sch' = [Asleep EXCEPT !.pc = "lease"] /\ poll' = FALSE /\ wake' = FALSE /\ perm' = NoPerm
  BY DEF CrashAndRestart, MayFail
<1>2. UNCHANGED <<now, row, runs, lease, events, anchors, asked, drift, reopened>>
  BY DEF CrashAndRestart, dbVars
<1>3. Starts' = Starts /\ Times' = Times
  BY <1>2, TimesStay
<1>4. TypeRest'
  <2>1. crashes' \in Nat /\ events' + crashes' <= MaxEvents /\ owner' = crashes' + 1
    BY <1>1, <1>2, Constants DEF Types, TypeRest
  <2> QED
    BY <1>1, <1>2, <1>3, <2>1 DEF Types, TypeRest
<1>5. sch' \in Schs(Times) /\ sch'.pc = "lease" /\ sch'.cur = 0
  BY <1>1, Base, Idle
<1>6. perm' \in Perms(Times) /\ perm'.pc = "idle" /\ perm'.cur = 0
  BY <1>1, Base, Idle
<1>7. Pointers'
  BY <1>2, <1>5, <1>6, PointersStay
<1>8. Stages'
  BY <1>5, <1>6 DEF Stages, Busy
<1> QED
  BY <1>2, <1>3, <1>4, <1>5, <1>6, <1>7, <1>8 DEF Types, TypeRow, TypeRuns, TypeSch, TypePerm

LEMMA StutterTypes ==
    ASSUME Types, UNCHANGED vars
    PROVE  Types'
<1>1. UNCHANGED <<now, row, runs, lease, owner, sch, poll, wake, perm, events, crashes, anchors, asked, drift, reopened>>
  BY DEF vars, dbVars, schedVars, bounds, history
<1>2. Times' = Times
  BY <1>1, TimesStay
<1> QED
  BY <1>1, <1>2 DEF Types, TypeRow, TypeRuns, TypeSch, TypePerm, TypeRest, Pointers, Stages, Starts

LEMMA InitTypes == Init => Types
<1> SUFFICES ASSUME Init PROVE Types
  OBVIOUS
<1>1. PICK f \in 0..Last : f = FirstOccurrence
  <2>1. ScheduleCandidateAfter(Routine, 0) = Interval
    BY Candidate, Constants
  <2> QED
    BY <2>1, Constants DEF FirstOccurrence, Last
<1>2. Starts = {f}
  BY <1>1 DEF Init, Starts
<1>3. f \in Times /\ None \in Times
  <2>1. f \in CadenceFrom(Starts)
    BY <1>2, CadenceSelf
  <2> QED
    BY <2>1 DEF Times
<1>4. row = [there |-> TRUE, active |-> TRUE, next |-> f, claimed |-> None,
              reason |-> "none", status |-> "none", last |-> 0, fails |-> 0, resume |-> None]
  BY <1>1 DEF Init
<1>5. TypeRow /\ row.last = 0
  BY <1>3, <1>4 DEF TypeRow, Rows
<1>6. runs \in Runs(Times) /\ Len(runs) = 0
  BY DEF Init, Runs
<1>7. sch \in Schs(Times) /\ sch.pc = "lease" /\ sch.cur = 0
  BY <1>3, Idle DEF Init
<1>8. perm \in Perms(Times) /\ perm.pc = "idle" /\ perm.cur = 0
  BY <1>3, Idle DEF Init
<1>9. TypeRest
  <2>1. now \in Instant /\ lease \in [owner : 0..MaxEvents + 1, expires : 0..MaxTime + OwnerLease]
    BY Constants DEF Init, Instant
  <2>2. events \in Nat /\ crashes \in Nat /\ events + crashes <= MaxEvents /\ owner = crashes + 1
    BY Constants DEF Init
  <2>3. Starts \subseteq 0..Last
    BY <1>2
  <2>4. poll \in BOOLEAN /\ wake \in BOOLEAN /\ reopened \in BOOLEAN
    BY DEF Init
  <2> QED
    BY <2>1, <2>2, <2>3, <2>4 DEF TypeRest
<1>10. Pointers
  BY <1>5, <1>6, <1>7, <1>8 DEF Pointers
<1>11. Stages
  BY <1>7, <1>8 DEF Stages, Busy
<1> QED
  BY <1>5, <1>6, <1>7, <1>8, <1>9, <1>10, <1>11 DEF Types, TypeRuns, TypeSch, TypePerm

LEMMA TypesHold == Spec => []Types
<1>1. Types /\ [Next]_vars => Types'
  BY SchedulerTypes, UserTypes, ApprovalTypes, TickErrsTypes, ApprovalErrsTypes, ClockTypes,
     CrashAndRestartTypes, StutterTypes DEF Next
<1> QED
  BY <1>1, InitTypes, PTL DEF Spec

-----------------------------------------------------------------------------
(* The theorems                                                            *)

\* The routine's row, its runs, the leases and the scheduler thread keep their
\* types, and both the row and the thread point to runs that exist, whatever
\* the commands, the approvals and the restarts do in between.
THEOREM SchedulerTypeOK == Spec => []TypeOK
<1>1. Types => TypeOK
  <2> SUFFICES ASSUME Types PROVE TypeOK
    OBVIOUS
  <2>1. Times \subseteq Later
    BY Base DEF Closed
  <2>2. row.there => row \in [there : BOOLEAN, active : BOOLEAN, next : Later,
                claimed : {None} \union Instant,
                reason : {"none", "user", "failures", "end"}, status : RunStatus \union {"none"},
                last : 0..Len(runs), fails : Nat, resume : Later]
    <3> SUFFICES ASSUME row.there PROVE row.last \in 0..Len(runs)
      BY <2>1, Base DEF Rows
    <3> QED
      BY Base DEF Types, Pointers
  <2>3. runs \in Seq([for : Instant, status : RunStatus])
    <3> DEFINE R == [for : Instant, status : RunStatus]
    <3>1. RunRecs(Times) \subseteq R
      BY DEF RunRecs
    <3>2. runs \in Seq(RunRecs(Times))
      BY Base DEF Runs
    <3> HIDE DEF R
    <3>3. runs \in Seq(R)
      BY <3>1, <3>2
    <3> QED
      BY <3>3 DEF R
  <2>4. row.there => sch.cur \in 0..Len(runs)
    BY Base DEF Types, Pointers
  <2>5. owner \in 1..MaxEvents + 1
    BY Constants DEF Types, TypeRest
  <2>6. /\ now \in Instant /\ poll \in BOOLEAN /\ wake \in BOOLEAN
        /\ lease \in [owner : 0..MaxEvents + 1, expires : 0..MaxTime + OwnerLease]
    BY DEF Types, TypeRest
  <2> QED
    BY <2>2, <2>3, <2>4, <2>5, <2>6 DEF TypeOK
<1> QED
  BY <1>1, TypesHold, PTL

\* The plan of claimed_occurrences_at, the snapshots of other threads and the
\* catch-up of first_run_after_now_from_occurrence never make the routine due,
\* or run it, off the cadences that its user and Run Now started, as long as no
\* transient failure has started another: for every interval, cap and
\* missed-run policy.
THEOREM SchedulerDueOnlyWhereAsked == Spec => []DueOnlyWhereAsked
<1>1. Types => DueOnlyWhereAsked
  <2> SUFFICES ASSUME Types, drift = {}
               PROVE  Occurrences \subseteq CadenceFrom(anchors \union asked)
    BY DEF DueOnlyWhereAsked
  <2>1. Starts = anchors \union asked
    BY DEF Starts
  <2>2. row.next \in Times
    BY Base DEF Rows
  <2>3. ASSUME NEW i \in 1..Len(runs)
        PROVE  runs[i].for \in CadenceFrom(Starts)
    <3>1. runs[i] \in RunRecs(Times)
      BY Base DEF Runs
    <3>2. runs[i].for \in Times /\ runs[i].for # None
      BY <3>1, Constants DEF RunRecs, Instant, None
    <3> QED
      BY <3>2 DEF Times
  <2>4. row.next # None => row.next \in CadenceFrom(Starts)
    BY <2>2 DEF Times
  <2>5. Occurrences \subseteq CadenceFrom(Starts)
    BY <2>3, <2>4 DEF Occurrences
  <2> QED
    BY <2>1, <2>5
<1> QED
  BY <1>1, TypesHold, PTL

\* What a step does to the list of runs.
LEMMA RunsStep ==
    ASSUME Types, [Next]_vars
    PROVE  \/ SameRuns(runs', runs)
           \/ runs' = <<>>
           \/ \E f : ~Recorded(f) /\ runs' = Append(runs, [for |-> f, status |-> "Running"])
<1>0. \A i, v : v \in RunStatus => SameRuns([runs EXCEPT ![i].status = v], runs)
  BY Base, StatusChange
<1>1. CASE runs' = runs
  BY <1>1 DEF SameRuns
<1>2. CASE StartRun
  <2>1. "Running" \in RunStatus
    BY DEF RunStatus
  <2>2. CASE runs' = [runs EXCEPT ![RetryableInstance].status = "Running"]
    BY <1>0, <2>1, <2>2
  <2>3. CASE runs' = Append(runs, [for |-> Head(sch.plan).for, status |-> "Running"])
    <3>1. ~Recorded(Head(sch.plan).for)
      BY <1>2 DEF StartRun
    <3> QED
      BY <2>3, <3>1
  <2> QED
    BY <1>1, <1>2, <2>2, <2>3 DEF StartRun
<1>3. ASSUME NEW outcome \in Outcomes, RunEnds(outcome), runs' # runs
      PROVE  SameRuns(runs', runs)
  <2> DEFINE v == CASE outcome = "Transient" -> "Failed"
                    [] outcome = "Unverified" -> "Completed"
                    [] OTHER -> outcome
  <2>1. outcome # "Error"
    BY <1>3 DEF RunEnds
  <2>2. v \in RunStatus
    BY <2>1, SchedulerAssumption DEF RunStatus
  <2>3. runs' = [runs EXCEPT ![sch.cur].status = v]
    BY <1>3, <2>1 DEF RunEnds
  <2> QED
    BY <1>0, <2>2, <2>3
<1>4. CASE RequeueTransient
  <2>1. "Pending" \in RunStatus /\ runs' = [runs EXCEPT ![sch.cur].status = "Pending"]
    BY <1>4 DEF RunStatus, RequeueTransient
  <2> QED
    BY <1>0, <2>1
<1>5. ASSUME NEW i \in 1..Len(runs), Approve(i)
      PROVE  SameRuns(runs', runs)
  <2>1. "Running" \in RunStatus /\ runs' = [runs EXCEPT ![i].status = "Running"]
    BY <1>5 DEF RunStatus, Approve
  <2> QED
    BY <1>0, <2>1
<1>6. ASSUME NEW outcome \in Outcomes, ApprovedRunEnds(outcome), runs' # runs
      PROVE  SameRuns(runs', runs)
  <2> DEFINE v == CASE outcome = "Transient" -> "Failed"
                    [] outcome = "Unverified" -> "Completed"
                    [] OTHER -> outcome
  <2>1. outcome # "Error"
    BY <1>6 DEF ApprovedRunEnds
  <2>2. v \in RunStatus
    BY <2>1, SchedulerAssumption DEF RunStatus
  <2>3. runs' = [runs EXCEPT ![perm.cur].status = v]
    BY <1>6, <2>1 DEF ApprovedRunEnds
  <2> QED
    BY <1>0, <2>2, <2>3
<1>7. CASE SchedulerStep
  <2>1. CASE WakeUp \/ AcquireLease \/ Finalize \/ ClaimDue \/ SkipOrPlan \/ AdvanceRecorded
             \/ PersistResult \/ RecordPolicy \/ FinishOccurrence \/ Rest
    BY <1>1, <2>1 DEF WakeUp, AcquireLease, Finalize, ClaimDue, SkipOrPlan, AdvanceRecorded,
       PersistResult, RecordPolicy, FinishOccurrence, Rest, dbVars
  <2> QED
    BY <1>1, <1>2, <1>3, <1>4, <1>7, <2>1 DEF SchedulerStep
<1>8. CASE UserStep
  <2>1. CASE Pause \/ Resume \/ Update \/ RunNow
    BY <1>1, <2>1 DEF Pause, Resume, Update, RunNow
  <2>2. CASE Delete
    BY <2>2 DEF Delete
  <2> QED
    BY <1>5, <1>8, <2>1, <2>2 DEF UserStep
<1>9. CASE ApprovalStep
  <2>1. CASE ApprovedLoad \/ ApprovedPersist \/ ApprovedPolicy \/ ApprovedFinish
    BY <1>1, <2>1 DEF ApprovedLoad, ApprovedPersist, ApprovedPolicy, ApprovedFinish, dbVars
  <2> QED
    BY <1>1, <1>6, <1>9, <2>1 DEF ApprovalStep
<1>10. CASE TickErrs \/ ApprovalErrs \/ Clock \/ CrashAndRestart \/ UNCHANGED vars
  BY <1>1, <1>10 DEF TickErrs, ApprovalErrs, Clock, CrashAndRestart, vars, dbVars
<1> QED
  BY <1>7, <1>8, <1>9, <1>10 DEF Next

\* advance_if_recorded and the unique occurrence of a run: an occurrence is run
\* once, over crashes in the middle of it, claims that lapse, catch-ups, and
\* approvals that rewrite the row.
THEOREM SchedulerOneRunPerOccurrence == Spec => []OneRunPerOccurrence
<1>1. Init => OneRunPerOccurrence
  BY DEF Init, OneRunPerOccurrence
<1>2. Types /\ OneRunPerOccurrence /\ [Next]_vars => OneRunPerOccurrence'
  <2> SUFFICES ASSUME Types, OneRunPerOccurrence, [Next]_vars PROVE OneRunPerOccurrence'
    OBVIOUS
  <2>1. CASE SameRuns(runs', runs)
    BY <2>1 DEF SameRuns, OneRunPerOccurrence
  <2>2. CASE runs' = <<>>
    BY <2>2 DEF OneRunPerOccurrence
  <2>3. ASSUME NEW f, ~Recorded(f), runs' = Append(runs, [for |-> f, status |-> "Running"])
        PROVE  OneRunPerOccurrence'
    <3>1. PICK e : e = [for |-> f, status |-> "Running"]
      OBVIOUS
    <3>2. e.for = f
      BY <3>1
    <3>3. runs \in Seq(RunRecs(Times)) /\ Len(runs) \in Nat
      BY Base DEF Runs
    <3>4. runs' = Append(runs, e)
      BY <2>3, <3>1
    <3>5. /\ Len(runs') = Len(runs) + 1 /\ runs'[Len(runs) + 1] = e
          /\ \A i \in 1..Len(runs) : runs'[i] = runs[i]
      BY <3>3, <3>4
    <3>6. \A i \in 1..Len(runs) : runs[i].for # f
      BY <2>3 DEF Recorded
    <3>7. ASSUME NEW i \in 1..Len(runs'), NEW j \in 1..Len(runs'), runs'[i].for = runs'[j].for
          PROVE  i = j
      <4>1. CASE i \in 1..Len(runs) /\ j \in 1..Len(runs)
        BY <3>5, <3>7, <4>1 DEF OneRunPerOccurrence
      <4>2. CASE i = Len(runs) + 1 /\ j \in 1..Len(runs)
        BY <3>2, <3>5, <3>6, <3>7, <4>2
      <4>3. CASE j = Len(runs) + 1 /\ i \in 1..Len(runs)
        BY <3>2, <3>5, <3>6, <3>7, <4>3
      <4> QED
        BY <3>3, <3>5, <4>1, <4>2, <4>3
    <3> QED
      BY <3>7 DEF OneRunPerOccurrence
  <2> QED
    BY <2>1, <2>2, <2>3, RunsStep
<1> QED
  BY <1>1, <1>2, TypesHold, PTL DEF Spec

\* record_result_policy stops a routine that failed Threshold times, and
\* nothing but a resumption, Run Now or a requeue makes it active again.
THEOREM SchedulerThresholdStops == Spec => []ThresholdStops
<1>0. Threshold \in Nat \ {0}
  BY Constants
<1>1. Init => ThresholdStops
  BY <1>0 DEF Init, ThresholdStops
<1>2. Types /\ ThresholdStops /\ [Next]_vars => ThresholdStops'
  <2> SUFFICES ASSUME Types, ThresholdStops, [Next]_vars PROVE ThresholdStops'
    OBVIOUS
  <2>1. row.fails \in Nat
    BY Base DEF Rows
  \* The row keeps its activity and its failures, or is no longer active.
  <2>2. ASSUME row'.there = row.there, row.there /\ row'.active => row.active /\ row'.fails = row.fails,
               reopened' = reopened
        PROVE  ThresholdStops'
    BY <2>2 DEF ThresholdStops
  <2>3. ASSUME row'.there = row.there, row'.fails = row.fails,
               reopened' <=> (reopened \/ row.fails >= Threshold)
        PROVE  ThresholdStops'
    BY <2>3 DEF ThresholdStops
  <2>4. ASSUME row'.there /\ row'.active => row'.fails < Threshold, row' \in Rows(Times)
        PROVE  ThresholdStops'
    <3>1. row'.fails \in Nat
      BY <2>4 DEF Rows
    <3> QED
      BY <1>0, <2>4, <3>1 DEF ThresholdStops
  <2>5. ASSUME row' \in {row, Finished(row)}, reopened' = reopened
        PROVE  ThresholdStops'
    BY <2>5, <2>2, Base, FinishedIs
  <2>6. CASE SchedulerStep
    <3>1. CASE WakeUp \/ AcquireLease \/ StartRun \/ Rest \/ \E outcome \in Outcomes : RunEnds(outcome)
      BY <2>5, <3>1 DEF WakeUp, AcquireLease, StartRun, Rest, RunEnds, dbVars, history
    <3>2. CASE Finalize
      BY <2>5, <3>2 DEF Finalize, history
    <3>3. CASE ClaimDue
      <4>1. reopened' = reopened
        BY <3>3 DEF ClaimDue, history
      <4>2. row'.there = row.there /\ row'.active = row.active /\ row'.fails = row.fails
        BY <3>3, Base DEF ClaimDue, Rows
      <4> QED
        BY <2>2, <4>1, <4>2
    <3>4. CASE SkipOrPlan
      BY <2>2, <3>4, SkipOrPlanTypes DEF SkipOrPlan, history
    <3>5. CASE AdvanceRecorded
      BY <2>2, <3>5, AdvanceRecordedTypes DEF AdvanceRecorded, history
    <3>6. CASE RequeueTransient
      BY <2>3, <3>6, RequeueTransientTypes
    <3>7. CASE PersistResult
      BY <2>2, <3>7, PersistResultTypes DEF PersistResult, history
    <3>8. CASE RecordPolicy
      <4>1. Times' = Times
        BY <3>8, TimesStay DEF RecordPolicy
      <4> QED
        BY <2>4, <3>8, <4>1, RecordPolicyTypes DEF Types, TypeRow
    <3>9. CASE FinishOccurrence
      BY <2>5, <3>9, FinishOccurrenceTypes DEF FinishOccurrence, history
    <3> QED
      BY <2>6, <3>1, <3>2, <3>3, <3>4, <3>5, <3>6, <3>7, <3>8, <3>9 DEF SchedulerStep
  <2>7. CASE UserStep
    <3>1. CASE Pause
      <4>1. ~row'.active
        BY <3>1, PauseTypes
      <4> QED
        BY <4>1 DEF ThresholdStops
    <3>2. CASE Resume
      BY <2>3, <3>2, ResumeTypes
    <3>3. CASE Update
      BY <2>2, <3>3, UpdateTypes
    <3>4. CASE RunNow
      BY <2>3, <2>5, <3>4, RunNowTypes
    <3>5. CASE Delete
      BY <3>5, DeleteTypes DEF ThresholdStops
    <3>6. ASSUME NEW i \in 1..Len(runs), Approve(i)
          PROVE  ThresholdStops'
      BY <2>5, <3>6, ApproveTypes
    <3> QED
      BY <2>7, <3>1, <3>2, <3>3, <3>4, <3>5, <3>6 DEF UserStep
  <2>8. CASE ApprovalStep
    <3>1. CASE ApprovedPolicy
      <4>1. Times' = Times
        BY <3>1, TimesStay DEF ApprovedPolicy
      <4> QED
        BY <2>4, <3>1, <4>1, ApprovedPolicyTypes DEF Types, TypeRow
    <3>2. CASE ApprovedPersist
      BY <2>2, <3>2, ApprovedPersistTypes
    <3>3. CASE ApprovedFinish
      BY <2>5, <3>3, ApprovedFinishTypes
    <3>4. CASE ApprovedLoad
      BY <2>5, <3>4, ApprovedLoadTypes
    <3>5. ASSUME NEW outcome \in Outcomes, ApprovedRunEnds(outcome)
          PROVE  ThresholdStops'
      BY <2>5, <3>5, ApprovedRunEndsTypes
    <3> QED
      BY <2>8, <3>1, <3>2, <3>3, <3>4, <3>5 DEF ApprovalStep
  <2>9. CASE TickErrs \/ ApprovalErrs \/ Clock \/ CrashAndRestart \/ UNCHANGED vars
    BY <2>5, <2>9 DEF TickErrs, ApprovalErrs, Clock, CrashAndRestart, vars, dbVars, history
  <2> QED
    BY <2>6, <2>7, <2>8, <2>9 DEF Next
<1> QED
  BY <1>1, <1>2, TypesHold, PTL DEF Spec

\* A scheduler that sleeps has events back its claim, on the ways out of a tick
\* that run nothing, for an unverified run and for a deleted routine too, unless
\* that tick died or returned early with an error.  It rests on
\* claimed_occurrences_at, which plans at least one occurrence, so that no tick
\* ends between the claim and the first result, and on ClaimHeld, which follows
\* the claim through the commands and approvals that rewrite the row.
THEOREM SchedulerOnlyFailuresLeaveClaims == Spec => []OnlyFailuresLeaveClaims
<1>1. Init => ClaimHeld
  BY DEF Init, ClaimHeld
<1>2. Types /\ ClaimHeld /\ [Next]_vars => ClaimHeld'
  <2> SUFFICES ASSUME Types, ClaimHeld, [Next]_vars PROVE ClaimHeld'
    OBVIOUS
  <2> DEFINE Holding(s) == s.pc \in {"skip", "running", "requeue", "persist"} \/ (s.pc = "plan" /\ s.plan # <<>>)
  \* There is no claim after the step, or the one of before is still held.
  <2>3. ASSUME row'.there => row'.claimed = None
        PROVE  ClaimHeld'
    BY <2>3 DEF ClaimHeld
  <2>4. ASSUME left' = left, row'.there = row.there, row.there => row'.claimed \in {None, row.claimed},
               sch' = sch \/ ~Holding(sch)
        PROVE  ClaimHeld'
    BY <2>4 DEF ClaimHeld
  <2>5. ASSUME sch'.pc \in {"skip", "running", "requeue", "persist"} \/ (sch'.pc = "plan" /\ sch'.plan # <<>>)
        PROVE  ClaimHeld'
    BY <2>5 DEF ClaimHeld
  <2>6. row' \in {row, Finished(row)} =>
           row'.there = row.there /\ row'.claimed \in {None, row.claimed}
    BY Base, FinishedIs
  <2>7. CASE SchedulerStep
    <3>1. CASE WakeUp \/ AcquireLease
      BY <2>4, <3>1 DEF WakeUp, AcquireLease, dbVars, history
    <3>2. CASE Rest
      BY <2>4, <3>2 DEF Rest, dbVars, history
    <3>3. CASE Finalize
      BY <2>4, <2>6, <3>3 DEF Finalize, history
    <3>4. CASE ClaimDue
      <4>1. CASE Claimable(sch.at)
        <5>1. sch'.pc = "skip"
          BY <3>4, <4>1, Base DEF ClaimDue, Schs
        <5> QED
          BY <2>5, <5>1
      <4>2. CASE ~Claimable(sch.at)
        <5>1. row' = row /\ left' = left
          BY <3>4, <4>2 DEF ClaimDue
        <5> QED
          BY <2>4, <3>4, <5>1 DEF ClaimDue
      <4> QED
        BY <4>1, <4>2
    <3>5. CASE SkipOrPlan
      BY <2>3, <2>5, <3>5, SkipOrPlanTypes
    <3>6. CASE AdvanceRecorded
      BY <2>3, <3>6, AdvanceRecordedTypes
    <3>7. CASE StartRun
      BY <2>5, <3>7, StartRunTypes
    <3>8. ASSUME NEW outcome \in Outcomes, RunEnds(outcome)
          PROVE  ClaimHeld'
      BY <2>5, <3>8, RunEndsTypes
    <3>9. CASE RequeueTransient
      BY <2>3, <3>9, RequeueTransientTypes
    <3>10. CASE PersistResult
      BY <2>3, <3>10, PersistResultTypes
    <3>11. CASE RecordPolicy
      BY <2>4, <3>11, RecordPolicyTypes DEF RecordPolicy
    <3>12. CASE FinishOccurrence
      BY <2>4, <2>6, <3>12, FinishOccurrenceTypes DEF FinishOccurrence, history
    <3> QED
      BY <2>7, <3>1, <3>2, <3>3, <3>4, <3>5, <3>6, <3>7, <3>8, <3>9, <3>10, <3>11, <3>12
         DEF SchedulerStep
  <2>8. CASE UserStep
    <3>1. CASE Pause \/ Resume \/ Update \/ Delete
      BY <2>3, <3>1, PauseTypes, ResumeTypes, UpdateTypes, DeleteTypes
    <3>2. CASE RunNow
      <4>1. left' = left /\ sch' = sch
        BY <3>2 DEF RunNow, Command
      <4> QED
        BY <2>3, <2>4, <3>2, <4>1, RunNowTypes
    <3>3. ASSUME NEW i \in 1..Len(runs), Approve(i)
          PROVE  ClaimHeld'
      BY <2>4, <3>3 DEF Approve, Command
    <3> QED
      BY <2>8, <3>1, <3>2, <3>3 DEF UserStep
  <2>9. CASE ApprovalStep
    <3>1. left' = left /\ sch' = sch
      BY <2>9 DEF ApprovalStep, ApprovedLoad, ApprovedPersist, ApprovedPolicy, ApprovedFinish,
         ApprovedRunEnds, schedVars, history
    <3>2. CASE ApprovedPolicy
      BY <2>4, <3>1, <3>2, ApprovedPolicyTypes
    <3>3. CASE ApprovedPersist
      BY <2>3, <3>3, ApprovedPersistTypes
    <3>4. CASE ApprovedFinish
      BY <2>4, <2>6, <3>1, <3>4, ApprovedFinishTypes
    <3>5. CASE ApprovedLoad
      BY <2>4, <3>1, <3>5, ApprovedLoadTypes
    <3>6. ASSUME NEW outcome \in Outcomes, ApprovedRunEnds(outcome)
          PROVE  ClaimHeld'
      BY <2>4, <3>1, <3>6, ApprovedRunEndsTypes
    <3> QED
      BY <2>9, <3>2, <3>3, <3>4, <3>5, <3>6 DEF ApprovalStep
  <2>10. CASE ApprovalErrs \/ Clock \/ UNCHANGED vars
    BY <2>4, <2>10 DEF ApprovalErrs, Clock, vars, dbVars, schedVars, history
  \* The tick is over: its claim is one that was left.
  <2>11. CASE TickErrs \/ CrashAndRestart
    <3>1. LeaveClaim /\ row' = row
      BY <2>11 DEF TickErrs, CrashAndRestart, dbVars
    <3> QED
      BY <3>1 DEF LeaveClaim, ClaimHeld
  <2> QED
    BY <2>7, <2>8, <2>9, <2>10, <2>11 DEF Next
<1>3. ClaimHeld => OnlyFailuresLeaveClaims
  BY DEF ClaimHeld, OnlyFailuresLeaveClaims
<1> QED
  BY <1>1, <1>2, <1>3, TypesHold, PTL DEF Spec
=============================================================================
