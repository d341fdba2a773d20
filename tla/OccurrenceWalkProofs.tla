------------------------- MODULE OccurrenceWalkProofs -------------------------
(***************************************************************************)
(* One schedule over a long time, for every schedule that the repository   *)
(* accepts, every zone, calendar, policy, cap and end boundary, and every  *)
(* pattern of sleeps.                                                      *)
(*                                                                         *)
(* The argument is about the cadence: it is closed under the successor     *)
(* (CadenceIs), a tick moves along it (TickStep), and an occurrence        *)
(* without a successor is its last one (EndOfCadence).                     *)
(***************************************************************************)
EXTENDS OccurrenceWalk, RecurrenceProofs

-----------------------------------------------------------------------------
(* The inductive invariant                                                 *)

WalkTypes ==
    /\ sched \in Schedule /\ now \in 0..Horizon
    /\ created \in [at : Nat, first : Nat]
    /\ created.first \in {created.at, ScheduleCandidateAfter(sched, created.at)}

OnCadence == ran \subseteq Cadence /\ next \in Cadence \union {None}

\* What ran is behind the next run.
Ahead == \A o \in ran : next = None \/ next > o

\* Who has no next run has reached the end, or the last of the cadence.
Retired ==
    next = None =>
        \/ sched.oneShot
        \/ /\ sched.end # None
           /\ Ended(sched, now)
              \/ \E q \in Cadence : q <= now /\ NextRunWithEndBoundary(sched, q) = None

Walks == WalkTypes /\ OnCadence /\ Ahead /\ Retired

-----------------------------------------------------------------------------
(* The cadence                                                             *)

CadenceOf(s, first) ==
    LET path == Successors(s, first, Horizon)
    IN  {path[k] : k \in 1..Len(path)} \ {None, Err}

LEMMA CadenceIsOf == Cadence = CadenceOf(sched, created.first)
BY DEF Cadence, CadenceOf

LEMMA Bounds == Horizon \in Nat /\ Horizon <= MaxCatchUp
BY WalkAssumption, CatchUpAssumption

LEMMA CadencePath ==
    ASSUME NEW s \in Schedule, NEW first \in Nat
    PROVE  \E P : /\ IsPath(s, first, Horizon, P) /\ IsOver(Horizon, P)
                  /\ CadenceOf(s, first) = {P[k] : k \in 1..Len(P)} \ {None, Err}
                  /\ \A k \in 1..Len(P) : Stops(P[k]) \/ P[k] \in Nat
<1>1. PICK P : P = Successors(s, first, Horizon)
  OBVIOUS
<1>2. IsPath(s, first, Horizon, P) /\ IsOver(Horizon, P)
  BY <1>1, Bounds, SuccessorsIsPath
<1>3. CadenceOf(s, first) = {P[k] : k \in 1..Len(P)} \ {None, Err}
  BY <1>1 DEF CadenceOf
<1>4. PICK l \in Nat : l = Len(P) /\ l >= 2
  BY <1>2 DEF IsPath
<1>5. ASSUME NEW k \in 1..Len(P) PROVE Stops(P[k]) \/ P[k] \in Nat
  <2>1. CASE k \in 1..Len(P) - 1
    BY <1>2, <2>1, Bounds, PathPoint
  <2>2. CASE k \notin 1..Len(P) - 1
    <3>1. k - 1 \in 1..Len(P) - 1 /\ (k - 1) + 1 = k
      BY <1>4, <2>2
    <3>2. Stops(P[(k - 1) + 1]) \/ P[(k - 1) + 1] \in Nat
      BY <1>2, <3>1, Bounds, PathPoint
    <3> QED
      BY <3>1, <3>2
  <2> QED
    BY <2>1, <2>2
<1> QED
  BY <1>2, <1>3, <1>5

LEMMA CadenceIs ==
    ASSUME NEW s \in Schedule, NEW first \in Nat
    PROVE  ClosedUpTo(s, Horizon, CadenceOf(s, first)) /\ first \in CadenceOf(s, first)
<1>1. PICK P : /\ IsPath(s, first, Horizon, P) /\ IsOver(Horizon, P)
               /\ CadenceOf(s, first) = {P[k] : k \in 1..Len(P)} \ {None, Err}
               /\ \A k \in 1..Len(P) : Stops(P[k]) \/ P[k] \in Nat
  BY CadencePath
<1>path. IsPath(s, first, Horizon, P)
  BY <1>1
<1>2. PICK l \in Nat : l = Len(P) /\ l >= 2 /\ P[1] = first
  BY <1>1 DEF IsPath
<1>3. first \in CadenceOf(s, first)
  <2>1. 1 \in 1..Len(P) /\ first \notin {None, Err}
    BY <1>2 DEF None, Err
  <2> QED
    BY <1>1, <1>2, <2>1
<1>4. CadenceOf(s, first) \subseteq Nat
  BY <1>1 DEF Stops
<1>5. ASSUME NEW t \in CadenceOf(s, first), t <= Horizon
      PROVE  \/ Stops(NextRunWithEndBoundary(s, t))
             \/ NextRunWithEndBoundary(s, t) \in CadenceOf(s, first)
  <2>1. PICK k \in 1..Len(P) : t = P[k]
    BY <1>1
  <2>2. t \in Nat /\ ~Stops(t)
    BY <1>1, <1>4 DEF Stops
  <2>3. k # Len(P)
    BY <1>1, <1>5, <2>1, <2>2, Bounds DEF IsOver
  <2>4. k \in 1..Len(P) - 1
    BY <1>2, <2>3
  <2>5. k + 1 \in 1..Len(P) /\ P[k + 1] = NextRunWithEndBoundary(s, t)
    BY <1>path, <2>1, <2>4, Bounds, PathPoint
  <2> QED
    BY <1>1, <2>5 DEF Stops
<1> QED
  BY <1>3, <1>4, <1>5 DEF ClosedUpTo

\* An occurrence without a successor is the last one.
LEMMA EndOfCadence ==
    ASSUME NEW s \in Schedule, NEW first \in Nat, NEW q \in CadenceOf(s, first), q <= Horizon,
           NextRunWithEndBoundary(s, q) = None, NEW o \in CadenceOf(s, first)
    PROVE  o <= q
<1>1. PICK P : /\ IsPath(s, first, Horizon, P) /\ IsOver(Horizon, P)
               /\ CadenceOf(s, first) = {P[k] : k \in 1..Len(P)} \ {None, Err}
               /\ \A k \in 1..Len(P) : Stops(P[k]) \/ P[k] \in Nat
  BY CadencePath
<1>path. IsPath(s, first, Horizon, P)
  BY <1>1
<1>2. PICK l \in Nat : l = Len(P) /\ l >= 2
  BY <1>1 DEF IsPath
<1>3. PICK k \in 1..Len(P) : q = P[k]
  BY <1>1
<1>4. PICK j \in 1..Len(P) : o = P[j]
  BY <1>1
<1>5. q \in Nat /\ ~Stops(q) /\ o \in Nat /\ ~Stops(o)
  BY <1>1 DEF Stops
<1>6. k # Len(P)
  BY <1>1, <1>3, <1>5, Bounds DEF IsOver
<1>7. k \in 1..Len(P) - 1
  BY <1>2, <1>6
<1>8. P[k + 1] = None
  BY <1>path, <1>3, <1>7, Bounds, PathPoint
<1>9. k + 1 \notin 1..Len(P) - 1
  <2>1. SUFFICES ASSUME k + 1 \in 1..Len(P) - 1 PROVE FALSE
    OBVIOUS
  <2>2. ~Stops(P[k + 1])
    BY <1>path, <2>1, Bounds, PathPoint
  <2> QED
    BY <1>8, <2>2 DEF Stops
<1>10. k + 1 = Len(P)
  BY <1>2, <1>7, <1>9
<1>11. j # k + 1
  BY <1>4, <1>5, <1>8 DEF Stops
<1>12. j = k \/ j < k
  BY <1>2, <1>10, <1>11
<1>13. CASE j = k
  BY <1>3, <1>4, <1>5, <1>13
<1>14. CASE j < k
  <2>1. P[j] < P[k]
    BY <1>path, <1>3, <1>5, <1>14, Bounds, PathIncreases
  <2> QED
    BY <1>3, <1>4, <1>5, <2>1
<1> QED
  BY <1>12, <1>13, <1>14

\* An occurrence that the calendar fixes is the first instant of its local time.
LEMMA CadenceIsFirst ==
    ASSUME NEW s \in Schedule, s.routine, s.expr.kind # "interval", NEW at \in Nat,
           NEW first \in {at, ScheduleCandidateAfter(s, at)}, first \in Nat,
           NEW o \in CadenceOf(s, first), o # at
    PROVE  IF s.expr.kind = "once" THEN o = s.expr.at ELSE IsFirst(s.zone, o)
<1>1. PICK P : /\ IsPath(s, first, Horizon, P)
               /\ CadenceOf(s, first) = {P[k] : k \in 1..Len(P)} \ {None, Err}
  BY CadencePath
<1>path. IsPath(s, first, Horizon, P)
  BY <1>1
<1>2. PICK l \in Nat : l = Len(P) /\ l >= 2 /\ P[1] = first
  BY <1>1 DEF IsPath
<1>3. PICK k \in 1..Len(P) : o = P[k] /\ ~Stops(o)
  BY <1>1 DEF Stops
<1>4. CASE k = 1
  <2>1. o = ScheduleCandidateAfter(s, at) /\ o # Err
    BY <1>2, <1>3, <1>4 DEF Stops
  <2> QED
    BY <2>1, CandidateIsFirst
<1>5. CASE k # 1
  <2>1. k - 1 \in 1..Len(P) - 1 /\ (k - 1) + 1 = k
    BY <1>2, <1>5
  <2>2. P[k - 1] \in Nat /\ P[(k - 1) + 1] = NextRunWithEndBoundary(s, P[k - 1])
    BY <1>path, <2>1, Bounds, PathPoint
  <2>3. o = ScheduleCandidateAfter(s, P[k - 1]) /\ o # Err
    BY <1>3, <2>1, <2>2, SuccessorIs DEF Stops
  <2> QED
    BY <2>2, <2>3, CandidateIsFirst
<1> QED
  BY <1>4, <1>5

-----------------------------------------------------------------------------
(* A tick                                                                  *)

Finished == next' = None /\ ran' = ran /\ sched.routine /\ Ended(sched, now)

Released ==
    /\ next \in Cadence /\ next <= now /\ sched.routine /\ ran' = ran
    /\ Caught(sched, now, Cadence, next') /\ next' # Err

\* The first n points of the walk p from the due occurrence ran.
Ran(p, n) ==
    /\ next \in Cadence /\ next <= now /\ p = Successors(sched, next, now) /\ n \in 1..Len(p) - 1
    /\ ran' = ran \union {p[k] : k \in 1..n}
    /\ next' = None \/ (next' \in Cadence /\ next' > p[n])
    /\ sched.routine => next' = None \/ next' > now
    /\ next' = None => \E q \in Cadence : q <= now /\ NextRunWithEndBoundary(sched, q) = None
    /\ sched.routine /\ sched.policy = "run_each" => n = Min({sched.cap, Len(p) - 1})

\* The cadence of the state, and the clock within the model's time.
LEMMA CadenceIsClosed ==
    ASSUME Walks
    PROVE  /\ sched \in Schedule /\ now \in Nat /\ now <= Horizon
           /\ Cadence \subseteq Nat /\ ClosedUpTo(sched, Horizon, Cadence)
<1>1. sched \in Schedule /\ created.first \in Nat /\ now \in 0..Horizon
  BY DEF Walks, WalkTypes
<1>2. ClosedUpTo(sched, Horizon, Cadence)
  BY <1>1, CadenceIs, CadenceIsOf
<1> QED
  BY <1>1, <1>2, Bounds DEF ClosedUpTo

LEMMA TickStep ==
    ASSUME Walks, Tick
    PROVE  /\ UNCHANGED <<sched, created, now>>
           /\ Finished \/ Released \/ \E p : \E n \in 1..Len(p) - 1 : Ran(p, n)
<1>1. UNCHANGED <<sched, created, now>>
  BY DEF Tick
<1>2. CASE sched.routine /\ Ended(sched, now) /\ Finish /\ UNCHANGED ran
  BY <1>1, <1>2 DEF Finish, Finished
<1>3. CASE next # None /\ next <= now /\ sched.routine /\ ReleaseClaimed /\ UNCHANGED ran
  <2>1. next \in Cadence
    BY <1>3 DEF Walks, OnCadence
  <2>2. PICK r : r = FirstRunAfterNowFromOccurrence(sched, next, now)
    OBVIOUS
  <2>3. Caught(sched, now, Cadence, r)
    BY <1>3, <2>1, <2>2, Bounds, CadenceIsClosed, FirstRunIsCaught
  <2>4. next' = r /\ r # Err
    BY <1>3, <2>2 DEF ReleaseClaimed, Finish
  <2> QED
    BY <1>1, <1>3, <2>1, <2>3, <2>4 DEF Released
<1>4. CASE next # None /\ next <= now /\ RunPlan
  <2>1. next \in Cadence
    BY <1>4 DEF Walks, OnCadence
  <2>2. PICK p : p = Successors(sched, next, now)
    OBVIOUS
  <2>3. PICK plan : plan = ClaimedOccurrencesAt(sched, next, None, now)
    OBVIOUS
  <2>4. PICK n \in 1..Len(p) - 1 : IsPlan(sched, now, Cadence, p, plan, n)
    <3>1. /\ sched \in Schedule /\ Horizon \in Nat /\ Horizon <= MaxCatchUp
          /\ ClosedUpTo(sched, Horizon, Cadence) /\ now \in Nat /\ next <= now /\ now <= Horizon
      BY <1>4, Bounds, CadenceIsClosed
    <3> QED
      BY <2>1, <2>2, <2>3, <3>1, PlanIs
  <2>5. next' = plan[n].next /\ next' # Err
    BY <1>4, <2>3, <2>4 DEF RunPlan, IsPlan
  <2>6. ran' = ran \union {p[k] : k \in 1..n}
    <3>1. ran' = ran \union {plan[k].for : k \in 1..n}
      BY <1>4, <2>3, <2>4 DEF RunPlan, IsPlan
    <3> QED
      BY <2>4, <3>1 DEF IsPlan
  <2>7. Ran(p, n)
    BY <1>4, <2>1, <2>2, <2>4, <2>5, <2>6 DEF Ran, IsPlan, Stops
  <2> QED
    BY <1>1, <2>7
<1> QED
  BY <1>2, <1>3, <1>4 DEF Tick

\* The points of the walk from the due occurrence.
LEMMA RanPoints ==
    ASSUME Walks, NEW p, NEW n, Ran(p, n)
    PROVE  /\ IsPath(sched, next, now, p) /\ IsOver(now, p) /\ p[1] = next /\ n \in Nat /\ n >= 1
           /\ \A k \in 1..Len(p) - 1 : /\ p[k] \in Cadence /\ p[k] \in Nat
                                       /\ next <= p[k] /\ p[k] <= now
           /\ \A k \in 1..n : k \in 1..Len(p) - 1 /\ p[k] <= p[n]
           /\ \A i, j \in 1..Len(p) - 1 : i < j => p[i] < p[j]
<1>1. /\ sched \in Schedule /\ now \in Nat /\ now <= Horizon /\ Cadence \subseteq Nat
      /\ ClosedUpTo(sched, Horizon, Cadence)
  BY CadenceIsClosed
<1>2. next \in Cadence /\ next \in Nat /\ next <= now /\ p = Successors(sched, next, now)
      /\ n \in 1..Len(p) - 1
  BY <1>1 DEF Ran
<1>3. now <= MaxCatchUp /\ next <= Horizon
  BY <1>1, <1>2, Bounds, CatchUpAssumption
<1>4. IsPath(sched, next, now, p) /\ IsOver(now, p)
  BY <1>1, <1>2, <1>3, SuccessorsIsPath
<1>5. PICK l \in Nat : l = Len(p) /\ l >= 2 /\ p[1] = next
  BY <1>4 DEF IsPath
<1>6. ASSUME NEW i \in 1..Len(p) - 1, NEW j \in 1..Len(p) - 1, i < j
      PROVE  p[i] < p[j]
  <2>1. ~Stops(p[j])
    BY <1>1, <1>2, <1>4, PathPoint
  <2>2. i \in 1..Len(p) /\ j \in 1..Len(p)
    BY <1>5
  <2> QED
    BY <1>1, <1>2, <1>4, <1>6, <2>1, <2>2, PathIncreases
<1>7. ASSUME NEW k \in 1..Len(p) - 1
      PROVE  p[k] \in Cadence /\ p[k] \in Nat /\ next <= p[k] /\ p[k] <= now
  <2>1. p[k] \in Nat /\ ~Stops(p[k]) /\ (k > 1 => p[k] <= now)
    BY <1>1, <1>2, <1>4, PathPoint
  <2>2. k \in 1..Len(p)
    BY <1>5
  <2>3. p[k] \in Cadence
    BY <1>1, <1>2, <1>3, <1>4, <2>1, <2>2, Bounds, PathStays
  <2>4. CASE k = 1
    BY <1>2, <1>5, <2>1, <2>3, <2>4
  <2>5. CASE k # 1
    <3>1. 1 \in 1..Len(p) - 1 /\ 1 < k
      BY <1>5, <2>5
    <3>2. p[1] < p[k]
      BY <1>6, <3>1
    <3> QED
      BY <1>2, <1>5, <2>1, <2>3, <3>1, <3>2
  <2> QED
    BY <2>4, <2>5
<1>8. ASSUME NEW k \in 1..n
      PROVE  k \in 1..Len(p) - 1 /\ p[k] <= p[n]
  <2>1. k \in 1..Len(p) - 1 /\ (k = n \/ k < n)
    BY <1>2, <1>5
  <2>2. p[k] \in Nat /\ p[n] \in Nat
    BY <1>2, <1>7, <2>1
  <2>3. CASE k = n
    BY <2>1, <2>2, <2>3
  <2>4. CASE k < n
    BY <1>2, <1>6, <2>1, <2>2, <2>4
  <2> QED
    BY <2>1, <2>3, <2>4
<1>9. n \in Nat /\ n >= 1
  BY <1>2, <1>5
<1> QED
  BY <1>4, <1>5, <1>6, <1>7, <1>8, <1>9

-----------------------------------------------------------------------------
(* The invariant is inductive                                              *)

LEMMA InitWalks == Init => Walks
<1>1. SUFFICES ASSUME NEW s \in Schedules, NEW at \in Starts, NEW b \in BOOLEAN, Create(s, at, b)
               PROVE  Walks
  BY DEF Init
<1>2. s \in Schedule /\ at \in 0..Horizon /\ at \in Nat
  BY ScheduleAssumption, WalkAssumption
<1>3. PICK c : c = ScheduleCandidateAfter(s, at) /\ IsLater(at, c)
  BY <1>2, CandidateIsLater
<1>4. PICK first : first = IF s.routine /\ b THEN at ELSE c
  OBVIOUS
<1>5. /\ c # Err /\ sched = s /\ now = at /\ next = first /\ ran = {}
      /\ created = [at |-> at, first |-> first]
  BY <1>1, <1>3, <1>4 DEF Create
<1>6. first \in {at, c} /\ first \in Nat
  BY <1>2, <1>3, <1>4, <1>5 DEF IsLater
<1>7. created.at = at /\ created.first = first
  BY <1>5
<1>8. WalkTypes
  BY <1>2, <1>3, <1>5, <1>6, <1>7 DEF WalkTypes
<1>9. next \in Cadence /\ next # None
  <2>1. first \in CadenceOf(s, first)
    BY <1>2, <1>6, CadenceIs
  <2> QED
    BY <1>5, <1>6, <1>7, <2>1, CadenceIsOf DEF None
<1> QED
  BY <1>5, <1>8, <1>9 DEF Walks, OnCadence, Ahead, Retired

LEMMA SleepWalks ==
    ASSUME Walks, NEW nap \in Naps, Sleep(nap)
    PROVE  Walks'
<1>1. nap \in Nat /\ now \in Nat /\ Horizon \in Nat /\ sched.end \in Nat \union {None}
  BY WalkAssumption, CadenceIsClosed, ScheduleTypes
<1>2. now' \in 0..Horizon /\ now <= now' /\ UNCHANGED <<sched, created, next, ran>>
  BY <1>1 DEF Sleep
<1>3. Cadence' = Cadence
  BY <1>2 DEF Cadence
<1>4. WalkTypes'
  BY <1>2 DEF Walks, WalkTypes
<1>5. OnCadence' /\ Ahead'
  BY <1>2, <1>3 DEF Walks, OnCadence, Ahead
<1>6. Ended(sched, now) => Ended(sched', now')
  BY <1>1, <1>2 DEF Ended
<1>7. \A q \in Cadence : q <= now => q <= now'
  BY <1>1, <1>2, CadenceIsClosed
<1>8. Retired'
  BY <1>2, <1>3, <1>6, <1>7 DEF Walks, Retired
<1> QED
  BY <1>4, <1>5, <1>8 DEF Walks

LEMMA TickWalks ==
    ASSUME Walks, Tick
    PROVE  Walks'
<1>1. UNCHANGED <<sched, created, now>>
  BY TickStep
<1>2. Cadence' = Cadence
  BY <1>1 DEF Cadence
<1>3. WalkTypes'
  BY <1>1 DEF Walks, WalkTypes
<1>4. /\ sched \in Schedule /\ Cadence \subseteq Nat /\ now \in Nat
      /\ ran \subseteq Cadence /\ \A o \in ran : next = None \/ next > o
  BY CadenceIsClosed DEF Walks, OnCadence, Ahead
<1>5. ASSUME NEW q \in Cadence, NextRunWithEndBoundary(sched, q) = None
      PROVE  sched.oneShot \/ sched.end # None
  BY <1>4, <1>5, SuccessorIs
<1>6. CASE Finished
  <2>1. next' = None /\ ran' = ran /\ Ended(sched, now) /\ sched.end # None
    BY <1>6 DEF Finished, Ended
  <2>2. OnCadence' /\ Ahead'
    BY <1>2, <1>4, <2>1 DEF OnCadence, Ahead
  <2>3. Retired'
    BY <1>1, <2>1 DEF Retired
  <2> QED
    BY <1>3, <2>2, <2>3 DEF Walks
<1>7. CASE Released
  <2>1. /\ next \in Cadence /\ next <= now /\ ran' = ran
        /\ next' = None \/ (next' \in Cadence /\ next' > now)
        /\ next' = None => \E q \in Cadence : q <= now /\ NextRunWithEndBoundary(sched, q) = None
    BY <1>7 DEF Released, Caught, Stops
  <2>2. next # None
    BY <1>4, <2>1 DEF None
  <2>3. OnCadence'
    BY <1>2, <1>4, <2>1 DEF OnCadence
  <2>4. Ahead'
    <3>1. ASSUME NEW o \in ran, next' # None PROVE next' > o
      <4>1. next' \in Nat /\ next' > now /\ next \in Nat /\ o \in Nat /\ next > o
        BY <1>4, <2>1, <2>2, <3>1
      <4> QED
        BY <1>4, <2>1, <4>1
    <3> QED
      BY <2>1, <3>1 DEF Ahead
  <2>5. Retired'
    BY <1>1, <1>2, <1>5, <2>1 DEF Retired
  <2> QED
    BY <1>3, <2>3, <2>4, <2>5 DEF Walks
<1>8. ASSUME NEW p, NEW n \in 1..Len(p) - 1, Ran(p, n)
      PROVE  Walks'
  <2>1. /\ next \in Cadence /\ ran' = ran \union {p[k] : k \in 1..n}
        /\ next' = None \/ (next' \in Cadence /\ next' > p[n])
        /\ next' = None => \E q \in Cadence : q <= now /\ NextRunWithEndBoundary(sched, q) = None
    BY <1>8 DEF Ran
  <2>2. next # None
    BY <1>4, <2>1 DEF None
  <2>3. \A k \in 1..n : p[k] \in Cadence /\ p[k] \in Nat /\ p[k] <= p[n] /\ next <= p[k]
    BY <1>8, RanPoints
  <2>4. n \in 1..n
    BY <1>8, RanPoints
  <2>5. OnCadence'
    <3>1. ran' \subseteq Cadence
      BY <1>4, <2>1, <2>3
    <3> QED
      BY <1>2, <2>1, <3>1 DEF OnCadence
  <2>6. Ahead'
    <3>1. ASSUME NEW o \in ran', next' # None PROVE next' > o
      <4>1. next' \in Nat /\ next' > p[n] /\ p[n] \in Nat /\ next <= p[n] /\ next \in Nat
        BY <1>4, <2>1, <2>3, <2>4, <3>1
      <4>2. CASE o \in ran
        BY <1>4, <2>2, <4>1, <4>2
      <4>3. CASE o \notin ran
        <5>1. PICK k \in 1..n : o = p[k]
          BY <2>1, <4>3
        <5> QED
          BY <2>3, <4>1, <5>1
      <4> QED
        BY <4>2, <4>3
    <3> QED
      BY <3>1 DEF Ahead
  <2>7. Retired'
    BY <1>1, <1>2, <1>5, <2>1 DEF Retired
  <2> QED
    BY <1>3, <2>5, <2>6, <2>7 DEF Walks
<1> QED
  BY <1>6, <1>7, <1>8, TickStep

LEMMA NextWalks == Walks /\ [Next]_vars => Walks'
<1>1. SUFFICES ASSUME Walks, [Next]_vars PROVE Walks'
  OBVIOUS
<1>2. CASE Tick
  BY <1>1, <1>2, TickWalks
<1>3. ASSUME NEW nap \in Naps, Sleep(nap) PROVE Walks'
  BY <1>1, <1>3, SleepWalks
<1>4. CASE UNCHANGED vars
  <2>1. UNCHANGED <<sched, created, now, next, ran>> /\ Cadence' = Cadence
    BY <1>4 DEF vars, Cadence
  <2> QED
    BY <1>1, <2>1 DEF Walks, WalkTypes, OnCadence, Ahead, Retired
<1> QED
  BY <1>1, <1>2, <1>3, <1>4 DEF Next

LEMMA WalksHold == Spec => []Walks
BY InitWalks, NextWalks, PTL DEF Spec

-----------------------------------------------------------------------------
(* The properties                                                          *)

\* Whatever was missed, slept over, skipped or caught up, each run stands for
\* an occurrence of the cadence fixed at creation, and so does the next one
\* (first_run_after_now_from_occurrence, claimed_occurrences_at).
THEOREM WalkStaysOnCadence == Spec => []StaysOnCadence
<1>1. Walks => StaysOnCadence
  BY DEF Walks, OnCadence, StaysOnCadence, None
<1> QED
  BY <1>1, WalksHold, PTL

\* The division that moves a fixed interval past now lands where the loop of
\* single successors would, the end boundary included.
THEOREM WalkShortcutIsIteration == Spec => []ShortcutIsIteration
<1>1. Walks => ShortcutIsIteration
  <2>1. SUFFICES ASSUME Walks, next # None
                 PROVE  FirstRunAfterNowFromOccurrence(sched, next, now)
                            = IteratedRunAfterNow(sched, next, now)
    BY DEF ShortcutIsIteration
  <2>2. sched \in Schedule /\ now \in Nat /\ now <= Horizon /\ next \in Nat
    BY <2>1, CadenceIsClosed DEF Walks, OnCadence
  <2>3. now <= MaxCatchUp
    BY <2>2, Bounds, CatchUpAssumption
  <2> QED
    BY <2>2, <2>3, DivisionIsIteration
<1> QED
  BY <1>1, WalksHold, PTL

\* A clock that is set back repeats local times; a daily, cron or calendar
\* schedule does not repeat the run: every occurrence is the first instant of
\* its local time (next_run_after_in_timezone).
THEOREM WalkOverlapRunsOnce == Spec => []OverlapRunsOnce
<1>1. Walks => OverlapRunsOnce
  <2>1. SUFFICES ASSUME Walks, sched.routine, sched.expr.kind # "interval",
                        NEW o \in ran \ {created.at}, NEW p \in ran \ {created.at},
                        LocalAt(sched.zone, o) = LocalAt(sched.zone, p)
                 PROVE  o = p
    BY DEF OverlapRunsOnce
  <2>2. PICK at \in Nat, first \in Nat : created.at = at /\ created.first = first
    BY <2>1 DEF Walks, WalkTypes
  <2>3. sched \in Schedule /\ first \in {at, ScheduleCandidateAfter(sched, at)}
    BY <2>1, <2>2 DEF Walks, WalkTypes
  <2>4. o \in CadenceOf(sched, first) /\ p \in CadenceOf(sched, first) /\ o # at /\ p # at
    BY <2>1, <2>2, CadenceIsOf DEF Walks, OnCadence
  <2>5. IF sched.expr.kind = "once" THEN o = sched.expr.at ELSE IsFirst(sched.zone, o)
    BY <2>1, <2>2, <2>3, <2>4, CadenceIsFirst
  <2>6. IF sched.expr.kind = "once" THEN p = sched.expr.at ELSE IsFirst(sched.zone, p)
    BY <2>1, <2>2, <2>3, <2>4, CadenceIsFirst
  <2> QED
    BY <2>1, <2>5, <2>6, FirstIsUnique
<1> QED
  BY <1>1, WalksHold, PTL

\* A recurring schedule is retired only by its end boundary: one with none
\* always has a next run, and one that stops has passed every occurrence before
\* the boundary (finish_routine_at_end_boundary, next_run_with_end_boundary).
THEOREM WalkRetiresOnlyAtItsEnd == Spec => []RetiresOnlyAtItsEnd
<1>1. Walks => RetiresOnlyAtItsEnd
  <2>1. SUFFICES ASSUME Walks, NEW q \in Cadence, q <= now,
                        NextRunWithEndBoundary(sched, q) = None, NEW o \in Cadence
                 PROVE  o <= now
    BY DEF Walks, Retired, RetiresOnlyAtItsEnd
  <2>2. sched \in Schedule /\ now \in Nat /\ now <= Horizon /\ q \in Nat /\ o \in Nat
    BY <2>1, CadenceIsClosed
  <2>3. created.first \in Nat /\ q <= Horizon
    BY <2>1, <2>2, Bounds DEF Walks, WalkTypes
  <2>4. o <= q
    BY <2>1, <2>2, <2>3, CadenceIsOf, EndOfCadence
  <2> QED
    BY <2>1, <2>2, <2>4
<1> QED
  BY <1>1, WalksHold, PTL

\* What a tick ran lies between the due occurrence and now, after all that ran.
LEMMA RanIsLater ==
    ASSUME Walks, NEW p, NEW n, Ran(p, n), NEW k \in 1..n, NEW o \in ran
    PROVE  p[k] > o
<1>1. next \in Cadence /\ next \in Nat /\ next # None
  BY CadenceIsClosed DEF Ran, None
<1>2. next > o /\ o \in Nat
  BY <1>1, CadenceIsClosed DEF Walks, Ahead, OnCadence
<1>3. p[k] \in Nat /\ next <= p[k]
  BY RanPoints
<1> QED
  BY <1>1, <1>2, <1>3

\* A tick leaves no occurrence of a routine due, what it runs is later than all
\* that ran before, and the next run is later than all that ran
\* (run_scheduler_tick).
THEOREM WalkCatchesUp == Spec => CatchesUp
<1> DEFINE UpToDate == Tick => /\ sched.routine => (next' = None \/ next' > now)
                               /\ \A o \in ran' \ ran, p \in ran : o > p
                               /\ \A o \in ran' : next' = None \/ next' > o
<1>1. Walks /\ [Next]_vars => [UpToDate]_vars
  <2>1. SUFFICES ASSUME Walks, Tick
                 PROVE  /\ sched.routine => (next' = None \/ next' > now)
                        /\ \A o \in ran' \ ran, p \in ran : o > p
                        /\ \A o \in ran' : next' = None \/ next' > o
    OBVIOUS
  <2>2. \A o \in ran' : next' = None \/ next' > o
    BY <2>1, TickWalks DEF Walks, Ahead
  <2>3. CASE Finished
    BY <2>2, <2>3 DEF Finished
  <2>4. CASE Released
    BY <2>2, <2>4 DEF Released, Caught, Stops
  <2>5. ASSUME NEW p, NEW n \in 1..Len(p) - 1, Ran(p, n)
        PROVE  /\ sched.routine => (next' = None \/ next' > now)
               /\ \A o \in ran' \ ran, q \in ran : o > q
    <3>1. \A o \in ran' \ ran : \E k \in 1..n : o = p[k]
      BY <2>5 DEF Ran
    <3>2. \A k \in 1..n, q \in ran : p[k] > q
      BY <2>1, <2>5, RanIsLater
    <3> QED
      BY <2>5, <3>1, <3>2 DEF Ran
  <2> QED
    BY <2>1, <2>2, <2>3, <2>4, <2>5, TickStep
<1> QED
  BY <1>1, WalksHold, PTL DEF Spec, CatchesUp

\* The walk from an occurrence passes every occurrence that is due after it.
LEMMA DueIsOnThePath ==
    ASSUME NEW s \in Schedule, NEW first \in Nat, NEW t \in CadenceOf(s, first),
           NEW until \in Nat, t <= until, until <= Horizon,
           NEW p, IsPath(s, t, until, p), IsOver(until, p),
           NEW o \in CadenceOf(s, first), t <= o, o <= until
    PROVE  \E i \in 1..Len(p) - 1 : o = p[i]
<1>1. PICK P : /\ IsPath(s, first, Horizon, P)
               /\ CadenceOf(s, first) = {P[k] : k \in 1..Len(P)} \ {None, Err}
               /\ \A k \in 1..Len(P) : Stops(P[k]) \/ P[k] \in Nat
  BY CadencePath
<1>path. IsPath(s, first, Horizon, P)
  BY <1>1
<1>2. PICK l \in Nat, n \in Nat : l = Len(P) /\ l >= 2 /\ n = l - 1 /\ l = n + 1 /\ P[1] = first
  BY <1>1 DEF IsPath
<1>3. PICK m \in Nat : m = Len(p) /\ m >= 2 /\ p[1] = t
  BY DEF IsPath
<1>4. PICK k \in 1..Len(P) : t = P[k]
  BY <1>1
<1>5. t \in Nat /\ ~Stops(t) /\ o \in Nat /\ ~Stops(o) /\ Horizon \in Nat
  BY <1>1, Bounds DEF Stops
<1> DEFINE OnPath(x) == \E i \in 1..Len(p) - 1 : x = p[i]
           S == {j \in 0..n : \/ Stops(P[j + 1]) \/ P[j + 1] < t
                              \/ P[j + 1] > until \/ OnPath(P[j + 1])}
<1>6. OnPath(t)
  BY <1>3
<1>7. ASSUME NEW j \in 1..Len(P), j <= k
      PROVE  P[j] < t \/ OnPath(P[j])
  <2>1. CASE j = k
    BY <1>4, <1>6, <2>1
  <2>2. CASE j # k
    <3>1. j < k
      BY <1>2, <1>7, <2>2
    <3>2. P[j] < P[k]
      <4> HIDE DEF OnPath
      <4> QED
        BY <1>path, <1>4, <1>5, <3>1, PathIncreases
    <3> QED
      BY <1>4, <3>2
  <2> QED
    BY <2>1, <2>2
<1>8. 0 \in S
  <2>1. 1 \in 1..Len(P) /\ 1 <= k
    BY <1>2
  <2>2. P[1] < t \/ OnPath(P[1])
    <3> HIDE DEF OnPath
    <3> QED
      BY <1>7, <2>1
  <2> HIDE DEF OnPath
  <2> QED
    BY <2>2
<1>9. ASSUME NEW j \in 0..n, j \in S, j < n
      PROVE  j + 1 \in S
  <2>1. j + 1 \in 1..Len(P) - 1 /\ j + 1 \in 0..n /\ j + 1 \in 1..Len(P)
    BY <1>2, <1>9
  <2>2. PICK x, y : x = P[j + 1] /\ y = P[(j + 1) + 1]
    OBVIOUS
  <2>3. /\ x \in Nat /\ ~Stops(x) /\ (j + 1) + 1 \in 1..Len(P)
        /\ y = NextRunWithEndBoundary(s, x) /\ (Stops(y) \/ (y \in Nat /\ y > x))
    BY <1>path, <1>5, <2>1, <2>2, PathPoint
  <2>4. SUFFICES Stops(y) \/ y < t \/ y > until \/ OnPath(y)
    BY <2>1, <2>2
  <2>5. CASE x < t
    <3>1. j + 1 < k
      <4>1. SUFFICES ASSUME k <= j + 1 PROVE FALSE
        BY <1>2
      <4>2. CASE k = j + 1
        BY <1>4, <1>5, <2>2, <2>3, <2>5, <4>2
      <4>3. CASE k < j + 1
        <5>1. P[k] < P[j + 1]
          BY <1>path, <1>5, <2>1, <2>2, <2>3, <4>3, PathIncreases
        <5> QED
          BY <1>4, <1>5, <2>2, <2>3, <2>5, <5>1
      <4> QED
        BY <1>2, <4>1, <4>2, <4>3
    <3>2. (j + 1) + 1 <= k
      BY <1>2, <3>1
    <3>3. P[(j + 1) + 1] < t \/ OnPath(P[(j + 1) + 1])
      <4> HIDE DEF OnPath
      <4> QED
        BY <1>7, <2>3, <3>2
    <3> QED
      BY <2>2, <3>3
  <2>6. CASE x > until
    BY <2>3, <2>6
  <2>7. CASE OnPath(x)
    <3>1. PICK i \in 1..Len(p) - 1 : x = p[i]
      BY <2>7
    <3>2. p[i + 1] = y
      BY <1>5, <2>3, <3>1, PathPoint
    <3>3. CASE i + 1 \in 1..Len(p) - 1
      BY <3>2, <3>3
    <3>4. CASE i + 1 \notin 1..Len(p) - 1
      <4>1. i + 1 = Len(p)
        BY <1>3, <3>4
      <4> QED
        BY <3>2, <4>1 DEF IsOver
    <3> QED
      BY <3>3, <3>4
  <2> QED
    <3> HIDE DEF OnPath
    <3> QED
      BY <1>9, <2>2, <2>3, <2>5, <2>6, <2>7
<1>10. \A j \in 0..n : j \in S
  <2> HIDE DEF S
  <2> QED
    BY <1>8, <1>9, Segment
<1>11. PICK h \in 1..Len(P) : o = P[h]
  BY <1>1
<1>12. h - 1 \in 0..n /\ (h - 1) + 1 = h
  BY <1>2
<1>13. h - 1 \in S
  BY <1>10, <1>12
<1>14. Stops(o) \/ o < t \/ o > until \/ OnPath(o)
  <2> HIDE DEF OnPath
  <2> QED
    BY <1>11, <1>12, <1>13
<1> QED
  BY <1>5, <1>14

LEMMA MaxIs ==
    ASSUME NEW S, S \subseteq Nat, NEW m \in S, \A x \in S : x <= m
    PROVE  Max(S) = m
<1>1. \E x \in S : \A y \in S : x >= y
  OBVIOUS
<1>2. Max(S) = CHOOSE x \in S : \A y \in S : x >= y
  BY DEF Max
<1>3. PICK x \in S : x = Max(S) /\ \A y \in S : x >= y
  BY <1>1, <1>2
<1>4. x \in Nat /\ m \in Nat /\ x >= m /\ x <= m
  BY <1>3
<1>5. x = m
  BY <1>4
<1> QED
  BY <1>3, <1>5

\* Run-each runs a missed occurrence unless the cap is exhausted, oldest first:
\* the cadence has no hole below what a tick ran, and a tick that ran fewer
\* than the cap left nothing due behind (claimed_occurrences_at).
THEOREM WalkRunEachLeavesNoHole == Spec => RunEachLeavesNoHole
<1> DEFINE NoHole ==
             Tick /\ sched.policy = "run_each" /\ sched.routine /\ ran' /= ran =>
               LET new == ran' \ ran
                   due == {o \in Cadence : next <= o /\ o <= now}
               IN  /\ \A o \in due : o <= Max(new) => o \in new
                   /\ Cardinality(new) = Min({sched.cap, Cardinality(due)})
<1>1. Walks /\ [Next]_vars => [NoHole]_vars
  <2> DEFINE new == ran' \ ran
             due == {o \in Cadence : next <= o /\ o <= now}
  <2>1. SUFFICES ASSUME Walks, Tick, sched.policy = "run_each", sched.routine, ran' # ran
                 PROVE  /\ \A o \in due : o <= Max(new) => o \in new
                        /\ Cardinality(new) = Min({sched.cap, Cardinality(due)})
    OBVIOUS
  <2>2. PICK p : \E n \in 1..Len(p) - 1 : Ran(p, n)
    BY <2>1, TickStep DEF Finished, Released
  <2>3. PICK n \in 1..Len(p) - 1 : Ran(p, n)
    BY <2>2
  <2>4. n = Min({sched.cap, Len(p) - 1}) /\ ran' = ran \union {p[k] : k \in 1..n}
    BY <2>1, <2>3 DEF Ran
  <2>5. /\ IsPath(sched, next, now, p) /\ IsOver(now, p) /\ n \in Nat /\ n >= 1
        /\ \A k \in 1..Len(p) - 1 : /\ p[k] \in Cadence /\ p[k] \in Nat
                                    /\ next <= p[k] /\ p[k] <= now
        /\ \A k \in 1..n : k \in 1..Len(p) - 1 /\ p[k] <= p[n]
        /\ \A i, j \in 1..Len(p) - 1 : i < j => p[i] < p[j]
    BY <2>1, <2>3, RanPoints
  <2>6. PICK m \in Nat : m = Len(p) - 1
    <3>1. PICK l \in Nat : l = Len(p) /\ l >= 2
      BY <2>5 DEF IsPath
    <3> QED
      BY <3>1
  <2>7. new = {p[k] : k \in 1..n}
    <3>1. \A k \in 1..n : p[k] \notin ran
      <4>1. SUFFICES ASSUME NEW k \in 1..n, p[k] \in ran PROVE FALSE
        OBVIOUS
      <4>2. p[k] > p[k] /\ p[k] \in Nat
        BY <2>1, <2>3, <2>5, <4>1, RanIsLater
      <4> QED
        BY <4>2
    <3> QED
      BY <2>4, <3>1
  <2>8. due = {p[i] : i \in 1..m}
    <3>1. ASSUME NEW o \in due PROVE o \in {p[i] : i \in 1..m}
      <4>1. o \in Cadence /\ next <= o /\ o <= now /\ next \in Cadence /\ next <= now
        BY <2>3, <3>1 DEF Ran
      <4>2. sched \in Schedule /\ created.first \in Nat /\ now \in Nat /\ now <= Horizon
        BY <2>1, CadenceIsClosed DEF Walks, WalkTypes
      <4>3. \E i \in 1..Len(p) - 1 : o = p[i]
        BY <2>5, <4>1, <4>2, CadenceIsOf, DueIsOnThePath
      <4> QED
        BY <2>6, <4>3
    <3>2. \A i \in 1..m : p[i] \in due
      BY <2>5, <2>6
    <3> QED
      BY <3>1, <3>2
  <2>9. Max(new) = p[n]
    <3>1. \A k \in 1..n : p[k] \in Nat /\ p[k] <= p[n]
      BY <2>5
    <3>2. n \in 1..n
      BY <2>5
    <3> HIDE DEF new
    <3>3. p[n] \in new
      BY <2>7, <3>2
    <3>4. new \subseteq Nat /\ \A x \in new : x <= p[n]
      BY <2>7, <3>1
    <3> QED
      BY <3>3, <3>4, MaxIs
  <2>10. ASSUME NEW o \in due, o <= p[n] PROVE o \in new
    <3>1. PICK i \in 1..m : o = p[i]
      BY <2>8
    <3>2. i <= n
      <4>1. SUFFICES ASSUME n < i PROVE FALSE
        BY <2>5, <2>6, <3>1
      <4>2. i \in 1..Len(p) - 1 /\ p[n] < p[i] /\ p[n] \in Nat /\ p[i] \in Nat
        BY <2>3, <2>5, <2>6, <3>1, <4>1
      <4> QED
        BY <2>10, <3>1, <4>2
    <3>3. i \in 1..n
      BY <2>5, <2>6, <3>2
    <3> QED
      BY <2>7, <3>1, <3>3
  <2>11. \A i, j \in 1..m : p[i] = p[j] => i = j
    <3>1. SUFFICES ASSUME NEW i \in 1..m, NEW j \in 1..m, p[i] = p[j], i < j PROVE FALSE
      <4>1. \A i, j \in 1..m : i = j \/ i < j \/ j < i
        BY <2>6
      <4> QED
        BY <4>1
    <3>2. p[i] < p[j] /\ p[i] \in Nat
      BY <2>5, <2>6, <3>1
    <3> QED
      BY <3>1, <3>2
  <2>12. Cardinality(due) = m
    <3>1. Cardinality({p[i] : i \in 1..m}) = m
      BY <2>11, DifferentValues
    <3> HIDE DEF due
    <3> QED
      BY <2>8, <3>1
  <2>13. Cardinality(new) = n
    <3>1. n \in Nat /\ \A i \in 1..n : i \in 1..m
      BY <2>5, <2>6
    <3>2. \A i, j \in 1..n : p[i] = p[j] => i = j
      BY <2>11, <3>1
    <3>3. Cardinality({p[k] : k \in 1..n}) = n
      BY <3>1, <3>2, DifferentValues
    <3> HIDE DEF new
    <3> QED
      BY <2>7, <3>3
  <2> QED
    BY <2>4, <2>6, <2>9, <2>10, <2>12, <2>13
<1> QED
  BY <1>1, WalksHold, PTL DEF Spec, RunEachLeavesNoHole

=============================================================================
