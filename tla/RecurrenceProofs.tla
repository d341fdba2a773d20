--------------------------- MODULE RecurrenceProofs ---------------------------
(***************************************************************************)
(* What the arithmetic of schedules returns, for every schedule that the   *)
(* repository accepts, in every zone and calendar: the successor of an     *)
(* occurrence is later than it, a routine's occurrence is the first        *)
(* instant of its local time, Successors is a path of successors that      *)
(* leaves out nothing, and the division of first_run_after_now lands where *)
(* the loop would.                                                         *)
(***************************************************************************)
EXTENDS Recurrence, FiniteSetTheorems, SequenceTheorems, TLAPS

-----------------------------------------------------------------------------
(* Arithmetic                                                              *)

\* Induction over an initial segment of the numbers, for a set.
LEMMA Segment ==
    ASSUME NEW n \in Nat, NEW S, 0 \in S, \A k \in 0..n : k \in S /\ k < n => k + 1 \in S
    PROVE  \A k \in 0..n : k \in S
<1> DEFINE upto(k) == 0..k
           Bad == {k \in 0..n : k \notin S}
           T == {x \in SUBSET (0..n) : \E k \in Bad : x = upto(k)}
<1>1. SUFFICES ASSUME Bad # {} PROVE FALSE
  OBVIOUS
<1>2. IsFiniteSet(0..n)
  BY FS_Interval
<1>3. T \subseteq FiniteSubsetsOf(0..n) /\ T # {}
  <2>1. T \subseteq SUBSET (0..n)
    OBVIOUS
  <2>2. FiniteSubsetsOf(0..n) = SUBSET (0..n)
    BY <1>2, FS_FiniteSubsetsOfFinite
  <2>3. T # {}
    <3>1. PICK b \in Bad : b \in 0..n
      BY <1>1
    <3>2. upto(b) \in SUBSET (0..n)
      BY <3>1
    <3>3. upto(b) \in T
      BY <3>1, <3>2
    <3> QED
      BY <3>3
  <2> QED
    BY <2>1, <2>2, <2>3
<1>4. PICK x \in T : \A y \in T : ~(<<y, x>> \in StrictSubsetOrdering(0..n))
  <2> HIDE DEF T
  <2> QED
    BY <1>3, FS_StrictSubsetOrderingWellFounded, WFMin
<1>5. \A y \in T : ~(y \subseteq x /\ y # x)
  BY <1>4 DEF StrictSubsetOrdering
<1>6. PICK i \in Bad : x = upto(i)
  OBVIOUS
<1>7. i \in 0..n /\ i # 0 /\ i \notin S
  OBVIOUS
<1>8. i - 1 \in 0..n /\ i - 1 < n /\ (i - 1) + 1 = i
  BY <1>7
<1>9. i - 1 \in Bad
  BY <1>7, <1>8
<1>10. upto(i - 1) \in T /\ upto(i - 1) \subseteq upto(i) /\ i \in upto(i) /\ i \notin upto(i - 1)
  BY <1>7, <1>9
<1> QED
  BY <1>5, <1>6, <1>10

\* Multiples and remainders.
LEMMA Division ==
    ASSUME NEW x \in Nat, NEW n \in Nat \ {0}
    PROVE  /\ x \div n \in Nat /\ (x \div n) * n <= x /\ x < (x \div n) * n + n
           /\ x % n = x - (x \div n) * n
BY Z3

LEMMA MultipleHasNoRest ==
    ASSUME NEW n \in Nat \ {0}, NEW m \in Nat
    PROVE  (m * n) % n = 0
<1>1. m * n \in Nat
  OBVIOUS
<1>2. PICK q \in Nat : q = (m * n) \div n
  BY <1>1, Division
<1>3. q * n <= m * n /\ m * n < q * n + n /\ (m * n) % n = m * n - q * n
  BY <1>1, <1>2, Division
<1>4. CASE q = m
  BY <1>3, <1>4
<1>5. CASE q + 1 <= m
  <2>1. (q + 1) * n <= m * n
    BY <1>5
  <2>2. (q + 1) * n = q * n + n
    OBVIOUS
  <2> QED
    BY <1>3, <2>1, <2>2
<1>6. CASE m + 1 <= q
  <2>1. (m + 1) * n <= q * n
    BY <1>6
  <2>2. (m + 1) * n = m * n + n
    OBVIOUS
  <2> QED
    BY <1>3, <2>1, <2>2
<1> QED
  BY <1>4, <1>5, <1>6

\* The smaller of two numbers.
LEMMA MinOfTwo ==
    ASSUME NEW a \in Nat, NEW b \in Nat
    PROVE  Min({a, b}) \in {a, b} /\ Min({a, b}) <= a /\ Min({a, b}) <= b
<1>1. \E x \in {a, b} : \A y \in {a, b} : x <= y
  OBVIOUS
<1>2. Min({a, b}) \in {a, b} /\ \A y \in {a, b} : Min({a, b}) <= y
  BY <1>1 DEF Min
<1> QED
  BY <1>2

\* A set of numbers has a least one, and Min is it.
LEMMA MinIsLeast ==
    ASSUME NEW S, S \subseteq Nat, S # {}
    PROVE  Min(S) \in S /\ \A y \in S : Min(S) <= y
<1>1. \E x \in S : \A y \in S : x <= y
  <2>1. PICK n \in S : TRUE
    OBVIOUS
  <2>2. n \in Nat
    BY <2>1
  <2>3. SUFFICES ASSUME \A x \in S : \E y \in S : ~(x <= y) PROVE FALSE
    OBVIOUS
  <2> DEFINE Below == {k \in 0..n : \A y \in S : k < y}
  <2>4. 0 \in Below
    BY <2>2, <2>3
  <2>5. ASSUME NEW k \in 0..n, k \in Below, k < n
        PROVE  k + 1 \in Below
    <3>1. \A y \in S : k + 1 <= y
      BY <2>5
    <3>2. k + 1 \notin S
      BY <2>3, <3>1
    <3> QED
      BY <2>2, <2>5, <3>1, <3>2
  <2>6. \A k \in 0..n : k \in Below
    <3> HIDE DEF Below
    <3> QED
      BY <2>2, <2>4, <2>5, Segment
  <2> QED
    BY <2>1, <2>2, <2>6
<1> QED
  BY <1>1 DEF Min

-----------------------------------------------------------------------------
(* Zones                                                                   *)

LEMMA ZoneTypes ==
    ASSUME NEW z \in Zone
    PROVE  z.before \in Nat /\ z.after \in Nat /\ z.before - z.after < DaySlots
BY DEF Zone

LEMMA LocalType ==
    ASSUME NEW z \in Zone, NEW t \in Nat
    PROVE  LocalAt(z, t) \in Nat
BY ZoneTypes, CalendarAssumption DEF LocalAt

LEMMA InstantsOfLocal ==
    ASSUME NEW z, NEW local
    PROVE  FromLocal(z, local) \subseteq Nat /\ \A t \in FromLocal(z, local) : LocalAt(z, t) = local
BY DEF FromLocal

LEMMA InstantOfItsLocal ==
    ASSUME NEW z \in Zone, NEW t \in Nat
    PROVE  t \in FromLocal(z, LocalAt(z, t))
BY ZoneTypes, CalendarAssumption DEF LocalAt, FromLocal

\* t is the first instant of its local time.
IsFirst(z, t) == t = Min(FromLocal(z, LocalAt(z, t)))

LEMMA FirstInstant ==
    ASSUME NEW z, NEW local, FromLocal(z, local) # {}, NEW t, t = Min(FromLocal(z, local))
    PROVE  t \in Nat /\ LocalAt(z, t) = local /\ IsFirst(z, t)
<1>1. t \in FromLocal(z, local)
  BY InstantsOfLocal, MinIsLeast
<1>2. t \in Nat /\ LocalAt(z, t) = local
  BY <1>1, InstantsOfLocal
<1> QED
  BY <1>2 DEF IsFirst

\* Two first instants of one local time are one.
LEMMA FirstIsUnique ==
    ASSUME NEW z, NEW t, NEW u, IsFirst(z, t), IsFirst(z, u), LocalAt(z, t) = LocalAt(z, u)
    PROVE  t = u
BY DEF IsFirst

-----------------------------------------------------------------------------
(* The candidate after an instant, kind by kind                            *)

\* No candidate, or a later one.
IsLater(after, r) == r = Err \/ (r \in Nat /\ r > after)

LEMMA FirstSingle ==
    ASSUME NEW z, NEW local, NEW low \in Nat, NEW high \in Nat, NEW after,
           NEW r, r = FirstSingleAfter(z, local, low, high, after), r # None
    PROVE  r \in Nat /\ r > after /\ IsFirst(z, r)
<1> DEFINE hits == {n \in low..high :
                      /\ Single(FromLocal(z, local + n))
                      /\ Min(FromLocal(z, local + n)) > after}
<1>1. hits # {} /\ r = Min(FromLocal(z, local + Min(hits)))
  BY DEF FirstSingleAfter
<1>2. hits \subseteq Nat
  OBVIOUS
<1>3. PICK n \in hits : n = Min(hits)
  <2> HIDE DEF hits
  <2> QED
    BY <1>1, <1>2, MinIsLeast
<1>4. Single(FromLocal(z, local + n)) /\ r = Min(FromLocal(z, local + n)) /\ r > after
  BY <1>1, <1>3
<1>5. FromLocal(z, local + n) # {}
  BY <1>4 DEF Single
<1> QED
  BY <1>4, <1>5, FirstInstant

LEMMA ResolvedDaily ==
    ASSUME NEW z, NEW local, NEW after,
           NEW r, r = ResolveDailyTimezoneCandidate(z, local, after), r # None
    PROVE  r \in Nat /\ r > after /\ IsFirst(z, r)
<1>1. CASE FromLocal(z, local) = {}
  <2>1. r = FirstSingleAfter(z, local, 1, Reach, after)
    BY <1>1 DEF ResolveDailyTimezoneCandidate
  <2> QED
    BY <2>1, CalendarAssumption, FirstSingle
<1>2. CASE FromLocal(z, local) # {}
  <2>1. r = Min(FromLocal(z, local)) /\ r > after
    BY <1>2 DEF ResolveDailyTimezoneCandidate
  <2> QED
    BY <1>2, <2>1, FirstInstant
<1> QED
  BY <1>1, <1>2

LEMMA FirstDayIs ==
    ASSUME NEW candidate, DOMAIN candidate \subseteq Nat
    PROVE  \/ FirstDay(candidate) = Err
           \/ \E d \in DOMAIN candidate :
                 candidate[d] # None /\ FirstDay(candidate) = candidate[d]
<1> DEFINE hits == {d \in DOMAIN candidate : candidate[d] # None}
<1>1. FirstDay(candidate) = IF hits = {} THEN Err ELSE candidate[Min(hits)]
  BY DEF FirstDay
<1>2. CASE hits = {}
  BY <1>1, <1>2
<1>3. CASE hits # {}
  <2>1. hits \subseteq Nat
    OBVIOUS
  <2>2. Min(hits) \in hits
    <3> HIDE DEF hits
    <3> QED
      BY <1>3, <2>1, MinIsLeast
  <2> QED
    BY <1>1, <1>3, <2>2
<1> QED
  BY <1>2, <1>3

LEMMA DailyOfRoutine ==
    ASSUME NEW z, NEW at, NEW after, NEW r, r = NextDailyRunAfterInTimezone(z, at, after)
    PROVE  IsLater(after, r) /\ (r # Err => IsFirst(z, r))
<1>1. PICK c : c = [d \in 0..2 |->
                      ResolveDailyTimezoneCandidate(z, DailyLocal(z, at, after, d), after)]
  OBVIOUS
<1>2. DOMAIN c \subseteq Nat /\ r = FirstDay(c)
  BY <1>1 DEF NextDailyRunAfterInTimezone
<1>3. CASE r = Err
  BY <1>3 DEF IsLater
<1>4. CASE r # Err
  <2>1. PICK d \in DOMAIN c : c[d] # None /\ r = c[d]
    BY <1>2, <1>4, FirstDayIs
  <2>2. r = ResolveDailyTimezoneCandidate(z, DailyLocal(z, at, after, d), after)
    BY <1>1, <2>1
  <2> QED
    BY <2>1, <2>2, ResolvedDaily DEF IsLater
<1> QED
  BY <1>3, <1>4

LEMMA DailyOfDevice ==
    ASSUME NEW z, NEW at, NEW after, NEW r, r = NextDailyRunAfter(z, at, after)
    PROVE  IsLater(after, r)
<1> DEFINE instants(d) == FromLocal(z, DailyLocal(z, at, after, d))
<1>1. PICK c : c = [d \in 0..3 |->
                      IF instants(d) # {} /\ Min(instants(d)) > after THEN Min(instants(d)) ELSE None]
  OBVIOUS
<1>2. DOMAIN c \subseteq Nat /\ r = FirstDay(c)
  BY <1>1 DEF NextDailyRunAfter
<1>3. CASE r = Err
  BY <1>3 DEF IsLater
<1>4. CASE r # Err
  <2>1. PICK d \in 0..3 : c[d] # None /\ r = c[d]
    BY <1>1, <1>2, <1>4, FirstDayIs
  <2>2. instants(d) # {} /\ r = Min(instants(d)) /\ r > after
    BY <1>1, <2>1
  <2>3. r \in Nat
    BY <2>2, FirstInstant
  <2> QED
    BY <2>2, <2>3 DEF IsLater
<1> QED
  BY <1>3, <1>4

LEMMA FirstOfIs ==
    ASSUME NEW S, S \subseteq Nat
    PROVE  FirstOf(S) = Err \/ FirstOf(S) \in S
BY MinIsLeast DEF FirstOf

LEMMA CronOfRoutine ==
    ASSUME NEW expr, NEW z \in Zone, NEW after \in Nat,
           NEW r, r = NextCronRunAfterInTimezone(expr, z, after)
    PROVE  IsLater(after, r) /\ (r # Err => IsFirst(z, r))
<1> DEFINE S == {t \in after + 1 .. after + CronReach :
                   CronMatches(expr, LocalAt(z, t)) /\ IsFirstTimezoneOccurrence(z, t)}
<1>1. S \subseteq Nat /\ \A t \in S : t > after
  BY CalendarAssumption
<1>2. r = FirstOf(S)
  BY DEF NextCronRunAfterInTimezone
<1>3. r = Err \/ r \in S
  <2> HIDE DEF S
  <2> QED
    BY <1>1, <1>2, FirstOfIs
<1>4. CASE r = Err
  BY <1>4 DEF IsLater
<1>5. CASE r \in S
  <2>1. r \in Nat /\ r > after /\ IsFirstTimezoneOccurrence(z, r)
    BY <1>1, <1>5
  <2>2. r \in FromLocal(z, LocalAt(z, r))
    BY <2>1, InstantOfItsLocal
  <2>3. r = Min(FromLocal(z, LocalAt(z, r)))
    <3>1. CASE Single(FromLocal(z, LocalAt(z, r)))
      <4>1. \A y \in FromLocal(z, LocalAt(z, r)) : y = r
        BY <3>1, <2>2 DEF Single
      <4>2. Min(FromLocal(z, LocalAt(z, r))) \in FromLocal(z, LocalAt(z, r))
        BY <2>2, InstantsOfLocal, MinIsLeast
      <4> QED
        BY <4>1, <4>2
    <3>2. CASE ~Single(FromLocal(z, LocalAt(z, r)))
      BY <3>2, <2>1 DEF IsFirstTimezoneOccurrence
    <3> QED
      BY <3>1, <3>2
  <2> QED
    BY <2>1, <2>3 DEF IsLater, IsFirst
<1> QED
  BY <1>3, <1>4, <1>5

LEMMA CronOfDevice ==
    ASSUME NEW expr, NEW z, NEW after \in Nat, NEW r, r = NextCronRunAfter(expr, z, after)
    PROVE  IsLater(after, r)
<1> DEFINE S == {t \in after + 1 .. after + CronReach : CronMatches(expr, LocalAt(z, t))}
<1>1. S \subseteq Nat /\ \A t \in S : t > after
  BY CalendarAssumption
<1>2. r = FirstOf(S)
  BY DEF NextCronRunAfter
<1>3. r = Err \/ r \in S
  <2> HIDE DEF S
  <2> QED
    BY <1>1, <1>2, FirstOfIs
<1> QED
  BY <1>1, <1>3 DEF IsLater

LEMMA ResolvedLocal ==
    ASSUME NEW z, NEW local, NEW after, NEW r,
           r = ResolveTimezoneLocalAfter(z, local, after), r # Err
    PROVE  \E n \in 0..Reach : r = Min({t \in FromLocal(z, local + n) : t > after})
                               /\ {t \in FromLocal(z, local + n) : t > after} # {}
<1> DEFINE later(n) == {t \in FromLocal(z, local + n) : t > after}
           hits == {n \in 0..Reach : later(n) # {}}
<1>1. r = IF hits = {} THEN Err ELSE Min(later(Min(hits)))
  BY DEF ResolveTimezoneLocalAfter
<1>2. hits # {} /\ hits \subseteq Nat /\ r = Min(later(Min(hits)))
  BY <1>1
<1>3. Min(hits) \in hits
  <2> HIDE DEF hits
  <2> QED
    BY <1>2, MinIsLeast
<1> QED
  BY <1>2, <1>3

LEMMA CalendarIsLater ==
    ASSUME NEW expr, NEW z, NEW after, NEW r, r = NextCalendarIntervalRunAfter(expr, z, after)
    PROVE  IsLater(after, r)
<1>1. CASE r = Err
  BY <1>1 DEF IsLater
<1>2. CASE r # Err
  <2> DEFINE local == ShiftedCalendarLocal(LocalAt(z, after), expr)
             later(n) == {t \in FromLocal(z, local + n) : t > after}
  <2>1. PICK n \in 0..Reach : r = Min(later(n)) /\ later(n) # {}
    BY <1>2, ResolvedLocal DEF NextCalendarIntervalRunAfter
  <2>2. later(n) \subseteq Nat
    BY InstantsOfLocal
  <2>3. r \in later(n)
    <3> HIDE DEF later
    <3> QED
      BY <2>1, <2>2, MinIsLeast
  <2> QED
    BY <2>2, <2>3 DEF IsLater
<1> QED
  BY <1>1, <1>2

-----------------------------------------------------------------------------
(* The calendar                                                            *)

LEMMA MonthLengthType ==
    ASSUME NEW m \in Nat
    PROVE  MonthLength(m) \in Nat \ {0}
<1>1. MonthDays \in Seq(Nat \ {0}) /\ Len(MonthDays) \in Nat \ {0}
  BY CalendarAssumption
<1>2. PICK n \in Nat \ {0} : n = Len(MonthDays)
  BY <1>1
<1>3. m % n \in 0..n - 1
  BY <1>2
<1>4. (m % n) + 1 \in 1..n
  BY <1>2, <1>3
<1> QED
  BY <1>1, <1>2, <1>4 DEF MonthLength

\* MonthStart, as far as n.
IsCalendar(n, f) ==
    f = [m \in 0..n |-> IF m = 0 THEN 0 ELSE f[m - 1] + MonthLength(m - 1)]

LEMMA CalendarExists ==
    ASSUME NEW N \in Nat
    PROVE  \E f : IsCalendar(N, f)
<1> DEFINE S == {n \in 0..N : \E f : IsCalendar(n, f)}
<1>1. 0 \in S
  <2>1. PICK f : f = [m \in 0..0 |-> 0]
    OBVIOUS
  <2>2. f = [m \in 0..0 |-> IF m = 0 THEN 0 ELSE f[m - 1] + MonthLength(m - 1)]
    BY <2>1
  <2> QED
    BY <2>2 DEF IsCalendar
<1>2. ASSUME NEW n \in 0..N, n \in S, n < N
      PROVE  n + 1 \in S
  <2>1. PICK f : IsCalendar(n, f)
    BY <1>2
  <2>2. PICK g : g = [m \in 0..n + 1 |-> IF m = n + 1 THEN f[n] + MonthLength(n) ELSE f[m]]
    OBVIOUS
  <2>3. \A m \in 0..n : f[m] = IF m = 0 THEN 0 ELSE f[m - 1] + MonthLength(m - 1)
    BY <2>1 DEF IsCalendar
  <2>4. \A m \in 0..n : g[m] = f[m]
    BY <2>2
  <2>5. g[n + 1] = g[n] + MonthLength(n) /\ (n + 1) - 1 = n
    BY <2>2, <2>4
  <2>6. ASSUME NEW m \in 0..n + 1
        PROVE  g[m] = IF m = 0 THEN 0 ELSE g[m - 1] + MonthLength(m - 1)
    <3>1. CASE m = n + 1
      BY <3>1, <2>5
    <3>2. CASE m \in 0..n /\ m = 0
      BY <3>2, <2>3, <2>4
    <3>3. CASE m \in 0..n /\ m # 0
      <4>1. m - 1 \in 0..n
        BY <3>3
      <4> QED
        BY <3>3, <4>1, <2>3, <2>4
    <3> QED
      BY <3>1, <3>2, <3>3
  <2>7. g = [m \in 0..n + 1 |-> IF m = 0 THEN 0 ELSE g[m - 1] + MonthLength(m - 1)]
    BY <2>2, <2>6
  <2>8. n + 1 \in 0..N
    BY <1>2
  <2> QED
    BY <2>7, <2>8 DEF IsCalendar
<1>3. N \in S
  <2> HIDE DEF S
  <2> QED
    BY <1>1, <1>2, Segment
<1> QED
  BY <1>3

LEMMA CalendarsAgree ==
    ASSUME NEW n \in Nat, NEW f, NEW g, IsCalendar(n, f), IsCalendar(n + 1, g)
    PROVE  f[n] = g[n]
<1> DEFINE S == {m \in 0..n : f[m] = g[m]}
<1>1. \A m \in 0..n : f[m] = IF m = 0 THEN 0 ELSE f[m - 1] + MonthLength(m - 1)
  BY DEF IsCalendar
<1>2. \A m \in 0..n : g[m] = IF m = 0 THEN 0 ELSE g[m - 1] + MonthLength(m - 1)
  BY DEF IsCalendar
<1>3. 0 \in S
  BY <1>1, <1>2
<1>4. ASSUME NEW m \in 0..n, m \in S, m < n
      PROVE  m + 1 \in S
  <2>1. m + 1 \in 0..n /\ m + 1 # 0 /\ (m + 1) - 1 = m
    BY <1>4
  <2>2. f[m + 1] = f[m] + MonthLength(m) /\ g[m + 1] = g[m] + MonthLength(m)
    BY <1>1, <1>2, <2>1
  <2> QED
    BY <1>4, <2>1, <2>2
<1>5. n \in S
  <2> HIDE DEF S
  <2> QED
    BY <1>3, <1>4, Segment
<1> QED
  BY <1>5

LEMMA MonthStartIs ==
    MonthStart[0] = 0 /\ \A m \in Nat : MonthStart[m + 1] = MonthStart[m] + MonthLength(m)
<1> DEFINE Body(f) == [m \in Nat |-> IF m = 0 THEN 0 ELSE f[m - 1] + MonthLength(m - 1)]
           Upto(n) == CHOOSE f : IsCalendar(n, f)
<1>1. \A n \in Nat : IsCalendar(n, Upto(n))
  BY CalendarExists
<1>2. PICK F : F = [m \in Nat |-> Upto(m)[m]]
  OBVIOUS
<1>3. ASSUME NEW m \in Nat
      PROVE  F[m] = IF m = 0 THEN 0 ELSE F[m - 1] + MonthLength(m - 1)
  <2> HIDE DEF Upto
  <2>1. m \in 0..m
    OBVIOUS
  <2>2. Upto(m)[m] = IF m = 0 THEN 0 ELSE Upto(m)[m - 1] + MonthLength(m - 1)
    BY <1>1, <2>1 DEF IsCalendar
  <2>3. CASE m = 0
    BY <1>2, <2>2, <2>3
  <2>4. CASE m # 0
    <3>1. m - 1 \in Nat /\ (m - 1) + 1 = m
      BY <2>4
    <3>2. Upto(m - 1)[m - 1] = Upto(m)[m - 1]
      BY <1>1, <3>1, CalendarsAgree
    <3> QED
      BY <1>2, <2>2, <2>4, <3>1, <3>2
  <2> QED
    BY <2>3, <2>4
<1>4. F = Body(F)
  BY <1>2, <1>3
<1>5. MonthStart = Body(MonthStart)
  <2>1. MonthStart = CHOOSE f : f = Body(f)
    BY DEF MonthStart
  <2> HIDE DEF Body
  <2> QED
    BY <1>4, <2>1
<1>6. \A m \in Nat : MonthStart[m] = IF m = 0 THEN 0 ELSE MonthStart[m - 1] + MonthLength(m - 1)
  BY <1>5
<1>7. ASSUME NEW m \in Nat PROVE MonthStart[m + 1] = MonthStart[m] + MonthLength(m)
  <2>1. m + 1 \in Nat /\ m + 1 # 0 /\ (m + 1) - 1 = m
    OBVIOUS
  <2> QED
    BY <1>6, <2>1
<1> QED
  BY <1>6, <1>7

\* A month starts no earlier than the months before it are many.
LEMMA MonthStartGrows ==
    ASSUME NEW n \in Nat
    PROVE  MonthStart[n] \in Nat /\ MonthStart[n] >= n
<1> DEFINE S == {m \in 0..n : MonthStart[m] \in Nat /\ MonthStart[m] >= m}
<1>1. 0 \in S
  BY MonthStartIs
<1>2. ASSUME NEW m \in 0..n, m \in S, m < n
      PROVE  m + 1 \in S
  BY <1>2, MonthStartIs, MonthLengthType
<1>3. n \in S
  <2> HIDE DEF S
  <2> QED
    BY <1>1, <1>2, Segment
<1> QED
  BY <1>3

LEMMA LaterMonthsStartLater ==
    ASSUME NEW m \in Nat, NEW k \in Nat
    PROVE  MonthStart[m + k] >= MonthStart[m]
<1> DEFINE S == {i \in 0..k : MonthStart[m + i] >= MonthStart[m]}
<1>1. 0 \in S
  BY MonthStartGrows
<1>2. ASSUME NEW i \in 0..k, i \in S, i < k
      PROVE  i + 1 \in S
  <2>1. m + i \in Nat /\ m + (i + 1) = (m + i) + 1 /\ m + (i + 1) \in Nat
    OBVIOUS
  <2>2. MonthStart[m + (i + 1)] = MonthStart[m + i] + MonthLength(m + i)
    BY <2>1, MonthStartIs
  <2> QED
    BY <1>2, <2>1, <2>2, MonthLengthType, MonthStartGrows
<1>3. k \in S
  <2> HIDE DEF S
  <2> QED
    BY <1>1, <1>2, Segment
<1> QED
  BY <1>3

\* Every day is a day of one month.
LEMMA MonthOfDay ==
    ASSUME NEW day \in Nat
    PROVE  /\ MonthOf(day) \in Nat
           /\ MonthStart[MonthOf(day)] <= day /\ day < MonthStart[MonthOf(day) + 1]
<1>1. \E m \in 0..day : MonthStart[m] <= day /\ day < MonthStart[m + 1]
  <2>1. SUFFICES ASSUME \A m \in 0..day : ~(MonthStart[m] <= day /\ day < MonthStart[m + 1])
                 PROVE  FALSE
    OBVIOUS
  <2> DEFINE S == {m \in 0..day + 1 : MonthStart[m] <= day}
  <2>2. 0 \in S
    BY MonthStartIs
  <2>3. ASSUME NEW m \in 0..day + 1, m \in S, m < day + 1
        PROVE  m + 1 \in S
    <3>1. m \in 0..day /\ m + 1 \in 0..day + 1 /\ m + 1 \in Nat
      BY <2>3
    <3>2. ~(day < MonthStart[m + 1]) /\ MonthStart[m + 1] \in Nat
      BY <2>1, <2>3, <3>1, MonthStartGrows
    <3> QED
      BY <3>1, <3>2
  <2>4. \A m \in 0..day + 1 : m \in S
    <3>1. day + 1 \in Nat
      OBVIOUS
    <3> HIDE DEF S
    <3> QED
      BY <2>2, <2>3, <3>1, Segment
  <2>5. MonthStart[day + 1] <= day /\ MonthStart[day + 1] \in Nat /\ MonthStart[day + 1] >= day + 1
    BY <2>4, MonthStartGrows
  <2> QED
    BY <2>5
<1>2. MonthOf(day) \in 0..day /\ MonthStart[MonthOf(day)] <= day /\ day < MonthStart[MonthOf(day) + 1]
  BY <1>1 DEF MonthOf
<1> QED
  BY <1>2

\* A calendar interval moves a local time by a day at least.
LEMMA MonthsMoveADay ==
    ASSUME NEW local \in Nat, NEW months \in Nat \ {0}
    PROVE  AddMonthsClamped(local, months) \in Nat /\ AddMonthsClamped(local, months) >= local + DaySlots
<1>1. PICK D \in Nat \ {0} : D = DaySlots
  BY CalendarAssumption
<1>2. PICK day \in Nat : day = local \div D /\ local % D = local - day * D /\ day * D <= local
  BY <1>1, Division
<1>3. PICK month \in Nat : /\ month = MonthOf(day)
                           /\ MonthStart[month] <= day /\ day < MonthStart[month + 1]
  BY <1>2, MonthOfDay
<1>4. PICK target \in Nat : target = month + months
  BY <1>3
<1>5. MonthStart[target] \in Nat /\ MonthStart[target] >= day + 1
  <2>1. months - 1 \in Nat /\ target = (month + 1) + (months - 1) /\ month + 1 \in Nat
    BY <1>4
  <2>2. MonthStart[target] >= MonthStart[month + 1]
    BY <2>1, LaterMonthsStartLater
  <2>3. MonthStart[target] \in Nat /\ MonthStart[month + 1] \in Nat
    BY <1>4, <2>1, MonthStartGrows
  <2> QED
    BY <1>3, <2>2, <2>3
<1>6. PICK d \in Nat : d = Min({day - MonthStart[month], MonthLength(target) - 1})
  <2>1. day - MonthStart[month] \in Nat
    BY <1>3, MonthStartGrows
  <2>2. MonthLength(target) - 1 \in Nat
    BY <1>4, MonthLengthType
  <2> QED
    BY <2>1, <2>2, MinOfTwo
<1>7. AddMonthsClamped(local, months) = (MonthStart[target] + d) * D + (local % D)
  BY <1>1, <1>2, <1>3, <1>4, <1>6 DEF AddMonthsClamped
<1>8. PICK x \in Nat : x = MonthStart[target] + d /\ x >= day + 1
  BY <1>5
<1>9. x * D >= (day + 1) * D /\ (day + 1) * D = day * D + D /\ x * D \in Nat /\ day * D \in Nat
  BY <1>1, <1>2, <1>8
<1>10. AddMonthsClamped(local, months) = x * D + (local - day * D)
  BY <1>2, <1>7, <1>8
<1> QED
  BY <1>1, <1>2, <1>9, <1>10

LEMMA ShiftMovesADay ==
    ASSUME NEW local \in Nat, NEW expr, expr.kind \in {"days", "months"}, expr.amount \in Nat \ {0}
    PROVE  ShiftedCalendarLocal(local, expr) \in Nat /\ ShiftedCalendarLocal(local, expr) >= local + DaySlots
<1>1. CASE expr.kind = "months"
  BY <1>1, MonthsMoveADay DEF ShiftedCalendarLocal
<1>2. CASE expr.kind = "days"
  <2>1. PICK D \in Nat \ {0} : D = DaySlots
    BY CalendarAssumption
  <2>2. PICK a \in Nat \ {0} : a = expr.amount
    OBVIOUS
  <2>3. a * D \in Nat /\ a * D >= D
    BY <2>1, <2>2
  <2> QED
    BY <1>2, <2>1, <2>2, <2>3 DEF ShiftedCalendarLocal
<1> QED
  BY <1>1, <1>2

\* So that no instant of the shifted local time is behind: the candidate is the
\* first of them.
LEMMA CalendarIsFirst ==
    ASSUME NEW expr, expr.kind \in {"days", "months"}, expr.amount \in Nat \ {0},
           NEW z \in Zone, NEW after \in Nat,
           NEW r, r = NextCalendarIntervalRunAfter(expr, z, after), r # Err
    PROVE  IsFirst(z, r)
<1>1. PICK local \in Nat : /\ local = ShiftedCalendarLocal(LocalAt(z, after), expr)
                           /\ local >= LocalAt(z, after) + DaySlots
  BY LocalType, ShiftMovesADay
<1> DEFINE later(n) == {t \in FromLocal(z, local + n) : t > after}
<1>2. PICK n \in 0..Reach : r = Min(later(n)) /\ later(n) # {}
  <2>1. r = ResolveTimezoneLocalAfter(z, local, after)
    BY <1>1 DEF NextCalendarIntervalRunAfter
  <2> QED
    BY <2>1, ResolvedLocal
<1>3. ASSUME NEW t \in FromLocal(z, local + n) PROVE t > after
  <2>1. t \in Nat /\ LocalAt(z, t) = local + n
    BY <1>3, InstantsOfLocal
  <2>2. n \in Nat
    BY CalendarAssumption
  <2>3. PICK b \in Nat, c \in Nat : b = z.before /\ c = z.after /\ b - c < DaySlots
    BY ZoneTypes
  <2>4. PICK D \in Nat, ch \in Nat : D = DaySlots /\ ch = Change /\ D > 0
    BY CalendarAssumption
  <2>5. LocalAt(z, t) = t + IF t < ch THEN b ELSE c
    BY <2>3, <2>4 DEF LocalAt
  <2>6. LocalAt(z, after) = after + IF after < ch THEN b ELSE c
    BY <2>3, <2>4 DEF LocalAt
  <2>7. (t + IF t < ch THEN b ELSE c) >= (after + IF after < ch THEN b ELSE c) + D
    BY <1>1, <2>1, <2>2, <2>3, <2>4, <2>5, <2>6
  <2> QED
    BY <2>1, <2>3, <2>4, <2>7
<1>4. later(n) = FromLocal(z, local + n)
  BY <1>3
<1> QED
  BY <1>2, <1>4, FirstInstant

-----------------------------------------------------------------------------
(* The successor of an occurrence                                          *)

LEMMA ExpressionTypes ==
    ASSUME NEW e \in Expression
    PROVE  /\ e.kind \in {"interval", "days", "months", "daily", "cron", "once"}
           /\ e.kind \in {"interval", "days", "months"} => e.amount \in Nat \ {0}
           /\ e.kind = "once" => e.at \in Nat
BY DEF Expression

LEMMA ScheduleTypes ==
    ASSUME NEW s \in Schedule
    PROVE  /\ s.routine \in BOOLEAN /\ s.oneShot \in BOOLEAN /\ s.expr \in Expression
           /\ s.zone \in Zone /\ s.cap \in Nat \ {0} /\ s.end \in Nat \union {None}
BY DEF Schedule

LEMMA CandidateIsLater ==
    ASSUME NEW s \in Schedule, NEW after \in Nat
    PROVE  IsLater(after, ScheduleCandidateAfter(s, after))
<1> DEFINE r == ScheduleCandidateAfter(s, after)
           kind == s.expr.kind
<1>1. s.expr \in Expression /\ s.zone \in Zone
  BY ScheduleTypes
<1>2. kind \in {"interval", "days", "months", "daily", "cron", "once"}
  BY <1>1, ExpressionTypes
<1>3. CASE kind = "interval"
  <2>1. PICK a \in Nat \ {0} : a = s.expr.amount
    BY <1>1, <1>3, ExpressionTypes
  <2>2. r = after + a
    BY <1>3, <2>1 DEF ScheduleCandidateAfter, NextRunAfterInTimezone, NextRunAfter
  <2> QED
    BY <2>1, <2>2 DEF IsLater
<1>4. CASE kind \in {"days", "months"}
  <2>1. r = NextCalendarIntervalRunAfter(s.expr, s.zone, after)
    BY <1>4 DEF ScheduleCandidateAfter, NextRunAfterInTimezone, NextRunAfter
  <2> QED
    BY <2>1, CalendarIsLater
<1>5. CASE kind = "daily"
  <2>1. r = IF s.routine THEN NextDailyRunAfterInTimezone(s.zone, s.expr.at, after)
                         ELSE NextDailyRunAfter(s.zone, s.expr.at, after)
    BY <1>5 DEF ScheduleCandidateAfter, NextRunAfterInTimezone, NextRunAfter
  <2> QED
    BY <2>1, DailyOfRoutine, DailyOfDevice
<1>6. CASE kind = "cron"
  <2>1. r = IF s.routine THEN NextCronRunAfterInTimezone(s.expr, s.zone, after)
                         ELSE NextCronRunAfter(s.expr, s.zone, after)
    BY <1>6 DEF ScheduleCandidateAfter, NextRunAfterInTimezone, NextRunAfter
  <2> QED
    BY <1>1, <2>1, CronOfRoutine, CronOfDevice
<1>7. CASE kind = "once"
  <2>1. s.expr.at \in Nat
    BY <1>1, <1>7, ExpressionTypes
  <2>2. r = Err \/ (r = s.expr.at /\ r > after)
    BY <1>7 DEF ScheduleCandidateAfter, NextRunAfterInTimezone, NextRunAfter
  <2> QED
    BY <2>1, <2>2 DEF IsLater
<1> QED
  BY <1>2, <1>3, <1>4, <1>5, <1>6, <1>7

\* A routine's occurrence is the first instant of its local time, unless the
\* expression fixes instants and no local times.
LEMMA CandidateIsFirst ==
    ASSUME NEW s \in Schedule, s.routine, s.expr.kind # "interval", NEW after \in Nat,
           NEW r, r = ScheduleCandidateAfter(s, after), r # Err
    PROVE  IF s.expr.kind = "once" THEN r = s.expr.at ELSE IsFirst(s.zone, r)
<1> DEFINE kind == s.expr.kind
<1>1. s.expr \in Expression /\ s.zone \in Zone
  BY ScheduleTypes
<1>2. kind \in {"days", "months", "daily", "cron", "once"}
  BY <1>1, ExpressionTypes
<1>3. r = NextRunAfterInTimezone(s.expr, s.zone, after)
  BY DEF ScheduleCandidateAfter
<1>4. CASE kind \in {"days", "months"}
  <2>1. r = NextCalendarIntervalRunAfter(s.expr, s.zone, after)
    BY <1>3, <1>4 DEF NextRunAfterInTimezone
  <2>2. s.expr.amount \in Nat \ {0}
    BY <1>1, <1>4, ExpressionTypes
  <2> QED
    BY <1>1, <1>4, <2>1, <2>2, CalendarIsFirst
<1>5. CASE kind = "daily"
  <2>1. r = NextDailyRunAfterInTimezone(s.zone, s.expr.at, after)
    BY <1>3, <1>5 DEF NextRunAfterInTimezone
  <2> QED
    BY <1>5, <2>1, DailyOfRoutine
<1>6. CASE kind = "cron"
  <2>1. r = NextCronRunAfterInTimezone(s.expr, s.zone, after)
    BY <1>3, <1>6 DEF NextRunAfterInTimezone
  <2> QED
    BY <1>1, <1>6, <2>1, CronOfRoutine
<1>7. CASE kind = "once"
  <2>1. r = IF s.expr.at > after THEN s.expr.at ELSE Err
    BY <1>3, <1>7 DEF NextRunAfterInTimezone
  <2> QED
    BY <1>7, <2>1
<1> QED
  BY <1>2, <1>4, <1>5, <1>6, <1>7

\* The successor, if there is one, is a later candidate before the end.
LEMMA SuccessorIs ==
    ASSUME NEW s \in Schedule, NEW t \in Nat, NEW r, r = NextRunWithEndBoundary(s, t)
    PROVE  /\ Stops(r) \/ (r \in Nat /\ r > t /\ r = ScheduleCandidateAfter(s, t))
           /\ r = None => s.oneShot \/ s.end # None
<1>1. PICK c : c = ScheduleCandidateAfter(s, t) /\ IsLater(t, c)
  BY CandidateIsLater
<1>2. r = IF s.oneShot THEN None
          ELSE IF c = Err \/ s.end = None \/ c < s.end THEN c ELSE None
  BY <1>1 DEF NextRunWithEndBoundary, CandidateWithinEndBoundary
<1>3. c # None
  BY <1>1 DEF IsLater, None, Err
<1>4. r \in {None, c}
  BY <1>2
<1>5. r = None => s.oneShot \/ s.end # None
  BY <1>2, <1>3
<1> QED
  BY <1>1, <1>4, <1>5 DEF IsLater, Stops

-----------------------------------------------------------------------------
(* The walk over the successors                                            *)

\* A path of successors that starts at o and has not left "until" behind
\* before its last point.
IsPath(s, o, until, p) ==
    /\ p \in Seq(Int) /\ Len(p) >= 2 /\ p[1] = o
    /\ \A i \in 1..Len(p) - 1 :
          /\ p[i] \in Nat /\ p[i] >= i - 1 /\ (i > 1 => p[i] <= until)
          /\ p[i + 1] = NextRunWithEndBoundary(s, p[i])

\* A walk ends with an answer that stops it or lies after "until".
IsOver(until, p) == Stops(p[Len(p)]) \/ p[Len(p)] > until

Start(s, o) == <<o, NextRunWithEndBoundary(s, o)>>

Grow(s, until, p) ==
    LET last == p[Len(p)]
    IN  IF Stops(last) \/ last > until THEN p ELSE Append(p, NextRunWithEndBoundary(s, last))

LEMMA SuccessorType ==
    ASSUME NEW s \in Schedule, NEW t \in Nat
    PROVE  NextRunWithEndBoundary(s, t) \in Int
BY SuccessorIs DEF Stops, None, Err

LEMMA StartIsPath ==
    ASSUME NEW s \in Schedule, NEW o \in Nat, NEW until
    PROVE  IsPath(s, o, until, Start(s, o)) /\ Len(Start(s, o)) = 2
<1>1. PICK x \in Int : x = NextRunWithEndBoundary(s, o)
  BY SuccessorType
<1>2. PICK p : p = <<o, x>>
  OBVIOUS
<1>3. Start(s, o) = p
  BY <1>1, <1>2 DEF Start
<1>4. p \in Seq(Int) /\ Len(p) = 2 /\ p[1] = o /\ p[2] = x
  BY <1>2
<1>5. \A i \in 1..Len(p) - 1 : i = 1
  BY <1>4
<1>6. IsPath(s, o, until, p)
  BY <1>1, <1>4, <1>5 DEF IsPath
<1> QED
  BY <1>3, <1>4, <1>6

LEMMA GrowIsPath ==
    ASSUME NEW s \in Schedule, NEW o \in Nat, NEW until \in Nat, NEW p, IsPath(s, o, until, p)
    PROVE  /\ IsPath(s, o, until, Grow(s, until, p))
           /\ IF IsOver(until, p) THEN Grow(s, until, p) = p
                                  ELSE Len(Grow(s, until, p)) = Len(p) + 1
<1> DEFINE last == p[Len(p)]
<1>1. p \in Seq(Int) /\ Len(p) >= 2 /\ p[1] = o /\ Len(p) \in Nat
  BY DEF IsPath
<1>2. CASE IsOver(until, p)
  BY <1>2 DEF Grow, IsOver
<1>3. CASE ~IsOver(until, p)
  <2>1. Len(p) - 1 \in 1..Len(p) - 1 /\ (Len(p) - 1) + 1 = Len(p)
    BY <1>1
  <2>2. PICK b \in Nat : b = p[Len(p) - 1] /\ b >= Len(p) - 2 /\ last = NextRunWithEndBoundary(s, b)
    <3>1. p[Len(p) - 1] \in Nat /\ p[Len(p) - 1] >= (Len(p) - 1) - 1
      BY <2>1 DEF IsPath
    <3>2. last = NextRunWithEndBoundary(s, p[Len(p) - 1])
      BY <2>1 DEF IsPath
    <3> QED
      BY <1>1, <3>1, <3>2
  <2>3. last \in Nat /\ last > b /\ last <= until
    BY <1>3, <2>2, SuccessorIs DEF IsOver
  <2>4. PICK x \in Int : x = NextRunWithEndBoundary(s, last)
    BY <2>3, SuccessorType
  <2>5. PICK q : q = Append(p, x)
    OBVIOUS
  <2>6. Grow(s, until, p) = q
    BY <1>3, <2>4, <2>5 DEF Grow, IsOver
  <2>7. /\ q \in Seq(Int) /\ Len(q) = Len(p) + 1
        /\ \A i \in 1..Len(p) : q[i] = p[i]
        /\ q[Len(p) + 1] = x
    BY <1>1, <2>4, <2>5
  <2>8. ASSUME NEW i \in 1..Len(q) - 1
        PROVE  /\ q[i] \in Nat /\ q[i] >= i - 1 /\ (i > 1 => q[i] <= until)
               /\ q[i + 1] = NextRunWithEndBoundary(s, q[i])
    <3>1. CASE i = Len(p)
      <4>1. q[i] = last /\ q[i + 1] = x
        BY <3>1, <2>7, <1>1
      <4>2. last >= i - 1
        BY <3>1, <2>2, <2>3, <1>1
      <4> QED
        BY <4>1, <4>2, <2>3, <2>4
    <3>2. CASE i # Len(p)
      <4>1. i \in 1..Len(p) - 1 /\ i \in 1..Len(p) /\ i + 1 \in 1..Len(p)
        BY <3>2, <2>7, <1>1
      <4>2. q[i] = p[i] /\ q[i + 1] = p[i + 1]
        BY <4>1, <2>7
      <4> QED
        BY <4>1, <4>2 DEF IsPath
    <3> QED
      BY <3>1, <3>2
  <2>9. IsPath(s, o, until, q)
    <3>1. q[1] = o /\ Len(q) >= 2
      BY <1>1, <2>7
    <3> QED
      BY <2>7, <2>8, <3>1 DEF IsPath
  <2> QED
    BY <1>3, <2>6, <2>7, <2>9
<1> QED
  BY <1>2, <1>3

\* The walk of Successors, as far as n.
IsWalk(s, o, until, n, w) ==
    w = [k \in 0..n |-> IF k = 0 THEN Start(s, o) ELSE Grow(s, until, w[k - 1])]

LEMMA WalkExists ==
    ASSUME NEW s, NEW o, NEW until, NEW N \in Nat
    PROVE  \E w : IsWalk(s, o, until, N, w)
<1> DEFINE S == {n \in 0..N : \E w : IsWalk(s, o, until, n, w)}
<1>1. 0 \in S
  <2>1. PICK w : w = [k \in 0..0 |-> Start(s, o)]
    OBVIOUS
  <2>2. w = [k \in 0..0 |-> IF k = 0 THEN Start(s, o) ELSE Grow(s, until, w[k - 1])]
    BY <2>1
  <2> QED
    BY <2>2 DEF IsWalk
<1>2. ASSUME NEW n \in 0..N, n \in S, n < N
      PROVE  n + 1 \in S
  <2>1. PICK w : IsWalk(s, o, until, n, w)
    BY <1>2
  <2>2. PICK v : v = [k \in 0..n + 1 |-> IF k = n + 1 THEN Grow(s, until, w[n]) ELSE w[k]]
    OBVIOUS
  <2>3. \A k \in 0..n : w[k] = IF k = 0 THEN Start(s, o) ELSE Grow(s, until, w[k - 1])
    BY <2>1 DEF IsWalk
  <2>4. \A k \in 0..n : v[k] = w[k]
    BY <2>2
  <2>5. v[n + 1] = Grow(s, until, v[n])
    BY <2>2, <2>4
  <2>6. ASSUME NEW k \in 0..n + 1
        PROVE  v[k] = IF k = 0 THEN Start(s, o) ELSE Grow(s, until, v[k - 1])
    <3>1. CASE k = n + 1
      BY <3>1, <2>5
    <3>2. CASE k \in 0..n /\ k = 0
      BY <3>2, <2>3, <2>4
    <3>3. CASE k \in 0..n /\ k # 0
      <4>1. k - 1 \in 0..n
        BY <3>3
      <4> QED
        BY <3>3, <4>1, <2>3, <2>4
    <3> QED
      BY <3>1, <3>2, <3>3
  <2>7. v = [k \in 0..n + 1 |-> IF k = 0 THEN Start(s, o) ELSE Grow(s, until, v[k - 1])]
    BY <2>2, <2>6
  <2>8. n + 1 \in 0..N
    BY <1>2
  <2> QED
    BY <2>7, <2>8 DEF IsWalk
<1>3. N \in S
  <2> HIDE DEF S
  <2> QED
    BY <1>1, <1>2, Segment
<1> QED
  BY <1>3

LEMMA WalkIsChosen ==
    ASSUME NEW s, NEW o, NEW until
    PROVE  \E w : IsWalk(s, o, until, MaxCatchUp, w) /\ Successors(s, o, until) = w[MaxCatchUp]
<1> DEFINE f == CHOOSE w : IsWalk(s, o, until, MaxCatchUp, w)
<1>1. Successors(s, o, until) = f[MaxCatchUp]
  BY DEF Successors, IsWalk, Start, Grow
<1>2. IsWalk(s, o, until, MaxCatchUp, f)
  BY WalkExists, CatchUpAssumption
<1> QED
  BY <1>1, <1>2

\* The walk is a path, and within MaxCatchUp it is over.
LEMMA SuccessorsIsPath ==
    ASSUME NEW s \in Schedule, NEW o \in Nat, NEW until \in Nat, until <= MaxCatchUp
    PROVE  IsPath(s, o, until, Successors(s, o, until)) /\ IsOver(until, Successors(s, o, until))
<1>1. PICK w : IsWalk(s, o, until, MaxCatchUp, w) /\ Successors(s, o, until) = w[MaxCatchUp]
  BY WalkIsChosen
<1>2. \A k \in 0..MaxCatchUp : w[k] = IF k = 0 THEN Start(s, o) ELSE Grow(s, until, w[k - 1])
  BY <1>1 DEF IsWalk
<1>3. MaxCatchUp \in Nat
  BY CatchUpAssumption
<1> DEFINE Good(k) == IsPath(s, o, until, w[k]) /\ (IsOver(until, w[k]) \/ Len(w[k]) = k + 2)
           S == {k \in 0..MaxCatchUp : Good(k)}
<1>4. 0 \in S
  <2>1. 0 \in 0..MaxCatchUp /\ w[0] = Start(s, o)
    BY <1>2, <1>3
  <2>2. Good(0)
    BY <2>1, StartIsPath
  <2> QED
    BY <2>1, <2>2
<1>5. ASSUME NEW k \in 0..MaxCatchUp, k \in S, k < MaxCatchUp
      PROVE  k + 1 \in S
  <2>1. k + 1 \in 0..MaxCatchUp /\ k + 1 # 0 /\ (k + 1) - 1 = k
    BY <1>3, <1>5
  <2>2. w[k + 1] = Grow(s, until, w[k])
    BY <1>2, <2>1
  <2>3. IsPath(s, o, until, w[k]) /\ (IsOver(until, w[k]) \/ Len(w[k]) = k + 2)
    BY <1>5
  <2>4. IsPath(s, o, until, w[k + 1])
    BY <2>2, <2>3, GrowIsPath
  <2>5. CASE IsOver(until, w[k])
    <3>1. w[k + 1] = w[k]
      BY <2>2, <2>3, <2>5, GrowIsPath
    <3> QED
      BY <2>1, <2>4, <2>5, <3>1
  <2>6. CASE ~IsOver(until, w[k])
    <3>1. Len(w[k + 1]) = (k + 2) + 1
      BY <2>2, <2>3, <2>6, GrowIsPath
    <3>2. Len(w[k + 1]) = (k + 1) + 2
      BY <3>1
    <3> QED
      BY <2>1, <2>4, <3>2
  <2> QED
    BY <2>5, <2>6
<1>6. MaxCatchUp \in S
  <2> HIDE DEF S
  <2> QED
    BY <1>3, <1>4, <1>5, Segment
<1>7. Good(MaxCatchUp)
  BY <1>6
<1>8. PICK p : p = w[MaxCatchUp]
  OBVIOUS
<1>9. IsPath(s, o, until, p) /\ (IsOver(until, p) \/ Len(p) = MaxCatchUp + 2)
  BY <1>7, <1>8
<1>10. CASE Len(p) = MaxCatchUp + 2
  <2>1. MaxCatchUp + 1 \in 1..Len(p) - 1 /\ (MaxCatchUp + 1) + 1 = Len(p)
    BY <1>3, <1>10
  <2>2. PICK b \in Nat : b = p[MaxCatchUp + 1] /\ b >= (MaxCatchUp + 1) - 1
    BY <1>9, <2>1 DEF IsPath
  <2>3. p[Len(p)] = NextRunWithEndBoundary(s, b)
    BY <1>9, <2>1, <2>2 DEF IsPath
  <2>4. Stops(p[Len(p)]) \/ p[Len(p)] > b
    BY <2>2, <2>3, SuccessorIs
  <2>5. Stops(p[Len(p)]) \/ p[Len(p)] > until
    <3>1. CASE Stops(p[Len(p)])
      BY <3>1
    <3>2. CASE ~Stops(p[Len(p)])
      <4>1. PICK l \in Nat : l = p[Len(p)] /\ l > b
        BY <2>2, <2>3, <3>2, SuccessorIs
      <4> QED
        BY <4>1, <2>2, <1>3
    <3> QED
      BY <3>1, <3>2
  <2> QED
    BY <1>1, <1>8, <1>9, <2>5 DEF IsOver
<1> QED
  BY <1>1, <1>8, <1>9, <1>10

\* The points of a path, and its last step.
LEMMA PathPoint ==
    ASSUME NEW s \in Schedule, NEW o \in Nat, NEW until \in Nat, NEW p, IsPath(s, o, until, p),
           NEW i \in 1..Len(p) - 1
    PROVE  /\ p[i] \in Nat /\ (i > 1 => p[i] <= until) /\ ~Stops(p[i])
           /\ i + 1 \in 1..Len(p) /\ p[i + 1] = NextRunWithEndBoundary(s, p[i])
           /\ Stops(p[i + 1]) \/ (p[i + 1] \in Nat /\ p[i + 1] > p[i])
<1>1. p[i] \in Nat /\ (i > 1 => p[i] <= until) /\ p[i + 1] = NextRunWithEndBoundary(s, p[i])
  BY DEF IsPath
<1>2. Stops(p[i + 1]) \/ (p[i + 1] \in Nat /\ p[i + 1] > p[i])
  BY <1>1, SuccessorIs
<1>3. Len(p) \in Nat
  BY DEF IsPath
<1>4. i + 1 \in 1..Len(p)
  BY <1>3
<1>5. ~Stops(p[i])
  BY <1>1 DEF Stops, None, Err
<1> QED
  BY <1>1, <1>2, <1>4, <1>5

LEMMA PathIncreases ==
    ASSUME NEW s \in Schedule, NEW o \in Nat, NEW until \in Nat, NEW p, IsPath(s, o, until, p),
           NEW j \in 1..Len(p), ~Stops(p[j]), NEW i \in 1..Len(p), i < j
    PROVE  p[j] \in Nat /\ p[i] \in Nat /\ p[i] < p[j]
<1>0. Len(p) \in Nat /\ Len(p) >= 2
  BY DEF IsPath
<1>1. PICK n \in Nat : n = Len(p) - 1 /\ Len(p) = n + 1 /\ n >= 1
  BY <1>0
<1> DEFINE Good(k) == \A h \in 1..k : Stops(p[k + 1]) \/ (p[k + 1] \in Nat /\ p[h] \in Nat /\ p[h] < p[k + 1])
           S == {k \in 0..n : Good(k)}
<1>2. 0 \in S
  BY <1>1
<1>3. ASSUME NEW k \in 0..n, k \in S, k < n
      PROVE  k + 1 \in S
  <2>1. k + 1 \in 1..Len(p) - 1
    BY <1>1, <1>3
  <2>2. PICK y \in Nat : /\ y = p[k + 1] /\ ~Stops(p[k + 1])
                         /\ Stops(p[(k + 1) + 1]) \/ (p[(k + 1) + 1] \in Nat /\ p[(k + 1) + 1] > y)
    BY <2>1, PathPoint
  <2>3. ASSUME NEW h \in 1..k + 1, ~Stops(p[(k + 1) + 1])
        PROVE  p[(k + 1) + 1] \in Nat /\ p[h] \in Nat /\ p[h] < p[(k + 1) + 1]
    <3>1. PICK x \in Nat : x = p[(k + 1) + 1] /\ x > y
      BY <2>2, <2>3
    <3>2. CASE h = k + 1
      BY <3>1, <3>2, <2>2
    <3>3. CASE h \in 1..k
      <4>1. p[h] \in Nat /\ p[h] < y
        BY <1>3, <2>2, <3>3
      <4> QED
        BY <3>1, <4>1
    <3> QED
      BY <3>2, <3>3
  <2> QED
    BY <1>1, <1>3, <2>3
<1>4. \A k \in 0..n : k \in S
  <2> HIDE DEF S
  <2> QED
    BY <1>1, <1>2, <1>3, Segment
<1>5. j - 1 \in 0..n /\ i \in 1..j - 1 /\ (j - 1) + 1 = j
  BY <1>1
<1>6. Good(j - 1)
  BY <1>4, <1>5
<1> QED
  BY <1>5, <1>6

-----------------------------------------------------------------------------
(* Catching up                                                             *)

\* The steps of a fixed interval.
LEMMA IntervalStep ==
    ASSUME NEW s \in Schedule, s.expr.kind = "interval", ~s.oneShot,
           NEW a, a = s.expr.amount, NEW t \in Nat
    PROVE  NextRunWithEndBoundary(s, t) = CandidateWithinEndBoundary(s, t + a)
BY DEF NextRunWithEndBoundary, ScheduleCandidateAfter, NextRunAfterInTimezone, NextRunAfter

LEMMA WithinEnd ==
    ASSUME NEW s \in Schedule, NEW t \in Nat, NEW r, r = CandidateWithinEndBoundary(s, t)
    PROVE  /\ r \in {None, t}
           /\ r = None <=> (s.end \in Nat /\ t >= s.end)
<1>1. t # Err /\ t # None
  BY DEF Err, None
<1>2. PICK e : e = s.end /\ e \in Nat \union {None}
  BY ScheduleTypes
<1>3. r = IF e = None \/ t < e THEN t ELSE None
  BY <1>1, <1>2 DEF CandidateWithinEndBoundary
<1>4. None \notin Nat
  BY DEF None
<1> QED
  BY <1>1, <1>2, <1>3, <1>4

LEMMA NextMultiple ==
    ASSUME NEW k \in Nat, NEW a \in Nat
    PROVE  (k + 1) * a = k * a + a /\ k * a \in Nat
OBVIOUS

LEMMA IntervalPath ==
    ASSUME NEW s \in Schedule, s.expr.kind = "interval", ~s.oneShot,
           NEW a \in Nat, a = s.expr.amount,
           NEW o \in Nat, NEW until \in Nat, NEW p, IsPath(s, o, until, p)
    PROVE  \A i \in 1..Len(p) - 1 : p[i] = o + (i - 1) * a
<1>1. Len(p) \in Nat /\ Len(p) >= 2 /\ p[1] = o
  BY DEF IsPath
<1>2. PICK n \in Nat : n = Len(p) - 2
  BY <1>1
<1> DEFINE S == {k \in 0..n : p[k + 1] = o + k * a}
<1>3. 0 \in S
  BY <1>1
<1>4. ASSUME NEW k \in 0..n, k \in S, k < n
      PROVE  k + 1 \in S
  <2>1. k + 1 \in 1..Len(p) - 1 /\ (k + 1) + 1 \in 1..Len(p) - 1 /\ k + 1 \in 0..n
    BY <1>1, <1>2, <1>4
  <2>2. p[k + 1] \in Nat /\ p[(k + 1) + 1] = NextRunWithEndBoundary(s, p[k + 1])
    BY <2>1, PathPoint
  <2>3. ~Stops(p[(k + 1) + 1])
    BY <2>1, PathPoint
  <2>4. p[(k + 1) + 1] = CandidateWithinEndBoundary(s, p[k + 1] + a)
    BY <2>2, IntervalStep
  <2>5. p[k + 1] + a \in Nat
    BY <2>2
  <2>6. p[(k + 1) + 1] = p[k + 1] + a
    BY <2>3, <2>4, <2>5, WithinEnd DEF Stops
  <2>7. (k + 1) * a = k * a + a /\ k * a \in Nat
    <3>1. k \in Nat
      BY <1>4
    <3> QED
      BY <3>1, NextMultiple
  <2>8. p[k + 1] = o + k * a
    BY <1>4
  <2>9. p[(k + 1) + 1] = o + (k + 1) * a
    BY <2>6, <2>7, <2>8
  <2> QED
    BY <2>1, <2>9
<1>5. \A k \in 0..n : k \in S
  <2> HIDE DEF S
  <2> QED
    BY <1>2, <1>3, <1>4, Segment
<1>6. ASSUME NEW i \in 1..Len(p) - 1 PROVE p[i] = o + (i - 1) * a
  <2>1. i - 1 \in 0..n /\ (i - 1) + 1 = i
    BY <1>1, <1>2
  <2>2. i - 1 \in S
    BY <1>5, <2>1
  <2> QED
    BY <2>1, <2>2
<1> QED
  BY <1>6

\* A number between two neighbouring multiples of a.
LEMMA Quotient ==
    ASSUME NEW x \in Nat, NEW a \in Nat \ {0}, NEW m \in Nat, m * a <= x, x < m * a + a
    PROVE  x \div a = m
<1>1. PICK q \in Nat : q = x \div a /\ q * a <= x /\ x < q * a + a
  BY Division
<1>2. CASE q = m
  BY <1>1, <1>2
<1>3. CASE q + 1 <= m
  <2>1. (q + 1) * a <= m * a /\ (q + 1) * a = q * a + a
    BY <1>3
  <2> QED
    BY <1>1, <2>1
<1>4. CASE m + 1 <= q
  <2>1. (m + 1) * a <= q * a /\ (m + 1) * a = m * a + a
    BY <1>4
  <2> QED
    BY <1>1, <2>1
<1> QED
  BY <1>2, <1>3, <1>4

\* first_run_after_now_from_occurrence: the division lands where the loop of
\* single successors would, the end boundary included.
THEOREM DivisionIsIteration ==
    ASSUME NEW s \in Schedule, NEW o \in Nat, NEW now \in Nat, now <= MaxCatchUp
    PROVE  FirstRunAfterNowFromOccurrence(s, o, now) = IteratedRunAfterNow(s, o, now)
<1>1. PICK p : p = Successors(s, o, now) /\ IsPath(s, o, now, p) /\ IsOver(now, p)
  BY SuccessorsIsPath
<1>path. IsPath(s, o, now, p)
  BY <1>1
<1>0. PICK n \in Nat : n = Len(p) /\ n >= 2
  BY <1>1 DEF IsPath
<1>2. PICK c : c = NextRunWithEndBoundary(s, o)
  OBVIOUS
<1>3. p[1] = o /\ p[2] = c
  <2>1. p[1] = o
    BY <1>1 DEF IsPath
  <2>2. 1 \in 1..Len(p) - 1
    BY <1>0
  <2>3. p[1 + 1] = NextRunWithEndBoundary(s, p[1])
    BY <1>path, <2>2, PathPoint
  <2> QED
    BY <1>2, <2>1, <2>3
<1>4. IteratedRunAfterNow(s, o, now) = p[Len(p)]
  BY <1>1 DEF IteratedRunAfterNow
<1>5. CASE Stops(c) \/ c > now
  <2>1. FirstRunAfterNowFromOccurrence(s, o, now) = c
    BY <1>2, <1>5 DEF FirstRunAfterNowFromOccurrence
  <2>2. Len(p) = 2
    <3>1. SUFFICES ASSUME Len(p) # 2 PROVE FALSE
      OBVIOUS
    <3>2. 2 \in 1..Len(p) - 1
      BY <1>0, <3>1
    <3>3. p[2] \in Nat /\ p[2] <= now /\ ~Stops(p[2])
      BY <1>path, <3>2, PathPoint
    <3> QED
      BY <1>3, <1>5, <3>3
  <2> QED
    BY <1>3, <1>4, <2>1, <2>2
<1>6. CASE ~(Stops(c) \/ c > now) /\ s.expr.kind # "interval"
  BY <1>2, <1>6 DEF FirstRunAfterNowFromOccurrence
<1>7. CASE ~(Stops(c) \/ c > now) /\ s.expr.kind = "interval"
  <2>1. PICK a \in Nat \ {0} : a = s.expr.amount
    BY <1>7, ScheduleTypes, ExpressionTypes
  <2>2. ~s.oneShot
    BY <1>2, <1>7 DEF NextRunWithEndBoundary, Stops
  <2>3. c \in Nat /\ c <= now
    BY <1>2, <1>7, SuccessorIs
  <2>4. Len(p) >= 3
    <3>1. SUFFICES ASSUME Len(p) = 2 PROVE FALSE
      BY <1>0
    <3> QED
      BY <1>1, <1>3, <1>7, <3>1 DEF IsOver
  <2>5. PICK m \in Nat : m = Len(p) - 3
    BY <1>0, <2>4
  <2>6. Len(p) - 1 \in 1..Len(p) - 1 /\ (Len(p) - 1) + 1 = Len(p) /\ Len(p) - 1 > 1 /\ 2 \in 1..Len(p) - 1
    BY <1>0, <2>4
  <2>7. \A i \in 1..Len(p) - 1 : p[i] = o + (i - 1) * a
    BY <1>1, <1>7, <2>1, <2>2, IntervalPath
  <2>8. c = o + a
    <3>1. p[2] = o + (2 - 1) * a
      BY <2>6, <2>7
    <3> QED
      BY <1>3, <2>1, <3>1
  <2>9. PICK q \in Nat : q = p[Len(p) - 1] /\ q = c + m * a /\ q <= now
    <3>1. p[Len(p) - 1] = o + ((Len(p) - 1) - 1) * a
      BY <2>6, <2>7
    <3>2. (m + 1) * a = m * a + a /\ m * a \in Nat
      BY <2>1
    <3>3. (Len(p) - 1) - 1 = m + 1
      BY <1>0, <2>5
    <3>4. p[Len(p) - 1] = c + m * a
      BY <2>1, <2>8, <3>1, <3>2, <3>3
    <3>5. p[Len(p) - 1] \in Nat /\ p[Len(p) - 1] <= now
      BY <1>path, <2>6, PathPoint
    <3> QED
      BY <3>4, <3>5
  <2>10. p[Len(p)] = CandidateWithinEndBoundary(s, q + a)
    <3>1. p[Len(p)] = NextRunWithEndBoundary(s, q)
      <4>1. p[(Len(p) - 1) + 1] = NextRunWithEndBoundary(s, p[Len(p) - 1])
        BY <1>path, <2>6, PathPoint
      <4> QED
        BY <2>6, <2>9, <4>1
    <3> QED
      BY <3>1, <1>7, <2>1, <2>2, <2>9, IntervalStep
  <2>11. PICK d \in Nat : d = (now - c) \div a /\ d * a <= now - c /\ now - c < d * a + a
    <3>1. PICK y \in Nat : y = now - c
      BY <2>3
    <3>2. y \div a \in Nat /\ (y \div a) * a <= y /\ y < (y \div a) * a + a
      BY <2>1, Division
    <3> QED
      BY <3>1, <3>2
  <2>12. PICK x \in Nat : x = c + (d + 1) * a /\ x > now
    <3>1. (d + 1) * a = d * a + a /\ d * a \in Nat
      BY <2>1, <2>11
    <3> QED
      BY <2>1, <2>3, <2>11, <3>1
  <2>13. FirstRunAfterNowFromOccurrence(s, o, now) = CandidateWithinEndBoundary(s, x)
    BY <1>2, <1>7, <2>1, <2>11, <2>12 DEF FirstRunAfterNowFromOccurrence
  <2>14. CASE q + a > now
    <3>1. m * a \in Nat /\ m * a <= now - c /\ now - c < m * a + a /\ now - c \in Nat
      BY <2>1, <2>3, <2>9, <2>14
    <3>2. d = m
      BY <2>1, <2>11, <3>1, Quotient
    <3>3. (d + 1) * a = m * a + a
      BY <2>1, <3>2
    <3>4. x = q + a
      BY <2>1, <2>3, <2>9, <2>12, <3>1, <3>3
    <3> QED
      BY <1>4, <2>10, <2>13, <3>4
  <2>15. CASE q + a <= now
    <3>1. q + a \in Nat
      BY <2>1
    <3>2. p[Len(p)] = None
      BY <1>1, <2>10, <2>15, <3>1, WithinEnd DEF IsOver, Stops, None, Err
    <3>3. s.end \in Nat /\ q + a >= s.end
      BY <2>10, <3>1, <3>2, WithinEnd
    <3>4. x >= s.end
      BY <2>12, <2>15, <3>1, <3>3
    <3> QED
      BY <1>4, <2>13, <3>2, <3>3, <3>4, WithinEnd
  <2> QED
    BY <2>1, <2>14, <2>15
<1> QED
  BY <1>5, <1>6, <1>7

\* A set of occurrences that the successors do not leave before h.
ClosedUpTo(s, h, C) ==
    C \subseteq Nat /\ \A t \in C : t <= h => Stops(NextRunWithEndBoundary(s, t))
                                             \/ NextRunWithEndBoundary(s, t) \in C

LEMMA PathStays ==
    ASSUME NEW s \in Schedule, NEW h \in Nat, NEW C, ClosedUpTo(s, h, C),
           NEW o \in C, o <= h, NEW until \in Nat, until <= h,
           NEW p, IsPath(s, o, until, p), NEW i \in 1..Len(p)
    PROVE  Stops(p[i]) \/ p[i] \in C
<1>1. Len(p) \in Nat /\ Len(p) >= 2 /\ p[1] = o /\ o \in Nat
  BY DEF IsPath, ClosedUpTo
<1>2. PICK n \in Nat : n = Len(p) - 1
  BY <1>1
<1> DEFINE S == {k \in 0..n : Stops(p[k + 1]) \/ p[k + 1] \in C}
<1>3. 0 \in S
  BY <1>1
<1>4. ASSUME NEW k \in 0..n, k \in S, k < n
      PROVE  k + 1 \in S
  <2>1. k + 1 \in 1..Len(p) - 1 /\ k + 1 \in 0..n
    BY <1>1, <1>2, <1>4
  <2>2. /\ p[k + 1] \in Nat /\ (k + 1 > 1 => p[k + 1] <= until) /\ ~Stops(p[k + 1])
        /\ p[(k + 1) + 1] = NextRunWithEndBoundary(s, p[k + 1])
    BY <1>1, <2>1, PathPoint
  <2>3. p[k + 1] \in C
    BY <1>4, <2>2
  <2>4. p[k + 1] <= h
    <3>1. CASE k = 0
      BY <1>1, <3>1
    <3>2. CASE k # 0
      BY <2>2, <3>2
    <3> QED
      BY <3>1, <3>2
  <2> QED
    BY <2>1, <2>2, <2>3, <2>4 DEF ClosedUpTo
<1>5. \A k \in 0..n : k \in S
  <2> HIDE DEF S
  <2> QED
    BY <1>2, <1>3, <1>4, Segment
<1>6. i - 1 \in 0..n /\ (i - 1) + 1 = i
  BY <1>1, <1>2
<1>7. i - 1 \in S
  BY <1>5, <1>6
<1> QED
  BY <1>6, <1>7

\* Where a catch-up ends: after now, in C, or behind an occurrence in C that
\* has no successor.
Caught(s, now, C, r) ==
    /\ Stops(r) \/ (r \in C /\ r > now)
    /\ r = None => \E q \in C : q <= now /\ NextRunWithEndBoundary(s, q) = None

LEMMA PathEnd ==
    ASSUME NEW s \in Schedule, NEW h \in Nat, NEW C, ClosedUpTo(s, h, C),
           NEW o \in C, NEW now \in Nat, o <= now, now <= h,
           NEW p, IsPath(s, o, now, p), IsOver(now, p)
    PROVE  Caught(s, now, C, p[Len(p)])
<1>1. Len(p) \in Nat /\ Len(p) >= 2 /\ p[1] = o /\ o \in Nat /\ o <= h
  BY DEF IsPath, ClosedUpTo
<1>2. Len(p) \in 1..Len(p) /\ Len(p) - 1 \in 1..Len(p) - 1 /\ Len(p) - 1 \in 1..Len(p)
      /\ (Len(p) - 1) + 1 = Len(p)
  BY <1>1
<1>3. Stops(p[Len(p)]) \/ p[Len(p)] \in C
  BY <1>1, <1>2, PathStays
<1>4. PICK q : q = p[Len(p) - 1]
  OBVIOUS
<1>5. q \in Nat /\ ~Stops(q) /\ (Len(p) - 1 > 1 => q <= now) /\ p[Len(p)] = NextRunWithEndBoundary(s, q)
  BY <1>1, <1>2, <1>4, PathPoint
<1>6. q \in C
  BY <1>1, <1>2, <1>4, <1>5, PathStays
<1>7. q <= now
  <2>1. CASE Len(p) = 2
    BY <1>1, <1>4, <2>1
  <2>2. CASE Len(p) # 2
    <3>1. Len(p) - 1 > 1
      <4>1. PICK n \in Nat : n = Len(p) /\ n >= 2
        BY <1>1
      <4> QED
        BY <2>2, <4>1
    <3> QED
      BY <1>5, <3>1
  <2> QED
    BY <2>1, <2>2
<1> QED
  BY <1>3, <1>5, <1>6, <1>7 DEF Caught, IsOver

LEMMA FirstRunIsCaught ==
    ASSUME NEW s \in Schedule, NEW h \in Nat, h <= MaxCatchUp, NEW C, ClosedUpTo(s, h, C),
           NEW o \in C, NEW now \in Nat, o <= now, now <= h
    PROVE  Caught(s, now, C, FirstRunAfterNowFromOccurrence(s, o, now))
<1>1. o \in Nat /\ now <= MaxCatchUp
  BY CatchUpAssumption DEF ClosedUpTo
<1>2. PICK p : p = Successors(s, o, now) /\ IsPath(s, o, now, p) /\ IsOver(now, p)
  BY <1>1, SuccessorsIsPath
<1>3. FirstRunAfterNowFromOccurrence(s, o, now) = p[Len(p)]
  BY <1>1, <1>2, DivisionIsIteration DEF IteratedRunAfterNow
<1> QED
  BY <1>2, <1>3, PathEnd

LEMMA LengthIs ==
    ASSUME NEW n \in Nat, NEW E, NEW f \in [1..n -> E]
    PROVE  Len(f) = n
<1>1. f \in Seq(E) /\ DOMAIN f = 1..n
  OBVIOUS
<1> QED
  BY <1>1

\* What a plan with n occurrences is, and where the last of them leaves the
\* schedule.
IsPlan(s, now, C, p, plan, n) ==
    /\ Len(plan) = n /\ \A k \in 1..n : plan[k].for = p[k]
    /\ Stops(plan[n].next) \/ (plan[n].next \in C /\ plan[n].next > p[n])
    /\ s.routine => Stops(plan[n].next) \/ plan[n].next > now
    /\ plan[n].next = None => \E q \in C : q <= now /\ NextRunWithEndBoundary(s, q) = None
    /\ s.routine /\ s.policy = "run_each" => n = Min({s.cap, Len(p) - 1})

\* claimed_occurrences_at: the first points of the walk run, as many as the cap
\* allows, and the schedule goes on after the last of them.
LEMMA PlanIs ==
    ASSUME NEW s \in Schedule, NEW h \in Nat, h <= MaxCatchUp, NEW C, ClosedUpTo(s, h, C),
           NEW o \in C, NEW now \in Nat, o <= now, now <= h,
           NEW p, p = Successors(s, o, now),
           NEW plan, plan = ClaimedOccurrencesAt(s, o, None, now)
    PROVE  \E n \in 1..Len(p) - 1 : IsPlan(s, now, C, p, plan, n)
<1>1. o \in Nat /\ now <= MaxCatchUp /\ o <= h
  BY CatchUpAssumption DEF ClosedUpTo
<1>2. IsPath(s, o, now, p) /\ IsOver(now, p)
  BY <1>1, SuccessorsIsPath
<1>3. PICK m \in Nat : m = Len(p) - 1 /\ m >= 1
  <2>1. PICK l \in Nat : l = Len(p) /\ l >= 2
    BY <1>2 DEF IsPath
  <2> QED
    BY <2>1
<1>4. p[1] = o /\ 1 \in 1..Len(p) - 1
  BY <1>2, <1>3 DEF IsPath
<1>5. CASE ~(s.routine /\ s.policy = "run_each")
  <2>1. PICK l : l = PlannedNextAfterClaim(s, o, None, now)
    OBVIOUS
  <2>2. plan = <<[for |-> o, next |-> l]>>
    BY <1>5, <2>1 DEF ClaimedOccurrencesAt
  <2>3. Len(plan) = 1 /\ plan[1].for = o /\ plan[1].next = l /\ \A k \in 1..1 : k = 1
    BY <2>2
  <2>4. /\ Stops(l) \/ (l \in C /\ l > o)
        /\ s.routine => Stops(l) \/ l > now
        /\ l = None => \E q \in C : q <= now /\ NextRunWithEndBoundary(s, q) = None
    <3>1. CASE s.oneShot
      <4>1. l = None /\ NextRunWithEndBoundary(s, o) = None
        BY <2>1, <3>1 DEF PlannedNextAfterClaim, NextRunWithEndBoundary
      <4> QED
        BY <4>1 DEF Stops
    <3>2. CASE ~s.oneShot /\ s.routine
      <4>1. l = FirstRunAfterNowFromOccurrence(s, o, now)
        BY <1>5, <2>1, <3>2 DEF PlannedNextAfterClaim
      <4>2. Caught(s, now, C, l)
        BY <4>1, FirstRunIsCaught
      <4>3. l \in C => l \in Nat
        BY DEF ClosedUpTo
      <4> QED
        BY <1>1, <4>2, <4>3 DEF Caught
    <3>3. CASE ~s.oneShot /\ ~s.routine
      <4>1. l = NextRunWithEndBoundary(s, o)
        BY <2>1, <3>3 DEF PlannedNextAfterClaim
      <4>2. Stops(l) \/ l \in C
        BY <1>1, <4>1 DEF ClosedUpTo
      <4>3. Stops(l) \/ l > o
        BY <1>1, <4>1, SuccessorIs
      <4> QED
        BY <3>3, <4>1, <4>2, <4>3
    <3> QED
      BY <3>1, <3>2, <3>3, ScheduleTypes
  <2> QED
    BY <1>4, <1>5, <2>3, <2>4 DEF IsPlan
<1>6. CASE s.routine /\ s.policy = "run_each"
  <2>1. PICK cap \in Nat \ {0} : cap = s.cap
    BY ScheduleTypes
  <2>2. PICK n \in Nat : n = Min({cap, m}) /\ n >= 1 /\ n <= m
    BY <1>3, <2>1, MinOfTwo
  <2>3. n \in 1..Len(p) - 1 /\ n \in 1..n /\ n \in 1..Len(p) /\ n + 1 \in 1..Len(p)
    BY <1>3, <2>2
  <2> DEFINE next(k) == IF k = n /\ ~Stops(p[k + 1]) /\ p[k + 1] <= now
                        THEN FirstRunAfterNowFromOccurrence(s, p[k], now)
                        ELSE p[k + 1]
  <2>4. PICK f : f = [k \in 1..n |-> [for |-> p[k], next |-> next(k)]]
    OBVIOUS
  <2>5. plan = f
    BY <1>3, <1>6, <2>1, <2>2, <2>4 DEF ClaimedOccurrencesAt
  <2>6. DOMAIN f = 1..n /\ (\A k \in 1..n : f[k].for = p[k]) /\ f[n].next = next(n)
    BY <2>3, <2>4
  <2>7. Len(f) = n
    <3>1. PICK E : E = {f[k] : k \in 1..n}
      OBVIOUS
    <3>2. f \in [1..n -> E]
      BY <2>4, <3>1
    <3> QED
      BY <3>2, LengthIs
  <2>8. PICK b : b = p[n]
    OBVIOUS
  <2>9. b \in Nat /\ ~Stops(b) /\ (n > 1 => b <= now) /\ p[n + 1] = NextRunWithEndBoundary(s, b)
    BY <1>1, <1>2, <2>3, <2>8, PathPoint
  <2>10. b \in C
    BY <1>1, <1>2, <2>3, <2>8, <2>9, PathStays
  <2>11. b <= now
    <3>1. CASE n = 1
      BY <1>4, <2>8, <3>1
    <3>2. CASE n # 1
      BY <2>2, <2>9, <3>2
    <3> QED
      BY <3>1, <3>2
  <2>12. PICK l : l = next(n)
    OBVIOUS
  <2>13. Caught(s, now, C, l)
    <3>1. CASE ~Stops(p[n + 1]) /\ p[n + 1] <= now
      <4>1. l = FirstRunAfterNowFromOccurrence(s, b, now)
        BY <2>8, <2>12, <3>1
      <4> QED
        BY <2>10, <2>11, <4>1, FirstRunIsCaught
    <3>2. CASE Stops(p[n + 1])
      <4>1. l = p[n + 1]
        BY <2>12, <3>2
      <4> QED
        BY <2>9, <2>10, <2>11, <3>2, <4>1 DEF Caught
    <3>3. CASE ~Stops(p[n + 1]) /\ ~(p[n + 1] <= now)
      <4>1. l = p[n + 1]
        BY <2>12, <3>3
      <4>2. l \in Nat
        BY <2>9, <3>3, <4>1, SuccessorIs
      <4>3. l \in C
        BY <1>1, <1>2, <2>3, <3>3, <4>1, PathStays
      <4>4. l > now /\ l # None
        BY <3>3, <4>1, <4>2 DEF None
      <4> QED
        BY <4>3, <4>4 DEF Caught
    <3> QED
      BY <3>1, <3>2, <3>3
  <2>14. l \in C => l \in Nat
    BY DEF ClosedUpTo
  <2>15. /\ Stops(l) \/ (l \in C /\ l > b)
         /\ Stops(l) \/ l > now
         /\ l = None => \E q \in C : q <= now /\ NextRunWithEndBoundary(s, q) = None
    BY <2>9, <2>11, <2>13, <2>14 DEF Caught
  <2>16. Len(plan) = n /\ (\A k \in 1..n : plan[k].for = p[k]) /\ plan[n].next = l
    <3> HIDE DEF next
    <3> QED
      BY <2>5, <2>6, <2>7, <2>12
  <2> QED
    BY <1>3, <2>1, <2>2, <2>3, <2>8, <2>15, <2>16 DEF IsPlan
<1> QED
  BY <1>5, <1>6

\* So many different values, so large a set.
LEMMA DifferentValues ==
    ASSUME NEW n \in Nat, NEW p, \A i, j \in 1..n : p[i] = p[j] => i = j
    PROVE  Cardinality({p[k] : k \in 1..n}) = n
<1> DEFINE T == {p[k] : k \in 1..n}
<1>1. PICK f : f = [k \in 1..n |-> p[k]]
  OBVIOUS
<1>2. f \in Bijection(1..n, T)
  <2>1. f \in [1..n -> T]
    BY <1>1
  <2>2. \A i, j \in 1..n : f[i] = f[j] => i = j
    BY <1>1
  <2>3. \A t \in T : \E k \in 1..n : f[k] = t
    BY <1>1
  <2> HIDE DEF T
  <2>4. f \in Injection(1..n, T)
    BY <2>1, <2>2 DEF Injection, IsInjective
  <2>5. f \in Surjection(1..n, T)
    BY <2>1, <2>3 DEF Surjection
  <2> QED
    BY <2>4, <2>5 DEF Bijection
<1>3. IsFiniteSet(1..n) /\ Cardinality(1..n) = n
  BY FS_Interval
<1>4. ExistsBijection(1..n, T)
  BY <1>2 DEF ExistsBijection
<1> QED
  BY <1>3, <1>4, FS_Bijection
=============================================================================
