------------------------------ MODULE Recurrence ------------------------------
(***************************************************************************)
(* What the scheduler does with a schedule expression: the successor of an *)
(* occurrence within the routine's end boundary, the catch-up after a      *)
(* pause, and the list of occurrences one claim runs                       *)
(* (workflow_scheduler/recurrence.rs and should_skip_claimed_routine).     *)
(*                                                                         *)
(* A schedule is a record: routine (its id starts with routine_), oneShot, *)
(* expr, zone, policy and cap (missed_run_policy, missed_run_cap), end     *)
(* (the end boundary or None) and window (the slots of the day in which it *)
(* may run: a pair <<first, last>>, or <<>> for none).                     *)
(***************************************************************************)
EXTENDS ScheduleExpression

CONSTANTS
    Lateness,       \* how late a run may be before "skip" drops it (90 s)
    MaxCatchUp      \* the most iterations a catch-up loop needs

ASSUME CatchUpAssumption == Lateness \in Nat /\ MaxCatchUp \in Nat

\* The rows that repository::validate lets through.
Schedule ==
    [routine : BOOLEAN, oneShot : BOOLEAN, expr : Expression, zone : Zone,
     policy : {"skip", "run_once", "run_each"}, cap : Nat \ {0},
     end : Nat \union {None}, window : Seq(Nat)]

ScheduleCandidateAfter(s, after) ==
    IF s.routine THEN NextRunAfterInTimezone(s.expr, s.zone, after)
                 ELSE NextRunAfter(s.expr, s.zone, after)

CandidateWithinEndBoundary(s, candidate) ==
    IF candidate = Err \/ s.end = None \/ candidate < s.end THEN candidate ELSE None

NextRunWithEndBoundary(s, after) ==
    IF s.oneShot THEN None
                 ELSE CandidateWithinEndBoundary(s, ScheduleCandidateAfter(s, after))

\* An answer that stops a walk over the successors: None or Err.
Stops(t) == t \in {None, Err}

\* An occurrence and its successors, up to the first one after "until".
Successors(s, occurrence, until) ==
    LET walk[k \in 0..MaxCatchUp] ==
            IF k = 0 THEN <<occurrence, NextRunWithEndBoundary(s, occurrence)>>
            ELSE LET path == walk[k - 1]
                     last == path[Len(path)]
                 IN  IF Stops(last) \/ last > until THEN path
                     ELSE Append(path, NextRunWithEndBoundary(s, last))
    IN  walk[MaxCatchUp]

\* The loop of first_run_after_now_from_occurrence, for every expression.
IteratedRunAfterNow(s, occurrence, now) ==
    LET path == Successors(s, occurrence, now)
    IN  path[Len(path)]

\* Mutant: the division forgets that the candidate itself is in the past.
FirstRunOneIntervalShort(s, occurrence, now) ==
    LET candidate == NextRunWithEndBoundary(s, occurrence)
    IN  IF Stops(candidate) \/ candidate > now THEN candidate
        ELSE IF s.expr.kind = "interval"
        THEN CandidateWithinEndBoundary(s,
                 candidate + ((now - candidate) \div s.expr.amount) * s.expr.amount)
        ELSE IteratedRunAfterNow(s, occurrence, now)

\* Mutant: an interval that is caught up jumps one occurrence too far.
FirstRunOneIntervalLong(s, occurrence, now) ==
    LET candidate == NextRunWithEndBoundary(s, occurrence)
    IN  IF Stops(candidate) \/ candidate > now THEN candidate
        ELSE IF s.expr.kind = "interval"
        THEN CandidateWithinEndBoundary(s,
                 candidate + ((now - candidate) \div s.expr.amount + 2) * s.expr.amount)
        ELSE IteratedRunAfterNow(s, occurrence, now)

\* first_run_after_now_from_occurrence: a fixed interval is divided out.
FirstRunAfterNowFromOccurrence(s, occurrence, now) ==
    LET candidate == NextRunWithEndBoundary(s, occurrence)
        skipped == (now - candidate) \div s.expr.amount + 1
    IN  IF Stops(candidate) \/ candidate > now THEN candidate
        ELSE IF s.expr.kind = "interval"
        THEN CandidateWithinEndBoundary(s, candidate + skipped * s.expr.amount)
        ELSE IteratedRunAfterNow(s, occurrence, now)

\* Mutant: the successor is counted from the wall clock.
PlannedNextFromNow(s, occurrence, resume, now) == NextRunWithEndBoundary(s, now)

\* planned_next_after_claim.  resume is the anchor Run Now left, or None.
PlannedNextAfterClaim(s, occurrence, resume, now) ==
    IF s.oneShot THEN None
    ELSE IF resume /= None THEN CandidateWithinEndBoundary(s, resume)
    ELSE IF s.routine /\ s.policy /= "run_each"
    THEN FirstRunAfterNowFromOccurrence(s, occurrence, now)
    ELSE NextRunWithEndBoundary(s, occurrence)

\* Mutant: the last occurrence of a capped plan keeps its plain successor.
ClaimedOccurrencesWithoutJump(s, occurrence, resume, now) ==
    LET path == Successors(s, occurrence, now)
        count == Min({s.cap, Len(path) - 1})
    IN  IF resume /= None \/ ~s.routine \/ s.policy /= "run_each"
        THEN <<[for |-> occurrence, next |-> PlannedNextAfterClaim(s, occurrence, resume, now)]>>
        ELSE [k \in 1..count |-> [for |-> path[k], next |-> path[k + 1]]]

\* Mutant: the cap keeps the newest missed occurrences, not the oldest.
ClaimedOccurrencesNewestFirst(s, occurrence, resume, now) ==
    LET path == Successors(s, occurrence, now)
        due == Len(path) - 1
        count == Min({s.cap, due})
    IN  IF resume /= None \/ ~s.routine \/ s.policy /= "run_each"
        THEN <<[for |-> occurrence, next |-> PlannedNextAfterClaim(s, occurrence, resume, now)]>>
        ELSE [k \in 1..count |-> [for |-> path[due - count + k], next |-> path[due - count + k + 1]]]

\* claimed_occurrences_at: the occurrences one claim runs, with the time each
\* one leaves in next_run_at_ms.
ClaimedOccurrencesAt(s, occurrence, resume, now) ==
    LET one(planned) == <<[for |-> occurrence, next |-> planned]>>
        path == Successors(s, occurrence, now)
        count == Min({s.cap, Len(path) - 1})
        next(k) == IF k = count /\ ~Stops(path[k + 1]) /\ path[k + 1] <= now
                   THEN FirstRunAfterNowFromOccurrence(s, path[k], now)
                   ELSE path[k + 1]
    IN  IF resume /= None \/ ~s.routine \/ s.policy /= "run_each"
        THEN one(PlannedNextAfterClaim(s, occurrence, resume, now))
        ELSE [k \in 1..count |-> [for |-> path[k], next |-> next(k)]]

\* should_skip_claimed_routine: the reasons to give up a claim without a run.
Ended(s, now) == s.end /= None /\ now >= s.end

OutsideActiveWindow(s, now) ==
    /\ s.window /= <<>>
    /\ LET minute == LocalAt(s.zone, now) % DaySlots
       IN  IF s.window[1] <= s.window[2]
           THEN minute < s.window[1] \/ minute > s.window[2]
           ELSE minute < s.window[1] /\ minute > s.window[2]

MissedBySkipPolicy(s, occurrence, now) ==
    now - occurrence > Lateness /\ s.policy = "skip"
=============================================================================
