-------------------------- MODULE MCRoutineScheduler --------------------------
(* RoutineScheduler for model checking.                                    *)
EXTENDS RoutineScheduler

\* The calendar is not used by a fixed interval.
Year == <<1>>
=============================================================================
