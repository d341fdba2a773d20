--------------------------- MODULE MCOccurrenceWalk ---------------------------
(* Schedules for model checking: every expression, in a zone whose clock   *)
(* is set forward, in one where it is set back and in one that never       *)
(* changes.                                                                *)
EXTENDS OccurrenceWalk

\* Two months of two and three days.
Year == <<2, 3>>

Zones == {[before |-> 0, after |-> 0], [before |-> 1, after |-> 3], [before |-> 3, after |-> 1]}

Expressions ==
    [kind : {"interval"}, amount : {2, 5}]
        \union [kind : {"days"}, amount : {1}]
        \union [kind : {"months"}, amount : {1}]
        \union [kind : {"daily"}, at : {0, 2, 3, 5}]
        \union [kind : {"cron"}, slots : {{2}, {0, 3}}, days : {0..2, {1}}]

Recurring ==
    [routine : {TRUE}, oneShot : {FALSE}, expr : Expressions, zone : Zones,
     policy : {"skip", "run_once"}, cap : {1}, end : {None, 17}, window : {<<>>}]
        \union
    [routine : {TRUE}, oneShot : {FALSE}, expr : Expressions, zone : Zones,
     policy : {"run_each"}, cap : {1, 2}, end : {None, 17}, window : {<<>>}]

Windowed ==
    [routine : {TRUE}, oneShot : {FALSE}, expr : {[kind |-> "interval", amount |-> 5]},
     zone : Zones, policy : {"run_once"}, cap : {1}, end : {None},
     window : {<<1, 3>>, <<4, 1>>}]

OneShot ==
    [routine : {TRUE}, oneShot : {TRUE}, expr : [kind : {"once"}, at : {5, 14}],
     zone : Zones, policy : {"skip", "run_once", "run_each"}, cap : {1}, end : {None},
     window : {<<>>}]

DeviceLocal ==
    [routine : {FALSE}, oneShot : {FALSE}, expr : Expressions, zone : Zones,
     policy : {"run_once"}, cap : {1}, end : {None}, window : {<<>>}]

AllSchedules == Recurring \union Windowed \union OneShot \union DeviceLocal

DailySchedules == {s \in Recurring : s.expr.kind = "daily" /\ s.policy = "run_once"}
=============================================================================
