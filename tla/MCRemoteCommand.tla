---------------------------- MODULE MCRemoteCommand ----------------------------
(* RemoteCommand for TLC. *)
EXTENDS RemoteCommand, TLC

CONSTANTS r1, r2, n1, n2

Ask(kind, nonce, expected) == [kind |-> kind, nonce |-> nonce, expected |-> expected]

\* Two requests: two stops, with one nonce or seen at different times, a stop
\* and a file, two files with one nonce, and the kinds that change nothing.
MCAsked == {
    r1 :> Ask("stop_task", n1, 0) @@ r2 :> Ask("stop_task", n1, 0),
    r1 :> Ask("stop_task", n1, 0) @@ r2 :> Ask("stop_task", n2, 1),
    r1 :> Ask("stop_task", n1, 0) @@ r2 :> Ask("stop_task", n2, 0),
    r1 :> Ask("stop_task", n1, 0) @@ r2 :> Ask("request_artifact", n2, 0),
    r1 :> Ask("request_artifact", n1, 0) @@ r2 :> Ask("request_artifact", n1, 0),
    r1 :> Ask("request_artifact", n1, 0) @@ r2 :> Ask("view_task", n1, 0),
    r1 :> Ask("local_review", n1, 0) @@ r2 :> Ask("view_task", n2, 0)}

Symmetry == Permutations(Calls)
=============================================================================
