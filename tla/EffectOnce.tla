----------------------------- MODULE EffectOnce -----------------------------
(***************************************************************************)
(* What a durable effect journal promises of each effect it guards: the    *)
(* effect takes place once, and once more only for every time somebody     *)
(* takes it back ("it did not happen") on their own authority.             *)
(*                                                                         *)
(* Nothing else makes an effect repeatable: no retry, timeout or restart   *)
(* is an action of this module. EffectJournal implements it for the tool   *)
(* calls of a workflow, RoutineDelivery for the closing notice of a        *)
(* routine.                                                                *)
(***************************************************************************)
EXTENDS Naturals

CONSTANT Effects   \* the guarded effects

VARIABLES
    done,          \* how often each effect has taken place
    allowed        \* how often it may have

vars == <<done, allowed>>

Init ==
    /\ done = [e \in Effects |-> 0]
    /\ allowed = [e \in Effects |-> 1]

\* The effect takes place.
Perform(e) ==
    /\ done[e] < allowed[e]
    /\ done' = [done EXCEPT ![e] = @ + 1]
    /\ UNCHANGED allowed

\* The user takes it back.
TakeBack(e) ==
    /\ allowed' = [allowed EXCEPT ![e] = @ + 1]
    /\ UNCHANGED done

Next == \E e \in Effects : Perform(e) \/ TakeBack(e)

Spec == Init /\ [][Next]_vars

=============================================================================
