-------------------------- MODULE MCEffectJournal --------------------------
(***************************************************************************)
(* The effect journal on small instances.                                  *)
(***************************************************************************)
EXTENDS EffectJournal, TLC

\* Workers are interchangeable, and so are approvers: none is named and none
\* is chosen by CHOOSE.
ThreadSymmetry == Permutations(Workers) \cup Permutations(Approvers)

=============================================================================
