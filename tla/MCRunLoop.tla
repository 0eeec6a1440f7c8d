----------------------------- MODULE MCRunLoop -----------------------------
(* Instances of RunLoop for TLC.                                           *)
EXTENDS RunLoop, TLC

Unlimited == -1

\* Sound where every run has the same options and no liveness is checked.
RunSymmetry == Permutations(Runs)

============================================================================
