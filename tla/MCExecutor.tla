----------------------------- MODULE MCExecutor -----------------------------
(* Model-checking instance of Executor: scripts are interchangeable. *)
EXTENDS Executor, TLC

MCSymmetry == Permutations(Scripts)

=============================================================================
