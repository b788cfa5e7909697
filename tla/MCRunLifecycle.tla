--------------------------- MODULE MCRunLifecycle ---------------------------
(* Instances of RunLifecycle for TLC. *)
EXTENDS RunLifecycle, TLC

(* Runs and stop requests are interchangeable; not used with liveness. *)
Symmetry == Permutations(Runs) \cup Permutations(Stops)
=============================================================================
