------------------------ MODULE MCHostReconciliation ------------------------
(* Instances of HostReconciliation: one workspace, or one for each run.    *)
EXTENDS HostReconciliation
CONSTANTS r1, r2, s1, s2

Space == [r \in Runs |-> IF r = r2 /\ s2 \in Spaces THEN s2 ELSE s1]
=============================================================================
