--------------------------- MODULE MCRuntimeHost ---------------------------
(* Instances of RuntimeHost: two workspaces of one user; r1 and r2 share a *)
(* user-scope Worker.                                                      *)
EXTENDS RuntimeHost
CONSTANTS r1, r2, w1, w2

Space == [r \in Runs |-> IF r = r2 THEN w2 ELSE w1]
Version == [r \in Runs |-> 1]
Shared == {r1, r2} \cap Runs
=============================================================================
