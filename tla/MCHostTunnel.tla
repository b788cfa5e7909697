---------------------------- MODULE MCHostTunnel ----------------------------
(* Small instances of HostTunnel for TLC. *)
EXTENDS HostTunnel, TLC

Symmetry == Permutations(Runs)
=============================================================================
