------------------------------ MODULE MCWorker ------------------------------
(* Instances of Worker: their constants are numbers, given in the cfg.     *)
EXTENDS Worker
=============================================================================
