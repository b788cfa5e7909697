-------------------------- MODULE CommandDelivery --------------------------
(***************************************************************************)
(* What the mailbox of the Host and the poll loop of the Worker promise:   *)
(* the commands of a Worker reach its handler once each and in the order   *)
(* they were sent, until the Worker stops.                                 *)
(***************************************************************************)
EXTENDS Integers

CONSTANT MaxCommands \* bound of the commands the Host sends

ASSUME DeliveryAssumption == MaxCommands \in Nat

VARIABLES
    sent,    \* the commands the Host has sent so far, numbered from 1
    evicted, \* the Host has removed the Worker
    times,   \* how often each command was handed to the handler
    worker   \* the Worker process: up, stopping, down

deliveryVars == <<sent, evicted, times, worker>>

Commands == 1..MaxCommands

DeliveryInit ==
    /\ sent = 0
    /\ evicted = FALSE
    /\ times = [c \in Commands |-> 0]
    /\ worker = "up"

SendCommand ==
    /\ ~evicted /\ sent < MaxCommands
    /\ sent' = sent + 1
    /\ UNCHANGED <<evicted, times, worker>>

(* The commands that one answer brings, all new ones up to some command.   *)
HandOver ==
    /\ worker = "up"
    /\ \E n \in 1..sent :
         /\ times[n] = 0
         /\ times' = [c \in Commands |-> IF c <= n THEN 1 ELSE times[c]]
    /\ UNCHANGED <<sent, evicted, worker>>

EvictWorker ==
    /\ ~evicted
    /\ evicted' = TRUE
    /\ UNCHANGED <<sent, times, worker>>

StopWorker ==
    /\ worker = "up"
    /\ worker' = "stopping"
    /\ UNCHANGED <<sent, evicted, times>>

ExitWorker ==
    /\ worker # "down"
    /\ worker' = "down"
    /\ UNCHANGED <<sent, evicted, times>>

DeliveryNext == SendCommand \/ HandOver \/ EvictWorker \/ StopWorker \/ ExitWorker

DeliverySpec == DeliveryInit /\ [][DeliveryNext]_deliveryVars

DeliveryTypeOK ==
    /\ sent \in 0..MaxCommands
    /\ evicted \in BOOLEAN
    /\ times \in [Commands -> 0..1]
    /\ worker \in {"up", "stopping", "down"}
=============================================================================
