------------------------------ MODULE Worker ------------------------------
(***************************************************************************)
(* A Worker process and the Runner process it forks for a run:             *)
(* apps/runtime/src/worker with runner-manager.ts, transport/worker-http.ts*)
(* (the upstream queue of events), runner.ts and transport/runner-ipc.ts.  *)
(* The commands come as CommandDelivery says, which CommandChannel         *)
(* implements.                                                             *)
(*                                                                         *)
(* One run: the runs of a Worker share nothing but the process and its     *)
(* poll loop.  Its first command is the user_message, the others cancel it.*)
(***************************************************************************)
EXTENDS CommandDelivery, Sequences, FiniteSets

CONSTANTS
    MaxEvents,  \* bound of the events of the agent
    QueueMax,   \* EMIT_QUEUE_MAX
    MaxRetries, \* retries of a POST
    MaxMishaps  \* bound of the failures, crashes, evictions and shutdowns

ASSUME WorkerAssumption ==
    MaxEvents \in Nat /\ QueueMax \in Nat \ {0} /\ MaxRetries \in Nat /\ MaxMishaps \in Nat

VARIABLES
    dispatched, \* the commands taken from the run's queue
    busy,       \* what the dispatch of the first command awaits
    runner,     \* the Runner in the manager's map: none, active, cleaned
    terminalSeen, cancellationRequested,
    deadline,   \* cancellationTimer is armed
    killed,     \* SIGTERM was sent
    forceTimer, \* the timer of SIGKILL is armed
    exitTaken,  \* the manager has seen the exit of the Runner
    proc,       \* the Runner process
    config,     \* the run's configuration on its way to the Runner
    toRunner,   \* the commands on their way to the Runner
    fromRunner, \* the messages on their way to the manager
    agentEvents,
    out,        \* the upstream transport of the run
    cursor, heard, ended, \* the Host: sequence cursor, events accepted, terminal status accepted
    mishaps

managerVars == <<dispatched, busy, runner, terminalSeen, cancellationRequested, deadline, killed,
                 forceTimer, exitTaken>>
runnerVars == <<proc, config, toRunner, fromRunner, agentEvents>>
hostVars == <<cursor, heard, ended>>
vars == <<deliveryVars, managerVars, runnerVars, out, hostVars, mishaps>>

Init ==
    /\ DeliveryInit
    /\ dispatched = 0 /\ busy = "no"
    /\ runner = "none" /\ terminalSeen = FALSE /\ cancellationRequested = FALSE
    /\ deadline = FALSE /\ killed = FALSE /\ forceTimer = FALSE /\ exitTaken = FALSE
    /\ proc = "none" /\ config = "no" /\ toRunner = 0 /\ fromRunner = <<>> /\ agentEvents = 0
    /\ out = [n |-> 0, seq |-> 0, open |-> FALSE, queue |-> <<>>, loops |-> {},
              ends |-> {}, lost |-> {}, dropped |-> {}]
    /\ cursor = 0 /\ heard = {} /\ ended = FALSE
    /\ mishaps = 0

Alive == proc \in {"booting", "running", "ended"}
Mishap == mishaps < MaxMishaps /\ mishaps' = mishaps + 1
Working == worker # "down"

(* Messages that the exit of their process has overtaken are read before   *)
(* the manager's event loop takes anything else.                           *)
Ready == Working /\ (exitTaken => fromRunner = <<>>)

-----------------------------------------------------------------------------
(* The upstream transport of the run.  An event has a number n for ever,   *)
(* the sequence number the code gives it, and what its settling triggers.  *)

(* enforceQueueCap: an append drops at most one event, never a terminal    *)
(* status.                                                                 *)
Droppable(q) == {i \in DOMAIN q : ~q[i].end}
NoOverflow(q) == 0 \* mutant: nothing is dropped
OverflowOldest(q) == IF Len(q) > QueueMax THEN 1 ELSE 0 \* mutant: whatever is the oldest
Overflow(q) ==
    IF Len(q) > QueueMax /\ Droppable(q) # {}
    THEN CHOOSE i \in Droppable(q) : \A j \in Droppable(q) : i <= j
    ELSE 0

Without(q, i) == IF i = 0 THEN q ELSE SubSeq(q, 1, i - 1) \o SubSeq(q, i + 1, Len(q))

(* emit: the event joins the queue of the running flush loop, or a new     *)
(* loop posts it at once.                                                  *)
Joins(t) == t.open

Emit(t, end, after) ==
    LET event == [n |-> t.n + 1, seq |-> t.seq + 1, end |-> end, after |-> after]
        full == Append(t.queue, event)
        gone == Overflow(full)
        numbered == [t EXCEPT !.n = @ + 1, !.seq = @ + 1,
                              !.ends = IF end THEN @ \cup {event.n} ELSE @]
    IN IF Joins(t)
       THEN [numbered EXCEPT !.queue = Without(full, gone),
                             !.dropped = IF gone = 0 THEN @ ELSE @ \cup {full[gone].n}]
       ELSE [numbered EXCEPT !.open = TRUE,
                             !.loops = @ \cup {[batch |-> <<event>>, tries |-> 0]}]

Receipt(t) == Emit(t, FALSE, "nothing")
EndStatus(t, after) == Emit(t, TRUE, after)

(* flushLoop goes on with all that was queued meanwhile, or ends.          *)
Continued(t, l) ==
    IF t.queue = <<>>
    THEN [t EXCEPT !.open = FALSE, !.loops = @ \ {l}]
    ELSE [t EXCEPT !.queue = <<>>, !.loops = (@ \ {l}) \cup {[batch |-> t.queue, tries |-> 0]}]

(* client.cleanup: the counter and the queue of the run are forgotten.     *)
Forgotten(t) == [t EXCEPT !.seq = 0, !.open = FALSE, !.queue = <<>>]

(* terminateRunner: SIGTERM once, with a timer for SIGKILL.                *)
TerminateOnly == killed' = TRUE /\ UNCHANGED forceTimer \* mutant: no timer
Terminate == killed' = TRUE /\ forceTimer' = (forceTimer \/ ~killed)

CleansUpAlways(afters) == TRUE \* mutant: after any batch
CleansUp(afters) == afters \cap {"cleanup", "kill"} # {}

(* What settling a batch triggers: cleanupRunner after a terminal status,  *)
(* the end of the Runner when it never got its configuration or the Worker *)
(* shuts down, the end of a dispatch that awaited its report.              *)
Settle(l, t) ==
    LET afters == {l.batch[i].after : i \in DOMAIN l.batch}
        cleaning == runner = "active" /\ CleansUp(afters)
    IN /\ out' = IF cleaning \/ "forget" \in afters THEN Forgotten(Continued(t, l)) ELSE Continued(t, l)
       /\ runner' = IF cleaning THEN "cleaned" ELSE runner
       /\ deadline' = (deadline /\ ~cleaning)
       /\ busy' = IF afters \cap {"report", "forget"} # {} THEN "no" ELSE busy
       /\ IF "kill" \in afters THEN Terminate ELSE UNCHANGED <<killed, forceTimer>>
       /\ UNCHANGED <<dispatched, terminalSeen, cancellationRequested, exitTaken>>

(* The Host takes the events above its cursor until the first end.         *)
News(batch) == {i \in DOMAIN batch : /\ ~ended /\ batch[i].seq > cursor
                                     /\ \A j \in 1..(i - 1) : ~batch[j].end}
HostTakes(batch) ==
    LET new == News(batch)
    IN /\ heard' = heard \cup {batch[i].n : i \in new}
       /\ cursor' = IF new = {} THEN cursor ELSE batch[CHOOSE i \in new : \A j \in new : j <= i].seq
       /\ ended' = (ended \/ \E i \in new : batch[i].end)

PostOk(l) ==
    /\ Ready /\ ~evicted
    /\ HostTakes(l.batch)
    /\ Settle(l, out)
    /\ UNCHANGED <<deliveryVars, runnerVars, mishaps>>

(* An attempt that fails, after or before the Host has taken the batch, is *)
(* repeated after a while.                                                 *)
PostFails(l) ==
    /\ Ready /\ ~evicted /\ l.tries < MaxRetries /\ Mishap
    /\ HostTakes(l.batch) \/ UNCHANGED hostVars
    /\ out' = [out EXCEPT !.loops = (@ \ {l}) \cup {[l EXCEPT !.tries = @ + 1]}]
    /\ UNCHANGED <<deliveryVars, managerVars, runnerVars>>

(* The last attempt fails, or the Host rejects the batch as a client error *)
(* because the run was released.                                           *)
PostGivesUp(l) ==
    /\ Ready /\ ~evicted /\ Mishap
    /\ UNCHANGED hostVars
    /\ Settle(l, [out EXCEPT !.lost = @ \cup {l.batch[i].n : i \in DOMAIN l.batch}])
    /\ UNCHANGED <<deliveryVars, runnerVars>>

(* The process exits; what it held in memory is gone, a POST that it had   *)
(* sent may still arrive.                                                  *)
Gone ==
    /\ ExitWorker
    /\ out' = [out EXCEPT !.open = FALSE, !.queue = <<>>, !.loops = {}]
    /\ busy' = "no" /\ deadline' = FALSE /\ forceTimer' = FALSE /\ fromRunner' = <<>>
    /\ \/ UNCHANGED hostVars
       \/ ~evicted /\ \E l \in out.loops : HostTakes(l.batch)
    /\ UNCHANGED <<dispatched, runner, terminalSeen, cancellationRequested, killed, exitTaken,
                   proc, config, toRunner, agentEvents>>

(* 410: the Worker was evicted.                                            *)
Refused == Ready /\ evicted /\ Gone /\ UNCHANGED mishaps

Crash == Gone /\ Mishap

-----------------------------------------------------------------------------
(* The dispatch of the commands, one after the other.                      *)
NextCommand(c) == /\ Ready /\ busy = "no"
                  /\ c = dispatched + 1 /\ c \in Commands /\ times[c] > 0
                  /\ dispatched' = c

UserMessage ==
    /\ NextCommand(1)
    /\ busy' = "fetching"
    /\ out' = Receipt(out)
    /\ UNCHANGED <<deliveryVars, runner, terminalSeen, cancellationRequested, deadline, killed, forceTimer,
                   exitTaken, runnerVars, hostVars, mishaps>>

FetchFailed ==
    /\ Ready /\ busy = "fetching" /\ Mishap
    /\ busy' = "reporting"
    /\ out' = EndStatus(Receipt(out), "report")
    /\ UNCHANGED <<deliveryVars, dispatched, runner, terminalSeen, cancellationRequested, deadline, killed,
                   forceTimer, exitTaken, runnerVars, hostVars>>

(* The Runner is forked and its configuration is under way.                *)
Forked ==
    /\ Ready /\ busy = "fetching"
    /\ busy' = "no"
    /\ runner' = "active"
    /\ proc' = "booting"
    /\ config' = "sending"
    /\ UNCHANGED <<deliveryVars, dispatched, terminalSeen, cancellationRequested, deadline, killed, forceTimer,
                   exitTaken, toRunner, fromRunner, agentEvents, out, hostVars, mishaps>>

ForkFailed ==
    /\ Ready /\ busy = "fetching" /\ Mishap
    /\ busy' = "reporting"
    /\ out' = EndStatus(Receipt(out), "forget")
    /\ UNCHANGED <<deliveryVars, dispatched, runner, terminalSeen, cancellationRequested, deadline, killed,
                   forceTimer, exitTaken, runnerVars, hostVars>>

ConfigSent ==
    /\ Ready /\ config = "sending"
    /\ config' = "sent"
    /\ out' = Receipt(out)
    /\ UNCHANGED <<deliveryVars, managerVars, proc, toRunner, fromRunner, agentEvents, hostVars, mishaps>>

ConfigNotSent ==
    /\ Ready /\ config = "sending" /\ Mishap
    /\ config' = "failed"
    /\ out' = EndStatus(Receipt(out), "kill")
    /\ UNCHANGED <<deliveryVars, managerVars, proc, toRunner, fromRunner, agentEvents, hostVars>>

(* A cancel reaches the Runner if it can, and arms the deadline.           *)
CancelRun ==
    /\ \E c \in Commands \ {1} : NextCommand(c)
    /\ IF runner # "active"
       THEN /\ out' = Receipt(out)
            /\ UNCHANGED <<cancellationRequested, deadline, toRunner>>
       ELSE /\ cancellationRequested' = TRUE
            /\ deadline' = TRUE
            /\ IF proc = "exited"
               THEN out' = Receipt(out) /\ UNCHANGED toRunner
               ELSE toRunner' = toRunner + 1 /\ UNCHANGED out
    /\ UNCHANGED <<deliveryVars, busy, runner, terminalSeen, killed, forceTimer, exitTaken, proc, config,
                   fromRunner, agentEvents, hostVars, mishaps>>

-----------------------------------------------------------------------------
(* What the manager learns of the Runner, and its timers.                  *)
TakeMessage ==
    /\ Working /\ fromRunner # <<>>
    /\ fromRunner' = Tail(fromRunner)
    /\ IF Head(fromRunner) = "end"
       THEN terminalSeen' = TRUE /\ out' = EndStatus(out, "cleanup")
       ELSE UNCHANGED terminalSeen /\ out' = Receipt(out)
    /\ UNCHANGED <<deliveryVars, dispatched, busy, runner, cancellationRequested, deadline, killed, forceTimer,
                   exitTaken, proc, config, toRunner, agentEvents, hostVars, mishaps>>

(* The exit may overtake the last messages of the process.                 *)
TakeExit ==
    /\ Ready /\ proc = "exited" /\ ~exitTaken
    /\ exitTaken' = TRUE
    /\ out' = IF terminalSeen \/ runner = "cleaned" THEN out ELSE EndStatus(out, "cleanup")
    /\ UNCHANGED <<deliveryVars, dispatched, busy, runner, terminalSeen, cancellationRequested, deadline, killed,
                   forceTimer, runnerVars, hostVars, mishaps>>

DeadlineFires ==
    /\ Ready /\ deadline
    /\ deadline' = FALSE
    /\ IF runner = "cleaned" \/ terminalSeen THEN UNCHANGED <<killed, forceTimer>> ELSE Terminate
    /\ UNCHANGED <<deliveryVars, dispatched, busy, runner, terminalSeen, cancellationRequested, exitTaken,
                   runnerVars, out, hostVars, mishaps>>

ForceKill ==
    /\ Ready /\ forceTimer
    /\ forceTimer' = FALSE
    /\ proc' = IF Alive THEN "exited" ELSE proc
    /\ UNCHANGED <<deliveryVars, dispatched, busy, runner, terminalSeen, cancellationRequested, deadline, killed,
                   exitTaken, config, toRunner, fromRunner, agentEvents, out, hostVars, mishaps>>

(* SIGTERM of the Worker: every active Runner is reported and terminated;  *)
(* the process exits when that has settled or its grace period is over.    *)
ShutDown ==
    /\ StopWorker /\ Mishap
    /\ IF runner = "active"
       THEN terminalSeen' = TRUE /\ out' = EndStatus(out, "kill")
       ELSE UNCHANGED <<terminalSeen, out>>
    /\ UNCHANGED <<dispatched, busy, runner, cancellationRequested, deadline, killed, forceTimer, exitTaken,
                   runnerVars, hostVars>>

ProcessExit == worker = "stopping" /\ Gone /\ UNCHANGED mishaps

-----------------------------------------------------------------------------
(* The Runner process.                                                     *)
Booted ==
    /\ proc = "booting" /\ config = "sent"
    /\ proc' = "running"
    /\ fromRunner' = Append(fromRunner, "event")
    /\ UNCHANGED <<deliveryVars, managerVars, config, toRunner, agentEvents, out, hostVars, mishaps>>

AgentEvent ==
    /\ proc = "running" /\ agentEvents < MaxEvents
    /\ agentEvents' = agentEvents + 1
    /\ fromRunner' = Append(fromRunner, "event")
    /\ UNCHANGED <<deliveryVars, managerVars, proc, config, toRunner, out, hostVars, mishaps>>

(* A command is traced, also by a Runner that has reported its end.        *)
RunnerCommand ==
    /\ proc \in {"running", "ended"} /\ toRunner > 0
    /\ toRunner' = toRunner - 1
    /\ fromRunner' = Append(fromRunner, "event")
    /\ UNCHANGED <<deliveryVars, managerVars, proc, config, agentEvents, out, hostVars, mishaps>>

(* finalize: the agent completed, failed or was cancelled.                 *)
Finalize ==
    /\ proc = "running"
    /\ proc' = "ended"
    /\ fromRunner' = Append(fromRunner, "end")
    /\ UNCHANGED <<deliveryVars, managerVars, config, toRunner, agentEvents, out, hostVars, mishaps>>

(* The process exits after its end, when no configuration comes, and when  *)
(* the Worker is gone.                                                     *)
Over == proc = "ended" \/ (proc = "booting" /\ config = "failed") \* mutant: an orphan goes on
MayQuit == Over \/ (Alive /\ ~Working)

Quit ==
    /\ MayQuit
    /\ proc' = "exited"
    /\ UNCHANGED <<deliveryVars, managerVars, config, toRunner, fromRunner, agentEvents, out, hostVars, mishaps>>

(* It crashes, or SIGTERM ends it.                                         *)
Die ==
    /\ Alive
    /\ (killed /\ UNCHANGED mishaps) \/ Mishap
    /\ proc' = "exited"
    /\ UNCHANGED <<deliveryVars, managerVars, config, toRunner, fromRunner, agentEvents, out, hostVars>>

-----------------------------------------------------------------------------
(* The commands, and the loss of the Worker.                               *)
Local == UNCHANGED <<managerVars, runnerVars, out, hostVars>>
Commanded == SendCommand /\ Local /\ UNCHANGED mishaps
Polled == HandOver /\ Local /\ UNCHANGED mishaps
Evicted == EvictWorker /\ Mishap /\ Local

Posts == \E l \in out.loops : PostOk(l) \/ PostGivesUp(l)

(* What the two event loops, their timers and the network get done.        *)
Due == \/ UserMessage \/ FetchFailed \/ Forked \/ ForkFailed \/ ConfigSent \/ ConfigNotSent \/ CancelRun
       \/ TakeMessage \/ TakeExit \/ DeadlineFires \/ ForceKill \/ ProcessExit \/ Refused
       \/ Quit \/ Posts

Next == \/ Due \/ Commanded \/ Polled \/ Evicted \/ ShutDown \/ Crash
        \/ Booted \/ AgentEvent \/ RunnerCommand \/ Finalize \/ Die
        \/ \E l \in out.loops : PostFails(l)

Spec == Init /\ [][Next]_vars
FairSpec == Spec /\ WF_vars(Due) /\ WF_vars(Polled)

-----------------------------------------------------------------------------
Afters == {"nothing", "cleanup", "kill", "report", "forget"}
Event == [n : Nat, seq : Nat, end : BOOLEAN, after : Afters]

WorkerTypeOK ==
    /\ DeliveryTypeOK
    /\ dispatched \in 0..MaxCommands
    /\ busy \in {"no", "fetching", "reporting"}
    /\ runner \in {"none", "active", "cleaned"}
    /\ {terminalSeen, cancellationRequested, deadline, killed, forceTimer, exitTaken, ended} \subseteq BOOLEAN
    /\ proc \in {"none", "booting", "running", "ended", "exited"}
    /\ config \in {"no", "sending", "sent", "failed"}
    /\ toRunner \in 0..MaxCommands /\ agentEvents \in 0..MaxEvents
    /\ fromRunner \in Seq({"event", "end"})
    /\ out.n \in Nat /\ out.seq \in 0..out.n /\ out.open \in BOOLEAN
    /\ out.queue \in Seq(Event) /\ Len(out.queue) <= QueueMax + Cardinality(out.ends)
    /\ \A l \in out.loops : l.batch \in Seq(Event) /\ l.batch # <<>> /\ l.tries \in 0..MaxRetries
    /\ out.ends \cup out.lost \cup out.dropped \cup heard \subseteq 1..out.n
    /\ cursor \in 0..out.n
    /\ mishaps \in 0..MaxMishaps

(* What the Host need not hear of t: events given up with their POST, and  *)
(* those dropped at the cap, among which is no terminal status.            *)
Excused(t) == t.lost \cup (t.dropped \ t.ends)

(* The Host hears the events of a run in order and without a silent gap:   *)
(* before one that it accepts every other was accepted, given up with its  *)
(* POST or, if it is no terminal status, dropped at the cap.  As long as   *)
(* the POST of no terminal status was given up: the cleanup that follows   *)
(* starts seq again, and the Host takes what comes then for old.           *)
NothingSkipped ==
    out.ends \cap out.lost = {} => \A n \in heard : 1..n \subseteq heard \cup Excused(out)

(* A run leaves the manager only after the Host has a terminal status, or  *)
(* the POST of one was given up.                                           *)
LeavesAfterEnd == runner = "cleaned" => ended \/ out.ends \cap out.lost # {}

(* A cancel that the Host has sent ends the run, however the Runner        *)
(* behaves: the Host gets a terminal status, unless its POST is given up   *)
(* or the Worker itself goes away.                                         *)
CancelEndsTheRun ==
    sent >= 2 ~> ended \/ out.ends \cap out.lost # {} \/ evicted \/ worker # "up"

(* No Runner process is left behind by a run that has left the manager, or *)
(* by a Worker that is gone.                                               *)
RunnerIsReaped == (runner = "cleaned" \/ worker = "down") ~> proc \in {"none", "exited"}
=============================================================================
