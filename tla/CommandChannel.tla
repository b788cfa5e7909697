-------------------------- MODULE CommandChannel --------------------------
(***************************************************************************)
(* The way of a command from the Runtime Host to a Worker: the Worker's    *)
(* mailbox on the Host (apps/runtime/src/host/command-mailbox.ts) and the  *)
(* Worker's poll loop (apps/runtime/src/worker: transport/worker-http.ts,  *)
(* commands.ts).                                                           *)
(*                                                                         *)
(* Commands are named by their sequence number.  A mailbox is the list of  *)
(* the commands above the highest afterSeq a poll has brought, so that     *)
(* number stands for it.  The Worker has one poll under way; the requests  *)
(* it has given up may still reach the Host.                               *)
(***************************************************************************)
EXTENDS Integers

CONSTANTS MaxCommands,  \* bound of the commands the Host sends
          MaxLostPolls, \* bound of the polls that fail
          WindowPolls   \* dedupeClearEveryPolls

ASSUME ChannelAssumption ==
    MaxCommands \in Nat /\ MaxLostPolls \in Nat /\ WindowPolls \in Nat \ {0}

VARIABLES
    sent,       \* commandSeqs: the commands enqueued so far
    dropped,    \* the mailbox holds the commands dropped+1..sent
    evicted,    \* the Host has removed the Worker, its token and its mailbox
    epoch,      \* queueEpoch of the mailbox
    poll,       \* the poll under way
    late,       \* afterSeq of the polls that were given up
    commandSeq, \* the Worker's cursor
    queueEpoch, \* the epoch of the last answer, none before the first
    processed,  \* processedCommands, the dedupe window
    pollIterations,
    times,      \* how often each command was handed to the handler
    worker,     \* the Worker process: up, stopping, down
    lostPolls

mailboxVars == <<sent, dropped, evicted, epoch>>
cursorVars == <<commandSeq, queueEpoch, processed, pollIterations, times>>
channelVars == <<mailboxVars, poll, late, cursorVars, worker, lostPolls>>

Commands == 1..MaxCommands
NoEpoch == -1
NoPoll == [at |-> "none", after |-> 0, upTo |-> 0, epoch |-> 0]

ChannelInit ==
    /\ sent = 0 /\ dropped = 0 /\ evicted = FALSE /\ epoch = 0
    /\ poll = NoPoll /\ late = {}
    /\ commandSeq = 0 /\ queueEpoch = NoEpoch /\ processed = {} /\ pollIterations = 0
    /\ times = [c \in Commands |-> 0]
    /\ worker = "up"
    /\ lostPolls = 0

(* pollImmediate: a poll takes the commands it acknowledges off the list.  *)
DroppedAtAnswer(after) == sent \* mutant: taken off when they are answered
Dropped(after) == IF after > dropped THEN after ELSE dropped

Answer(upTo, e) == [at |-> "answered", after |-> poll.after, upTo |-> upTo, epoch |-> e]

(* A command is pushed, and answers the poll that waits for one.           *)
Enqueue ==
    /\ ~evicted /\ sent < MaxCommands
    /\ sent' = sent + 1
    /\ poll' = IF poll.at = "waiting" THEN Answer(sent + 1, epoch) ELSE poll
    /\ UNCHANGED <<dropped, evicted, epoch, late, cursorVars, worker, lostPolls>>

(* A poll reaches the Host: answered when there are commands, left waiting *)
(* otherwise.                                                              *)
Poll ==
    /\ worker = "up" /\ poll.at = "none" /\ ~evicted
    /\ dropped' = Dropped(commandSeq)
    /\ poll' = [at |-> IF sent > dropped' THEN "answered" ELSE "waiting",
                after |-> dropped', upTo |-> sent, epoch |-> epoch]
    /\ UNCHANGED <<sent, evicted, epoch, late, cursorVars, worker, lostPolls>>

(* It is refused with 410 when the Worker is not known any more; the       *)
(* process exits.                                                          *)
Refused ==
    /\ worker = "up" /\ poll.at = "none" /\ evicted
    /\ worker' = "down"
    /\ UNCHANGED <<mailboxVars, poll, late, cursorVars, lostPolls>>

(* A poll that the Worker has given up reaches the Host.                   *)
ArriveLate ==
    /\ ~evicted
    /\ \E after \in late : dropped' = Dropped(after)
    /\ UNCHANGED <<sent, evicted, epoch, poll, late, cursorVars, worker, lostPolls>>

WaitOver ==
    /\ poll.at = "waiting"
    /\ poll' = Answer(poll.after, epoch)
    /\ UNCHANGED <<mailboxVars, late, cursorVars, worker, lostPolls>>

(* Every poll of the loop counts; the dedupe window is emptied every       *)
(* WindowPolls polls.                                                      *)
WindowOverLate == pollIterations >= WindowPolls \* mutant: one poll too late
WindowOver == pollIterations + 1 >= WindowPolls
Window == IF WindowOver THEN {} ELSE processed
CountPoll == pollIterations' = IF WindowOver THEN 0 ELSE pollIterations + 1

(* The connection breaks or the request times out, before or after the     *)
(* Host has seen it; the loop asks again.                                  *)
PollFails ==
    /\ worker = "up" /\ lostPolls < MaxLostPolls
    /\ late' = late \cup {commandSeq}
    /\ poll' = NoPoll
    /\ processed' = Window /\ CountPoll
    /\ lostPolls' = lostPolls + 1
    /\ UNCHANGED <<mailboxVars, commandSeq, queueEpoch, times, worker>>

(* The Host removes the Worker (WorkerRegistry.evict): a waiting poll is   *)
(* answered empty, under the epoch of a new mailbox.                       *)
Evict ==
    /\ ~evicted
    /\ evicted' = TRUE
    /\ epoch' = epoch + 1
    /\ poll' = IF poll.at = "waiting" THEN Answer(poll.after, epoch + 1) ELSE poll
    /\ UNCHANGED <<sent, dropped, late, cursorVars, worker, lostPolls>>

(* The Worker takes the answer.  Another epoch than the last one sets the  *)
(* cursor back and polls again.                                            *)
EpochChanged == queueEpoch # NoEpoch /\ poll.epoch # queueEpoch

StartOver ==
    /\ poll.at = "answered" /\ worker # "down" /\ EpochChanged
    /\ queueEpoch' = poll.epoch
    /\ commandSeq' = 0
    /\ poll' = NoPoll
    /\ UNCHANGED <<mailboxVars, late, processed, pollIterations, times, worker, lostPolls>>

(* Otherwise the commands above the cursor are handed to the handler, but  *)
(* for those of the dedupe window.  A Worker that is stopping handles no   *)
(* more commands.                                                          *)
Advanced == IF poll.upTo > commandSeq THEN poll.upTo ELSE commandSeq
HandlesAlways == worker # "down" \* mutant: a stopping Worker goes on
Handles == worker = "up"
Handed == {c \in Commands : poll.after < c /\ c <= poll.upTo} \ Window

TakeCommands ==
    /\ poll.at = "answered" /\ worker # "down" /\ ~EpochChanged
    /\ queueEpoch' = poll.epoch
    /\ commandSeq' = Advanced
    /\ IF Handles
       THEN /\ times' = [c \in Commands |-> IF c \in Handed THEN times[c] + 1 ELSE times[c]]
            /\ processed' = Window \cup Handed
            /\ CountPoll
       ELSE UNCHANGED <<times, processed, pollIterations>>
    /\ poll' = NoPoll
    /\ UNCHANGED <<mailboxVars, late, worker, lostPolls>>

(* SIGTERM, and the end of the process.                                    *)
Shutdown ==
    /\ worker = "up"
    /\ worker' = "stopping"
    /\ UNCHANGED <<mailboxVars, poll, late, cursorVars, lostPolls>>

Exit ==
    /\ worker # "down"
    /\ worker' = "down"
    /\ UNCHANGED <<mailboxVars, poll, late, cursorVars, lostPolls>>

PollStep == Poll \/ WaitOver \/ StartOver \/ TakeCommands \/ Refused

ChannelNext == PollStep \/ Enqueue \/ ArriveLate \/ PollFails \/ Evict \/ Shutdown \/ Exit

ChannelSpec == ChannelInit /\ [][ChannelNext]_channelVars

(* The poll loop goes on as long as the process lives, and the Host lets   *)
(* no poll wait for ever.                                                  *)
FairChannel == ChannelSpec /\ WF_channelVars(PollStep)

-----------------------------------------------------------------------------
ChannelTypeOK ==
    /\ sent \in 0..MaxCommands /\ dropped \in 0..MaxCommands
    /\ evicted \in BOOLEAN /\ epoch \in 0..1
    /\ poll \in [at : {"none", "waiting", "answered"},
                 after : 0..MaxCommands, upTo : 0..MaxCommands, epoch : 0..1]
    /\ late \subseteq 0..MaxCommands
    /\ commandSeq \in 0..MaxCommands
    /\ queueEpoch \in {NoEpoch, 0, 1}
    /\ processed \subseteq Commands /\ pollIterations \in 0..(WindowPolls - 1)
    /\ times \in [Commands -> Nat]
    /\ worker \in {"up", "stopping", "down"}
    /\ lostPolls \in 0..MaxLostPolls

(* A command reaches the handler of the Worker at most once and after all  *)
(* the earlier ones, whichever polls are lost, late or answered twice, and *)
(* although the dedupe window is emptied.                                  *)
CommandsOnceInOrder ==
    \A c \in Commands :
        /\ times[c] <= 1
        /\ times[c] = 1 => c <= sent /\ \A d \in 1..c : times[d] = 1

(* A command that the Host has sent stays available until it is handed     *)
(* over, as long as the Host knows the Worker and the Worker polls.        *)
NoCommandIsLost ==
    ~evicted /\ worker = "up" =>
        \A c \in 1..sent : times[c] = 1 \/ c > dropped

(* The commands arrive at the latest when polls stop failing.              *)
CommandsArrive ==
    \A c \in Commands : sent >= c ~> times[c] > 0 \/ evicted \/ worker # "up"

(* The mailbox and the poll loop implement the delivery that Worker builds *)
(* on.                                                                     *)
Delivery == INSTANCE CommandDelivery
IsDelivery == Delivery!DeliverySpec
=============================================================================
