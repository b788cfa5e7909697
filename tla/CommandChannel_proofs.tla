----------------------- MODULE CommandChannel_proofs -----------------------
(***************************************************************************)
(* Every command reaches the Worker's handler once and in order, none is   *)
(* lost, and the mailbox with the poll loop implements CommandDelivery:    *)
(* for any number of commands and of lost polls, and any dedupe window.    *)
(***************************************************************************)
EXTENDS CommandChannel, TLAPS

(* The cursor is what was handed over, until the answer to an eviction     *)
(* sets it back; after that no poll is made.                               *)
CursorIsPast ==
    /\ commandSeq <= sent
    /\ queueEpoch # 1 /\ worker = "up" =>
         \A c \in Commands : times[c] = IF c <= commandSeq THEN 1 ELSE 0
    /\ queueEpoch # 1 => \A c \in processed : c <= commandSeq
    /\ queueEpoch = 1 => evicted /\ poll.at = "none"

(* What an answer brings follows the cursor.                               *)
PollIsNext ==
    poll.at # "none" =>
        /\ poll.after = commandSeq
        /\ commandSeq <= poll.upTo /\ poll.upTo <= sent
        /\ poll.at = "waiting" => ~evicted
        /\ poll.epoch = 1 => evicted /\ poll.upTo = poll.after

(* The mailbox has dropped no more than the cursor acknowledges.           *)
MailboxKeeps ==
    /\ epoch = IF evicted THEN 1 ELSE 0
    /\ ~evicted => dropped <= commandSeq /\ \A a \in late : a <= commandSeq

IInv == /\ ChannelTypeOK /\ times \in [Commands -> 0..1] /\ CommandsOnceInOrder
        /\ CursorIsPast /\ PollIsNext /\ MailboxKeeps

LEMMA InitInv == ChannelInit => IInv
  <1> SUFFICES ASSUME ChannelInit PROVE IInv
    OBVIOUS
  <1> USE ChannelAssumption DEF ChannelInit, NoPoll, NoEpoch
  <1>1. \A c \in Commands : times[c] = 0 /\ c > 0
    BY DEF Commands
  <1>2. times \in [Commands -> 0..1] /\ times \in [Commands -> Nat]
    OBVIOUS
  <1>3. ChannelTypeOK
    <2>1. 0 \in 0..MaxCommands /\ 0 \in 0..(WindowPolls - 1) /\ 0 \in 0..MaxLostPolls
      OBVIOUS
    <2>2. poll \in [at : {"none", "waiting", "answered"},
                    after : 0..MaxCommands, upTo : 0..MaxCommands, epoch : 0..1]
      BY <2>1
    <2> QED BY <1>2, <2>1, <2>2 DEF ChannelTypeOK
  <1>4. CommandsOnceInOrder
    BY <1>1 DEF CommandsOnceInOrder
  <1>5. CursorIsPast
    BY <1>1 DEF CursorIsPast, Commands
  <1>6. PollIsNext /\ MailboxKeeps
    BY DEF PollIsNext, MailboxKeeps
  <1> QED BY <1>2, <1>3, <1>4, <1>5, <1>6 DEF IInv

(* Taking an answer hands over exactly the commands up to poll.upTo.       *)
LEMMA TakeHandsOver ==
  ASSUME IInv, TakeCommands
  PROVE  /\ queueEpoch # 1
         /\ commandSeq' = poll.upTo
         /\ times' \in [Commands -> 0..1]
         /\ worker = "up" => \A c \in Commands : times'[c] = IF c <= poll.upTo THEN 1 ELSE 0
         /\ worker # "up" => times' = times
         /\ processed' \subseteq Commands
         /\ worker = "up" => \A c \in processed' : c <= poll.upTo
         /\ pollIterations' \in 0..(WindowPolls - 1)
  <1> USE ChannelAssumption DEF Commands
  <1>1. /\ queueEpoch # 1 /\ poll.after = commandSeq
        /\ poll.after \in Nat /\ poll.upTo \in Nat /\ commandSeq \in Nat /\ commandSeq <= poll.upTo
    BY ChannelAssumption DEF IInv, CursorIsPast, PollIsNext, TakeCommands, ChannelTypeOK
  <1>2. commandSeq' = poll.upTo
    BY <1>1 DEF TakeCommands, Advanced
  <1>3. Window \subseteq Commands /\ \A c \in Window : c <= commandSeq
    BY <1>1 DEF Window, IInv, CursorIsPast, ChannelTypeOK
  <1>4. Handed = {c \in Commands : commandSeq < c /\ c <= poll.upTo}
    BY <1>1, <1>3 DEF Handed
  <1>5. CASE worker = "up"
    <2>1. times' = [c \in Commands |-> IF c \in Handed THEN times[c] + 1 ELSE times[c]]
      BY <1>5 DEF TakeCommands, Handles
    <2>2. \A c \in Commands : times[c] = IF c <= commandSeq THEN 1 ELSE 0
      BY <1>1, <1>5 DEF IInv, CursorIsPast
    <2>3. \A c \in Commands : times'[c] = IF c <= poll.upTo THEN 1 ELSE 0
      BY <1>1, <1>4, <2>1, <2>2
    <2>4. times' \in [Commands -> 0..1]
      <3> DEFINE f == [c \in Commands |-> IF c <= poll.upTo THEN 1 ELSE 0]
      <3>1. times' = f BY <2>1, <2>3
      <3>2. f \in [Commands -> 0..1] OBVIOUS
      <3> QED BY <3>1, <3>2
    <2>5. processed' = Window \cup Handed
      BY <1>5 DEF TakeCommands, Handles
    <2>6. processed' \subseteq Commands /\ \A c \in processed' : c <= poll.upTo
      <3>1. \A c \in Window : c \in Int /\ c <= poll.upTo
        BY <1>1, <1>3
      <3>2. \A c \in Handed : c <= poll.upTo
        BY <1>4
      <3>3. Handed \subseteq Commands
        BY <1>4
      <3> QED BY <1>3, <2>5, <3>1, <3>2, <3>3
    <2>7. pollIterations' \in 0..(WindowPolls - 1)
      BY <1>5, ChannelAssumption DEF TakeCommands, Handles, CountPoll, WindowOver, IInv, ChannelTypeOK
    <2> QED BY <1>1, <1>2, <1>5, <2>3, <2>4, <2>6, <2>7
  <1>6. CASE worker # "up"
    BY <1>1, <1>2, <1>6 DEF TakeCommands, Handles, IInv, ChannelTypeOK
  <1> QED BY <1>5, <1>6

LEMMA StepInv == IInv /\ [ChannelNext]_channelVars => IInv'
  <1> SUFFICES ASSUME IInv, [ChannelNext]_channelVars PROVE IInv'
    OBVIOUS
  <1>0. ASSUME TakeCommands
        PROVE  /\ queueEpoch # 1
               /\ commandSeq' = poll.upTo
               /\ times' \in [Commands -> 0..1]
               /\ worker = "up" => \A c \in Commands : times'[c] = IF c <= poll.upTo THEN 1 ELSE 0
               /\ worker # "up" => times' = times
               /\ processed' \subseteq Commands
               /\ worker = "up" => \A c \in processed' : c <= poll.upTo
               /\ pollIterations' \in 0..(WindowPolls - 1)
    BY <1>0, TakeHandsOver
  <1> USE ChannelAssumption
      DEF IInv, ChannelTypeOK, CommandsOnceInOrder, CursorIsPast, PollIsNext, MailboxKeeps, Commands, NoPoll,
          NoEpoch, mailboxVars, cursorVars
  <1>1. CASE Enqueue BY <1>1 DEF Enqueue, Answer
  <1>2. CASE Poll BY <1>2 DEF Poll, Dropped
  <1>3. CASE WaitOver BY <1>3 DEF WaitOver, Answer
  <1>4. CASE StartOver BY <1>4 DEF StartOver, EpochChanged
  <1>5. CASE TakeCommands
    <2>1. /\ UNCHANGED <<sent, dropped, evicted, epoch, late, worker, lostPolls>>
          /\ poll' = NoPoll /\ queueEpoch' = poll.epoch
          /\ poll.at = "answered"
      BY <1>5 DEF TakeCommands
    <2>2. ChannelTypeOK' /\ (times \in [Commands -> 0..1])'
      <3>1. commandSeq' \in 0..MaxCommands /\ queueEpoch' \in {NoEpoch, 0, 1}
        BY <1>5, <2>1, <1>0
      <3>2. times' \in [Commands -> 0..1] /\ processed' \subseteq Commands /\ pollIterations' \in 0..(WindowPolls - 1)
        BY <1>5, <1>0
      <3>3. times' \in [Commands -> Nat]
        BY <3>2
      <3>4. poll' \in [at : {"none", "waiting", "answered"},
                      after : 0..MaxCommands, upTo : 0..MaxCommands, epoch : 0..1]
        BY <2>1
      <3> HIDE DEF CommandsOnceInOrder, CursorIsPast, PollIsNext, MailboxKeeps
      <3> QED BY <2>1, <3>1, <3>2, <3>3, <3>4
    <2>3. CommandsOnceInOrder'
      <3>1. CASE worker = "up"
        <4>1. \A c \in Commands : times'[c] = IF c <= poll.upTo THEN 1 ELSE 0
          BY <1>5, <1>0, <3>1
        <4>2. poll.upTo <= sent /\ poll.upTo \in Nat /\ sent' = sent /\ sent \in Nat
          BY <2>1
        <4>3. \A c \in Commands : times'[c] <= 1 /\ (times'[c] = 1 => c <= poll.upTo)
          BY <4>1
        <4>4. \A c \in Commands : c <= poll.upTo => \A d \in 1..c : times'[d] = 1
          BY <4>1, <4>2
        <4> HIDE DEF IInv, ChannelTypeOK, CursorIsPast, PollIsNext, MailboxKeeps
        <4> QED BY <4>2, <4>3, <4>4
      <3>2. CASE worker # "up" BY <1>5, <1>0, <2>1, <3>2
      <3> QED BY <3>1, <3>2
    <2>4. CursorIsPast'
      <3>1. worker' = "up" => \A c \in processed' : c <= commandSeq'
        BY <1>5, <2>1, <1>0
      <3>2. worker # "up" => processed' = processed
        BY <1>5 DEF TakeCommands, Handles
      <3>3. commandSeq <= poll.upTo /\ poll.upTo <= sent
        BY <2>1
      <3>4. queueEpoch # 1 /\ commandSeq' = poll.upTo
        BY <1>5, <1>0
      <3>5. \A c \in processed' : c <= commandSeq'
        <4>1. CASE worker = "up" BY <2>1, <3>1, <4>1
        <4>2. CASE worker # "up"
          <5> TAKE c \in processed'
          <5>1. c \in Commands /\ c <= commandSeq
            BY <3>2, <3>4, <4>2
          <5>2. commandSeq \in Int /\ poll.upTo \in Int /\ c \in Int
            BY <5>1, <1>5 DEF TakeCommands
          <5> QED BY <3>3, <3>4, <5>1, <5>2
        <4> QED BY <4>1, <4>2
      <3>6. worker' = "up" => \A c \in Commands : times'[c] = IF c <= commandSeq' THEN 1 ELSE 0
        BY <1>5, <2>1, <1>0
      <3>7. queueEpoch' = 1 => evicted' /\ poll'.at = "none"
        BY <2>1
      <3>8. commandSeq' <= sent'
        BY <2>1, <3>3, <3>4
      <3> QED BY <3>5, <3>6, <3>7, <3>8
    <2>5. PollIsNext' BY <2>1
    <2>6. MailboxKeeps' BY <1>5, <2>1, <1>0
    <2> QED BY <2>2, <2>3, <2>4, <2>5, <2>6
  <1>6. CASE Refused BY <1>6 DEF Refused
  <1>7. CASE ArriveLate BY <1>7 DEF ArriveLate, Dropped
  <1>8. CASE PollFails
    <2>1. /\ processed' \subseteq processed /\ pollIterations' \in 0..(WindowPolls - 1)
          /\ late' = late \cup {commandSeq} /\ lostPolls' \in 0..MaxLostPolls
      BY <1>8 DEF PollFails, Window, CountPoll, WindowOver
    <2>2. UNCHANGED <<sent, dropped, evicted, epoch, commandSeq, queueEpoch, times, worker>> /\ poll' = NoPoll
      BY <1>8 DEF PollFails
    <2>3. ChannelTypeOK'
      BY <2>1, <2>2
    <2>4. CommandsOnceInOrder' /\ PollIsNext'
      BY <2>2
    <2>5. CursorIsPast'
      BY <2>1, <2>2
    <2>6. MailboxKeeps'
      BY <2>1, <2>2
    <2> QED BY <2>2, <2>3, <2>4, <2>5, <2>6
  <1>9. CASE Evict BY <1>9 DEF Evict, Answer
  <1>10. CASE Shutdown BY <1>10 DEF Shutdown
  <1>11. CASE Exit BY <1>11 DEF Exit
  <1>12. CASE UNCHANGED channelVars BY <1>12 DEF channelVars
  <1> QED BY <1>1, <1>2, <1>3, <1>4, <1>5, <1>6, <1>7, <1>8, <1>9, <1>10, <1>11, <1>12 DEF ChannelNext, PollStep

THEOREM ChannelInvariant == ChannelSpec => []IInv
  BY InitInv, StepInv, PTL DEF ChannelSpec

(* Both ends of the way of a command keep their types.                     *)
THEOREM ChannelTyped == ChannelSpec => []ChannelTypeOK
  <1>1. IInv => ChannelTypeOK BY DEF IInv
  <1> QED BY <1>1, ChannelInvariant, PTL

(* A command is never handled twice, nor before an earlier one.            *)
THEOREM HandledOnceInOrder == ChannelSpec => []CommandsOnceInOrder
  <1>1. IInv => CommandsOnceInOrder BY DEF IInv
  <1> QED BY <1>1, ChannelInvariant, PTL

(* What the mailbox drops was handed over.                                 *)
THEOREM NothingIsLost == ChannelSpec => []NoCommandIsLost
  <1>1. IInv => NoCommandIsLost
    BY ChannelAssumption
    DEF IInv, ChannelTypeOK, CursorIsPast, MailboxKeeps, NoCommandIsLost, Commands
  <1> QED BY <1>1, ChannelInvariant, PTL

(* Each step of the mailbox or of the poll loop is one of CommandDelivery  *)
(* or leaves its variables alone.                                          *)
LEMMA StepRefines == IInv /\ [ChannelNext]_channelVars => [Delivery!DeliveryNext]_(Delivery!deliveryVars)
  <1> SUFFICES ASSUME IInv, [ChannelNext]_channelVars
               PROVE  Delivery!DeliveryNext \/ UNCHANGED <<sent, evicted, times, worker>>
    BY DEF Delivery!deliveryVars
  <1> USE DEF mailboxVars, cursorVars
  <1>1. CASE Enqueue
    BY <1>1 DEF Enqueue, Delivery!DeliveryNext, Delivery!SendCommand
  <1>2. CASE TakeCommands
    <2>1. UNCHANGED <<sent, evicted, worker>> /\ times \in [Commands -> 0..1]
      BY <1>2 DEF TakeCommands, IInv
    <2>2. CASE worker # "up"
      BY <1>2, <2>1, <2>2, TakeHandsOver
    <2>3. CASE worker = "up"
      <3>1. /\ commandSeq \in Nat /\ poll.upTo \in Nat /\ sent \in Nat
            /\ commandSeq <= poll.upTo /\ poll.upTo <= sent /\ sent <= MaxCommands
            /\ \A c \in Commands : times[c] = IF c <= commandSeq THEN 1 ELSE 0
        BY <1>2, <2>3, TakeHandsOver, ChannelAssumption
        DEF IInv, PollIsNext, ChannelTypeOK, CursorIsPast, TakeCommands
      <3>2. /\ \A c \in Commands : times'[c] = IF c <= poll.upTo THEN 1 ELSE 0
            /\ times' \in [Commands -> 0..1]
        BY <1>2, <2>3, TakeHandsOver
      <3>3. times' = [c \in Commands |-> IF c <= poll.upTo THEN 1 ELSE times[c]]
        BY <3>1, <3>2 DEF Commands
      <3>4. CASE poll.upTo = commandSeq
        BY <2>1, <3>1, <3>2, <3>4
      <3>5. CASE poll.upTo # commandSeq
        <4>1. poll.upTo \in 1..sent /\ times[poll.upTo] = 0
          BY <3>1, <3>5, ChannelAssumption DEF Commands
        <4>2. Delivery!HandOver
          BY <2>1, <2>3, <3>3, <4>1 DEF Delivery!HandOver, Delivery!Commands, Commands
        <4> QED BY <4>2 DEF Delivery!DeliveryNext
      <3> QED BY <3>4, <3>5
    <2> QED BY <2>2, <2>3
  <1>3. CASE Evict
    BY <1>3 DEF Evict, Delivery!DeliveryNext, Delivery!EvictWorker
  <1>4. CASE Shutdown
    BY <1>4 DEF Shutdown, Delivery!DeliveryNext, Delivery!StopWorker
  <1>5. CASE Exit
    BY <1>5 DEF Exit, Delivery!DeliveryNext, Delivery!ExitWorker
  <1>6. CASE Refused
    BY <1>6 DEF Refused, Delivery!DeliveryNext, Delivery!ExitWorker
  <1>7. CASE Poll \/ WaitOver \/ StartOver \/ ArriveLate \/ PollFails \/ UNCHANGED channelVars
    BY <1>7 DEF Poll, WaitOver, StartOver, ArriveLate, PollFails, channelVars
  <1> QED BY <1>1, <1>2, <1>3, <1>4, <1>5, <1>6, <1>7 DEF ChannelNext, PollStep

(* The mailbox and the poll loop implement the delivery of commands.       *)
THEOREM ChannelIsDelivery == ChannelSpec => IsDelivery
  <1>1. ChannelInit => Delivery!DeliveryInit
    BY DEF ChannelInit, Delivery!DeliveryInit, Delivery!Commands, Commands
  <1> QED BY <1>1, StepRefines, ChannelInvariant, PTL DEF ChannelSpec, IsDelivery, Delivery!DeliverySpec
=============================================================================
