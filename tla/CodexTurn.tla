------------------------------ MODULE CodexTurn ------------------------------
(***************************************************************************)
(* One turn of the Codex adapter in a Runner: the adapter starts the       *)
(* app-server, talks JSON-RPC to it over its stdin and stdout, translates  *)
(* its notifications into the AG-UI stream of the run, shows its approval  *)
(* requests one at a time as interrupts and sends it the user's answers    *)
(* (app-server-adapter.ts, approval-bridge.ts, translator.ts, client.ts    *)
(* and codex-app-server-process.ts of the adapters).  The app-server       *)
(* itself is external: docs/codex-app-server.md says what it may write.    *)
(*                                                                         *)
(* The adapter runs on one event loop.  The lines of a chunk of stdout are *)
(* handled one after the other, before any promise continues (reading);    *)
(* then the continuations run in the order they were queued (micro); only  *)
(* then comes another chunk, timer or command (Quiet).  What the app-server*)
(* writes while a chunk is handled is read with a later one.               *)
(***************************************************************************)
EXTENDS Naturals, Sequences

CONSTANTS
    Items,      \* items of the turn: messages, reasoning, tool calls
    Asking,     \* those among them that ask for an approval; it is named by its item
    NoItem,
    MaxAnswers, \* bound of the answers on their way
    MaxUnread,  \* bound of the lines written and not read
    MaxMishaps  \* bound of requests refused, turns failed or interrupted by themselves, processes dead

ASSUME CodexAssumption ==
    Asking \subseteq Items /\ NoItem \notin Items /\ {MaxAnswers, MaxUnread, MaxMishaps} \subseteq Nat

VARIABLES
    (* the app-server *)
    server,   \* it is up; the request it has still to answer; its turn
    work,     \* an item: todo, going, done
    approval, \* an approval: no, asked, answered, settled
    out,      \* lines it has written and the adapter has not read
    (* the event loop *)
    reading,  \* in the middle of a chunk
    micro,    \* continuations
    (* the adapter *)
    phase,    \* what executeRun awaits
    pending,  \* the client's requests that wait for their response
    bridge,   \* ApprovalBridge: pending (slot), queues, resolvedRpcIds
    tracker,  \* the translator: its items, turnTerminal, outputSuppressed
    stop,     \* stopRequested of the Runner; interruptRun: no, ask, grace, over
    killed,   \* terminate has been called
    exitSeen, \* the exit event has been handled
    (* the run's stream and its user *)
    stream,   \* last lifecycle event, items begun and not ended, RUN_ERROR seen,
              \* the interrupt that is shown, the outcome reported at completion
    answers,  \* the user's answers on their way: the interrupt they were given for
    (* history and bound *)
    sent,     \* responses written for an approval
    seen,     \* status of the turn/completed the translator has seen, or none
    mishaps

serverVars == <<server, work, approval, out>>
vars == <<serverVars, reading, micro, phase, pending, bridge, tracker, stop, killed, exitSeen,
          stream, answers, sent, seen, mishaps>>

Setup == {"initialize", "thread", "turn"}
Line(kind, of) == [kind |-> kind, of |-> of]

Init ==
    /\ server = [up |-> TRUE, asked |-> "initialize", turn |-> "none"]
    /\ work = [i \in Items |-> "todo"]
    /\ approval = [q \in Asking |-> "no"]
    /\ out = << >>
    /\ reading = FALSE /\ micro = << >>
    /\ phase = "initialize" /\ pending = {"initialize"}
    /\ bridge = [slot |-> NoItem, queue |-> << >>, resolved |-> {}]
    /\ tracker = [items |-> [i \in Items |-> "no"], terminal |-> FALSE, muted |-> FALSE]
    /\ stop = [asked |-> FALSE, at |-> "no"]
    /\ killed = FALSE /\ exitSeen = FALSE
    /\ stream = [at |-> "idle", open |-> {}, error |-> FALSE, shown |-> NoItem, report |-> "none"]
    /\ answers = << >>
    /\ sent = [q \in Asking |-> 0]
    /\ seen = "none"
    /\ mishaps = 0

Quiet == ~reading /\ micro = << >>
Aborted == stop.at = "over"
Mishap == mishaps < MaxMishaps /\ mishaps' = mishaps + 1

-----------------------------------------------------------------------------
(* The app-server.                                                         *)

AdapterFrame == UNCHANGED <<reading, micro, phase, pending, bridge, tracker, stop, killed,
                            exitSeen, stream, answers, sent, seen>>

Writes == Quiet /\ server.up /\ Len(out) < MaxUnread

(* It answers the request it has got.  The answer to turn/interrupt only   *)
(* acknowledges it.                                                        *)
Reply ==
    /\ Writes /\ server.asked # "none"
    /\ \/ /\ out' = Append(out, Line("response", server.asked))
          /\ server' = [server EXCEPT
                 !.asked = "none",
                 !.turn = CASE server.asked = "turn" -> "running"
                            [] server.asked = "interrupt" /\ @ = "running" -> "interrupting"
                            [] OTHER -> @]
          /\ UNCHANGED mishaps
       \/ /\ Mishap
          /\ out' = Append(out, Line("refusal", server.asked))
          /\ server' = [server EXCEPT !.asked = "none"]
    /\ UNCHANGED <<work, approval>>
    /\ AdapterFrame

(* An item begins and may ask for its approval; answered, it goes on.      *)
StartItem(i) ==
    /\ Writes /\ server.turn = "running" /\ work[i] = "todo"
    /\ work' = [work EXCEPT ![i] = "going"]
    /\ out' = Append(out, Line("started", i))
    /\ UNCHANGED <<server, approval, mishaps>>
    /\ AdapterFrame

AskApproval(q) ==
    /\ Writes /\ server.turn = "running" /\ work[q] = "going" /\ approval[q] = "no"
    /\ approval' = [approval EXCEPT ![q] = "asked"]
    /\ out' = Append(out, Line("request", q))
    /\ UNCHANGED <<server, work, mishaps>>
    /\ AdapterFrame

(* serverRequest/resolved: the approval was answered; or it is cleared,    *)
(* because the turn is at its end or an answer stands for several requests.*)
Settle(q) ==
    /\ Writes
    /\ \/ approval[q] = "answered"
       \/ /\ approval[q] = "asked"
          /\ server.turn = "interrupting" \/ \E p \in Asking : approval[p] = "settled"
    /\ approval' = [approval EXCEPT ![q] = "settled"]
    /\ out' = Append(out, Line("resolved", q))
    /\ UNCHANGED <<server, work, mishaps>>
    /\ AdapterFrame

FinishItem(i) ==
    /\ Writes /\ server.turn \in {"running", "interrupting"} /\ work[i] = "going"
    /\ i \in Asking => approval[i] \in {"no", "settled"}
    /\ work' = [work EXCEPT ![i] = "done"]
    /\ out' = Append(out, Line("completed", i))
    /\ UNCHANGED <<server, approval, mishaps>>
    /\ AdapterFrame

(* It interrupts the turn that nobody has asked it to with turn/interrupt: *)
(* an answer was `cancel`, or for a reason of its own.                     *)
InterruptTurn ==
    /\ Quiet /\ server.up /\ server.turn = "running"
    /\ IF \E q \in Asking : approval[q] = "answered" THEN UNCHANGED mishaps ELSE Mishap
    /\ server' = [server EXCEPT !.turn = "interrupting"]
    /\ UNCHANGED <<work, approval, out>>
    /\ AdapterFrame

(* turn/completed with its status, after every approval is settled.        *)
EndTurn(status) ==
    /\ Writes
    /\ \A q \in Asking : approval[q] \in {"no", "settled"}
    /\ CASE status = "completed"   -> server.turn = "running" /\ (\A i \in Items : work[i] # "going")
                                      /\ UNCHANGED mishaps
         [] status = "interrupted" -> server.turn = "interrupting" /\ UNCHANGED mishaps
         [] status = "failed"      -> server.turn = "running" /\ Mishap
    /\ server' = [server EXCEPT !.turn = "over"]
    /\ out' = Append(out, Line("done", status))
    /\ UNCHANGED <<work, approval>>
    /\ AdapterFrame

(* The process ends: killed, in the end by SIGKILL, or by itself.          *)
Die ==
    /\ Quiet /\ server.up
    /\ IF killed THEN UNCHANGED mishaps ELSE Mishap
    /\ server' = [server EXCEPT !.up = FALSE]
    /\ UNCHANGED <<work, approval, out>>
    /\ AdapterFrame

-----------------------------------------------------------------------------
(* The stream.  Nothing reaches it once it has completed.                  *)

Over == stream.report # "none"

(* closeActiveEvents ends what the translator holds open.                  *)
OpenItems == {i \in Items : tracker.items[i] = "open"}
AllEnded(t) == [t EXCEPT !.items = [i \in Items |-> IF i \in OpenItems THEN "ended" ELSE @[i]]]

(* RUN_FINISHED or RUN_ERROR, after that.                                  *)
Terminated(s, failed) ==
    IF Over THEN s
    ELSE [s EXCEPT !.at = "ended", !.open = @ \ OpenItems, !.error = @ \/ failed]

(* translateProcessExit: RUN_ERROR, unless muted.                          *)
(* (Mutant: no error.)                                                     *)
NoError(s) == s
ExitError(s) == IF tracker.muted THEN s ELSE Terminated(s, TRUE)
ExitTracked == [(IF tracker.muted THEN tracker ELSE AllEnded(tracker)) EXCEPT !.terminal = TRUE]

(* The observable completes; AgentRunOutcome.onComplete decides.           *)
Completed(s) ==
    IF Over THEN s
    ELSE [s EXCEPT !.report = IF stop.asked THEN "cancelled"
                              ELSE IF s.error THEN "error" ELSE "finished"]

-----------------------------------------------------------------------------
(* The approval bridge.                                                    *)

(* register: the slot, or the queue behind it.                             *)
(* (Mutant: the slot, whoever holds it.)                                   *)
TakesSlot == TRUE
SlotIsFree == bridge.slot = NoItem

(* markResolved: the next of the queue gets the slot, and its register     *)
(* goes on.                                                                *)
(* (Mutant: the slot stays.)                                               *)
KeepsSlot(b) == [b EXCEPT !.resolved = @ \cup {b.slot}]
NextInLine(b) == IF b.queue = << >> THEN NoItem ELSE Head(b.queue)
MarkResolved(b) ==
    [slot |-> NextInLine(b), queue |-> IF b.queue = << >> THEN << >> ELSE Tail(b.queue),
     resolved |-> b.resolved \cup {b.slot}]
Dequeued(b) == IF b.queue = << >> THEN << >> ELSE <<Line("dequeued", Head(b.queue))>>

Emptied(b) == [b EXCEPT !.slot = NoItem, !.queue = << >>]

(* A response for an approval.  Nothing follows from one that is written to*)
(* a stdin that is closed: what Node raises then, with no error listener on*)
(* it, is not modelled.                                                    *)
Respond(q) ==
    /\ sent' = [sent EXCEPT ![q] = @ + 1]
    /\ approval' = [approval EXCEPT ![q] = IF @ = "asked" THEN "answered" ELSE @]

-----------------------------------------------------------------------------
(* A line of stdout.  Requests are listened to until drainNotifications is *)
(* awaited no longer, notifications until it is resolved, and before       *)
(* turn/start has been answered neither: such lines are dropped.           *)

ReadLine(kind) ==
    /\ reading \/ Quiet
    /\ out # << >> /\ Head(out).kind \in kind
    /\ out' = Tail(out)
    /\ reading' \in IF Tail(out) = << >> THEN {FALSE} ELSE BOOLEAN
    /\ UNCHANGED <<server, work, approval, stop, killed, exitSeen, answers, sent, mishaps>>

Listening == phase \in {"drain", "drained"}

(* handleResponse: of a request that waits no longer it is ignored.        *)
ReadResponse ==
    LET l == Head(out) IN
    /\ ReadLine({"response", "refusal"})
    /\ IF l.of \in pending
       THEN /\ pending' = pending \ {l.of}
            /\ micro' = Append(micro, l)
       ELSE UNCHANGED <<pending, micro>>
    /\ UNCHANGED <<phase, bridge, tracker, stream, seen>>

(* handleApprovalRequest up to its first await.                            *)
ReadRequest ==
    LET q == Head(out).of IN
    /\ ReadLine({"request"})
    /\ IF ~Listening \/ q \in bridge.resolved
       THEN UNCHANGED <<bridge, micro>>
       ELSE IF SlotIsFree
       THEN /\ bridge' = [bridge EXCEPT !.slot = q]
            /\ micro' = Append(micro, Line("registered", q))
       ELSE /\ bridge' = [bridge EXCEPT !.queue = Append(@, q)]
            /\ UNCHANGED micro
    /\ UNCHANGED <<pending, phase, tracker, stream, seen>>

(* clearByRequestId.  Nobody tells the user: what is shown stays.          *)
ReadResolved ==
    LET q == Head(out).of IN
    /\ ReadLine({"resolved"})
    /\ IF phase = "drain"
       THEN IF bridge.slot = q
            THEN bridge' = MarkResolved(bridge) /\ micro' = micro \o Dequeued(bridge)
            ELSE bridge' = [bridge EXCEPT !.resolved = @ \cup {q}] /\ UNCHANGED micro
       ELSE UNCHANGED <<bridge, micro>>
    /\ UNCHANGED <<pending, phase, tracker, stream, seen>>

(* The handlers of the items: one that is new begins, one that has not been*)
(* ended ends.                                                             *)
Begins(l) == l.kind = "started" /\ tracker.items[l.of] = "no"
Ends(l) == l.kind = "completed" /\ tracker.items[l.of] = "open"

(* translate: nothing after the terminal, and no output when muted.        *)
ReadItem ==
    LET l == Head(out)
        heard == phase = "drain" /\ ~tracker.terminal
        told == heard /\ ~tracker.muted /\ ~Over IN
    /\ ReadLine({"started", "completed"})
    /\ tracker' = CASE heard /\ Begins(l) -> [tracker EXCEPT !.items[l.of] = "open"]
                    [] heard /\ Ends(l)   -> [tracker EXCEPT !.items[l.of] = "ended"]
                    [] OTHER              -> tracker
    /\ stream' = CASE told /\ Begins(l) -> [stream EXCEPT !.open = @ \cup {l.of}]
                   [] told /\ Ends(l)   -> [stream EXCEPT !.open = @ \ {l.of}]
                   [] OTHER             -> stream
    /\ UNCHANGED <<micro, pending, phase, bridge, seen>>

(* turn/completed, the only terminal authority, ends the draining.         *)
ReadDone ==
    /\ ReadLine({"done"})
    /\ IF phase = "drain" /\ ~tracker.terminal
       THEN /\ tracker' = [AllEnded(tracker) EXCEPT !.terminal = TRUE]
            /\ stream' = IF tracker.muted THEN stream ELSE Terminated(stream, Head(out).of = "failed")
            /\ phase' = "drained"
            /\ micro' = Append(micro, Line("drained", NoItem))
            /\ seen' = Head(out).of
       ELSE UNCHANGED <<tracker, stream, phase, micro, seen>>
    /\ UNCHANGED <<pending, bridge>>

-----------------------------------------------------------------------------
(* Continuations.                                                          *)

Continue(kind) ==
    /\ ~reading /\ micro # << >> /\ Head(micro).kind = kind
    /\ UNCHANGED <<work, approval, out, reading, exitSeen, answers, sent, seen, mishaps>>

(* A request goes to the app-server.                                       *)
Ask(m) ==
    /\ pending' = pending \cup {m}
    /\ server' = [server EXCEPT !.asked = m]

(* executeRun after initialize, after thread/start, which lets RUN_STARTED *)
(* follow, and after turn/start, when it begins to listen; interruptRun    *)
(* after turn/interrupt.                                                   *)
Answered ==
    LET m == Head(micro).of IN
    /\ Continue("response")
    /\ micro' = Tail(micro)
    /\ phase' = CASE m = "initialize" -> "thread" [] m = "thread" -> "turn"
                  [] m = "turn" -> "drain" [] OTHER -> phase
    /\ IF m \in {"initialize", "thread"} THEN Ask(phase') ELSE UNCHANGED <<pending, server>>
    /\ stream' = IF m = "thread" /\ ~Over THEN [stream EXCEPT !.at = "running"] ELSE stream
    /\ stop' = IF m = "interrupt" THEN [stop EXCEPT !.at = "grace"] ELSE stop
    /\ UNCHANGED <<bridge, tracker, killed>>

(* A request has failed: the catch of executeRun ends the stream, with a   *)
(* RUN_ERROR unless the run has been stopped.                              *)
Refused ==
    /\ Continue("refusal")
    /\ Head(micro).of \in Setup
    /\ micro' = Tail(micro)
    /\ phase' = "over" /\ killed' = TRUE
    /\ bridge' = Emptied(bridge)
    /\ tracker' = IF Aborted \/ Over THEN tracker ELSE AllEnded(tracker)
    /\ stream' = IF Aborted THEN Completed(stream) ELSE Completed(Terminated(stream, TRUE))
    /\ UNCHANGED <<server, pending, stop>>

(* interruptRun goes on to its forced part when turn/interrupt fails or the*)
(* grace is over: the draining is released and the process terminated.     *)
Release ==
    /\ stop' = [stop EXCEPT !.at = "over"]
    /\ killed' = TRUE
    /\ bridge' = Emptied(bridge)
    /\ phase' = IF phase = "drain" THEN "drained" ELSE phase

Drain == IF phase = "drain" THEN <<Line("drained", NoItem)>> ELSE << >>

InterruptRefused ==
    /\ Continue("refusal")
    /\ Head(micro).of = "interrupt"
    /\ Release
    /\ micro' = Tail(micro) \o Drain
    /\ UNCHANGED <<server, pending, tracker, stream>>

(* The end of executeRun: without a terminal it is an error unless the run *)
(* has been stopped; then what is in finally.                              *)
Drained ==
    LET silent == tracker.terminal \/ Over \/ Aborted IN
    /\ Continue("drained")
    /\ micro' = Tail(micro)
    /\ phase' = "over" /\ killed' = TRUE
    /\ bridge' = Emptied(bridge)
    /\ tracker' = IF silent THEN tracker ELSE ExitTracked
    /\ stream' = Completed(IF silent THEN stream ELSE ExitError(stream))
    /\ UNCHANGED <<server, pending, stop>>

(* register goes on once the request has been dequeued, and returns.       *)
RegisterOn ==
    LET q == Head(micro).of IN
    /\ Continue("dequeued")
    /\ micro' = Append(Tail(micro), Line("registered", q))
    /\ bridge' = [bridge EXCEPT !.slot = q]
    /\ UNCHANGED <<server, phase, pending, tracker, stop, killed, stream>>

(* handleApprovalRequest goes on: the request in the slot is shown.        *)
Show ==
    LET q == Head(micro).of IN
    /\ Continue("registered")
    /\ micro' = Tail(micro)
    /\ IF bridge.slot = q
       THEN /\ tracker' = AllEnded(tracker)
            /\ stream' = IF Over THEN stream ELSE [Terminated(stream, FALSE) EXCEPT !.shown = q]
       ELSE UNCHANGED <<tracker, stream>>
    /\ UNCHANGED <<server, phase, pending, bridge, stop, killed>>

-----------------------------------------------------------------------------
(* Commands, timers and the exit of the process.                           *)

(* The user answers what is shown; the answer travels as approval_resolved *)
(* and carries no interrupt.                                               *)
UserAnswers(q) ==
    /\ Quiet /\ ~Over /\ stream.shown = q
    /\ Len(answers) < MaxAnswers
    /\ answers' = Append(answers, q)
    /\ UNCHANGED <<serverVars, reading, micro, phase, pending, bridge, tracker, stop, killed,
                   exitSeen, stream, sent, seen, mishaps>>

(* resolveApproval: RUN_STARTED, the response to the request in the slot.  *)
ResolveApproval ==
    /\ Quiet /\ answers # << >>
    /\ answers' = Tail(answers)
    /\ IF bridge.slot = NoItem
       THEN UNCHANGED <<stream, bridge, micro, sent, approval>>
       ELSE /\ stream' = IF Over THEN stream ELSE [stream EXCEPT !.at = "running", !.shown = NoItem]
            /\ Respond(bridge.slot)
            /\ bridge' = MarkResolved(bridge)
            /\ micro' = Dequeued(bridge)
    /\ UNCHANGED <<server, work, out, reading, phase, pending, tracker, stop, killed, exitSeen,
                   seen, mishaps>>

(* interruptRun cancels the approval in the slot unless it is resolved.    *)
(* (Mutant: even when there is none.)                                      *)
NotResolved == bridge.slot \notin bridge.resolved
Cancels == bridge.slot \notin bridge.resolved \cup {NoItem}

(* cancel: interruptRun cancels the approval in the slot and mutes the     *)
(* translator, and asks the app-server to interrupt the turn; before the   *)
(* turn has begun, or when it is at its end, it goes to the forced part.   *)
Stop ==
    LET b == IF Cancels THEN MarkResolved(bridge) ELSE bridge
        next == IF Cancels THEN Dequeued(bridge) ELSE << >>
        asks == phase = "drain" /\ ~killed /\ ~exitSeen IN
    /\ Quiet /\ ~stop.asked
    /\ IF Cancels
       THEN /\ Respond(bridge.slot)
            /\ tracker' = [tracker EXCEPT !.muted = TRUE]
       ELSE UNCHANGED <<sent, approval, tracker>>
    /\ IF asks
       THEN /\ Ask("interrupt")
            /\ stop' = [asked |-> TRUE, at |-> "ask"]
            /\ bridge' = b /\ micro' = next
            /\ UNCHANGED <<phase, killed>>
       ELSE /\ stop' = [asked |-> TRUE, at |-> "over"]
            /\ killed' = TRUE
            /\ bridge' = Emptied(b) /\ micro' = next \o Drain
            /\ phase' = IF phase = "drain" THEN "drained" ELSE phase
            /\ UNCHANGED <<pending, server>>
    /\ UNCHANGED <<work, out, reading, exitSeen, stream, answers, seen, mishaps>>

(* waitForTerminal returns: the terminal has come or the grace is over.    *)
GraceOver ==
    /\ Quiet /\ stop.at = "grace"
    /\ Release
    /\ micro' = Drain
    /\ UNCHANGED <<serverVars, reading, pending, tracker, exitSeen, stream, answers, sent, seen,
                   mishaps>>

(* The timer of a request.                                                 *)
RequestTimeout(m) ==
    /\ Quiet /\ m \in pending
    /\ pending' = pending \ {m}
    /\ micro' = <<Line("refusal", m)>>
    /\ UNCHANGED <<serverVars, reading, phase, bridge, tracker, stop, killed, exitSeen, stream,
                   answers, sent, seen, mishaps>>

(* drainNotifications hears of the exit through the client.                *)
(* (Mutant: it does not.)                                                  *)
NotHeard == FALSE
HearsExit == phase = "drain" /\ ~tracker.terminal

(* The exit event, whatever of stdout is still to be read: the client      *)
(* rejects what waits and tells drainNotifications; then executeRun.       *)
Exit ==
    LET unexpected == ~killed /\ ~tracker.terminal /\ ~Over
        refusals == IF pending = {} THEN << >> ELSE <<Line("refusal", CHOOSE m \in pending : TRUE)>> IN
    /\ Quiet /\ ~server.up /\ ~exitSeen
    /\ exitSeen' = TRUE
    /\ pending' = {}
    /\ micro' = refusals \o (IF HearsExit THEN <<Line("drained", NoItem)>> ELSE << >>)
    /\ phase' = IF HearsExit THEN "drained" ELSE phase
    /\ IF unexpected
       THEN /\ tracker' = ExitTracked
            /\ stream' = Completed(ExitError(stream))
            /\ bridge' = Emptied(bridge)
       ELSE UNCHANGED <<tracker, stream, bridge>>
    /\ UNCHANGED <<serverVars, reading, stop, killed, answers, sent, seen, mishaps>>

-----------------------------------------------------------------------------
(* Next-state relation and fairness.                                       *)

AppServer ==
    \/ Reply \/ InterruptTurn \/ Die
    \/ \E i \in Items : StartItem(i) \/ FinishItem(i)
    \/ \E q \in Asking : AskApproval(q) \/ Settle(q)
    \/ \E status \in {"completed", "interrupted", "failed"} : EndTurn(status)

Read == ReadResponse \/ ReadRequest \/ ReadResolved \/ ReadItem \/ ReadDone
Continuation == Answered \/ Refused \/ InterruptRefused \/ Drained \/ RegisterOn \/ Show
Timer == GraceOver \/ \E m \in pending : RequestTimeout(m)
User == Stop \/ \E q \in Asking : UserAnswers(q)

Next == AppServer \/ Read \/ Continuation \/ Timer \/ Exit \/ ResolveApproval \/ User

Spec == Init /\ [][Next]_vars

(* Node reads what is there, runs what is queued, fires what is due; the   *)
(* system tells of an exit, and SIGKILL ends a process.                    *)
FairSpec == Spec /\ WF_vars(Read \/ Continuation \/ Timer \/ Exit) /\ WF_vars(killed /\ Die)

-----------------------------------------------------------------------------
(* Properties.                                                             *)

Requests == Setup \cup {"interrupt"}
Outcomes == {"completed", "interrupted", "failed"}

ServerLine ==
    [kind : {"response", "refusal"}, of : Requests]
        \cup [kind : {"started", "completed"}, of : Items]
        \cup [kind : {"request", "resolved"}, of : Asking]
        \cup [kind : {"done"}, of : Outcomes]

MicroTask ==
    [kind : {"response", "refusal"}, of : Requests]
        \cup [kind : {"registered", "dequeued"}, of : Asking]
        \cup [kind : {"drained"}, of : {NoItem}]

Server == [up : BOOLEAN, asked : Requests \cup {"none"},
           turn : {"none", "running", "interrupting", "over"}]
Bridge == [slot : Asking \cup {NoItem}, queue : Seq(Asking), resolved : SUBSET Asking]
Tracker == [items : [Items -> {"no", "open", "ended"}], terminal : BOOLEAN, muted : BOOLEAN]
Stream == [at : {"idle", "running", "ended"}, open : SUBSET Items, error : BOOLEAN,
           shown : Asking \cup {NoItem}, report : {"none", "finished", "error", "cancelled"}]

(* Every variable has its type: what is read, shown, queued and answered   *)
(* are items and requests of this turn.                                    *)
TypeOK ==
    /\ server \in Server
    /\ work \in [Items -> {"todo", "going", "done"}]
    /\ approval \in [Asking -> {"no", "asked", "answered", "settled"}]
    /\ out \in Seq(ServerLine)
    /\ reading \in BOOLEAN /\ micro \in Seq(MicroTask)
    /\ phase \in {"initialize", "thread", "turn", "drain", "drained", "over"}
    /\ pending \subseteq Requests
    /\ bridge \in Bridge /\ tracker \in Tracker /\ stream \in Stream
    /\ stop \in [asked : BOOLEAN, at : {"no", "ask", "grace", "over"}]
    /\ killed \in BOOLEAN /\ exitSeen \in BOOLEAN
    /\ answers \in Seq(Asking) /\ Len(answers) <= MaxAnswers
    /\ sent \in [Asking -> Nat]
    /\ seen \in Outcomes \cup {"none"}
    /\ mishaps \in 0..MaxMishaps

(* An approval request is answered at most once, by the user's answer or by*)
(* the cancellation, however answers, a stop and the app-server's own      *)
(* serverRequest/resolved cross (idempotency of the approval bridge).      *)
AnsweredOnce == \A q \in Asking : sent[q] <= 1

(* The interrupt the user is shown is the request his answer will go to, or*)
(* one that the app-server has cleared: a request that arrives while       *)
(* another is shown waits in the queue and does not take its place.        *)
ShownIsPending ==
    stream.shown # NoItem /\ ~Over /\ ~Aborted
        => stream.shown \in {bridge.slot} \cup bridge.resolved

(* A run is finished only when its turn/completed has been seen, and not   *)
(* with `failed`: never because a process died, a request or the turn      *)
(* failed or a terminal was lost; and a run that is finished or failed has *)
(* ended every message and tool call it began, across the segments of its  *)
(* interrupts.  A turn interrupted though nobody stopped the Runner is     *)
(* reported finished: AgentRunOutcome asks only for a stop and a RUN_ERROR,*)
(* against 10.1 of docs/agework-codex-app-server-migration.md.             *)
OutcomeIsHeard ==
    /\ stream.report = "finished" => seen \in {"completed", "interrupted"}
    /\ stream.report \in {"finished", "error"} => stream.open = {}

(* A turn that is stopped, has lost its process or has reported its outcome*)
(* comes to its end: the outcome is reported, executeRun returns and the   *)
(* app-server is gone, in whichever phase it was.                          *)
Settles ==
    stop.asked \/ ~server.up \/ stream.report # "none"
        ~> stream.report # "none" /\ ~server.up /\ phase = "over"
=============================================================================
