---------------------------- MODULE RunLifecycle ----------------------------
(***************************************************************************)
(* The run core of the API server (apps/server/src/run): how the runs of   *)
(* one conversation are claimed, created, registered, submitted to a       *)
(* Runtime Host, moved by status messages, stopped, timed out, reaped and  *)
(* recovered after a restart.                                              *)
(*                                                                         *)
(* The server is one Node process.  Code between two awaits is atomic, and *)
(* everything that waits for the database, a Host or a timer may interleave*)
(* with everything else.  Each asynchronous routine of the code is a       *)
(* process here (a member of Procs) whose `task` record holds its program  *)
(* counter and the values it captured before its last await.  What one     *)
(* action does is what the code does between two awaits; a database call   *)
(* takes effect in the action that ends its await.                         *)
(*                                                                         *)
(* The row of a run, the conversation and the assistant message are        *)
(* durable; the live handle, the finalization guard, the sequence gate and *)
(* the timers are lost in a crash.                                         *)
(***************************************************************************)
EXTENDS Naturals, Sequences, FiniteSets

CONSTANTS
  Runs,        \* runs requested for the one conversation
  Stops,       \* calls of RunService.stop by users and delete cascades
  None,        \* no run, no pending action
  Env,         \* which parts of the environment act, see EnvFeatures
  MaxMsgs,     \* bound: messages a worker produces for a run
  MaxFaults,   \* bound: database calls and Host commands that fail
  MaxCrashes,  \* bound: crashes of the server
  MaxReaps     \* bound: reaps and sweeps of a Host declared dead

(***************************************************************************)
(* early:  users may press stop, or a Host may be reaped, while a launch   *)
(*         stands between its claim and its registration;                  *)
(* steer:  a launch may interrupt the active run (user_steered);           *)
(* ask:    a worker may ask the user (requires_action);                    *)
(* timeout, notify: the run timer fires, the Host reports a failure;       *)
(* builtin: the Host is the one inside the server, whose workers post to   *)
(*         it over HTTP: a POST may time out and be sent again while the   *)
(*         first is still being processed, a message is given up after a   *)
(*         few attempts, and notifications are not ordered with messages.  *)
(*         Without it the Host is registered: one chain per run orders all *)
(*         that it sends, and retries until the server has answered;       *)
(* expire: the five minutes for which a completed run is remembered pass.  *)
(***************************************************************************)
EnvFeatures ==
  {"early", "steer", "ask", "timeout", "notify", "builtin", "expire"}

ASSUME ConstantsAssumption ==
  /\ None \notin Runs
  /\ None \notin Stops
  /\ Env \subseteq EnvFeatures
  /\ MaxMsgs \in Nat
  /\ MaxFaults \in Nat
  /\ MaxCrashes \in Nat
  /\ MaxReaps \in Nat

-----------------------------------------------------------------------------
(* Statuses and messages *)

RunningMutable == {"queued", "running", "requires_action"}
Active == RunningMutable \cup {"cancelling"}
Terminal == {"finished", "error", "cancelled"}

(* Messages a worker posts.  "ask" is requires_action with a pendingAction,
   "answered" is running with pendingAction null, "agui" any agui event that
   ends in a boundary save. *)
WorkerMsgs == {"running", "agui", "ask", "answered"} \cup Terminal

(* What an apply in progress is applying. *)
Applied == WorkerMsgs \ {"agui"}

StatusOf(m) == CASE m = "ask"      -> "requires_action"
                 [] m = "answered" -> "running"
                 [] OTHER          -> m

(* The levels at which the assistant message of a run is stored: a partial
   snapshot, a snapshot closed with a reason, the complete answer. *)
MsgLevels == {"none", "partial", "incomplete", "complete"}

Procs ==
  ({"launch", "upstream", "repost", "timeout", "notify"} \X Runs)
    \cup ({"stop"} \X Stops) \cup {<<"recovery", None>>}

Kind(p) == p[1]
Recovery == <<"recovery", None>>

ApplyPcs == {"persist", "partial", "pending", "project", "save", "finish"}
LaunchPcs == {"create", "failclaim", "register", "submit", "handoff", "reclaim"}
StopPcs == {"find", "found", "cancelling", "command", "endresponse", "reconcile"}
Pcs == ApplyPcs \cup LaunchPcs \cup StopPcs
         \cup {"idle", "force", "next", "agui", "return", "failed", "done"}

-----------------------------------------------------------------------------
VARIABLES
  (* the database *)
  row,        \* Run.status of every run, "absent" before the row exists
  created,    \* the runs in order of their createdAt
  conv,       \* Conversation: runStatus, activeRunId, pendingUserAction
  msg,        \* level at which the assistant message of a run is stored
  (* memory of the server process *)
  handles,    \* LiveRunRegistry.handles
  timers,     \* LiveRunRegistry.timeoutTimers
  stopReq,    \* runs whose handle has stopRequested
  parts,      \* runs whose aggregator holds some part
  finalizing, \* RunFinalizationStore.finalizingRuns
  completed,  \* RunFinalizationStore.completedRuns
  lastSeq,    \* UpstreamSeqStore.lastSeqMap, 0 when there is no entry
  task,       \* the asynchronous routine each process is in
  todo,       \* runs a reap or the start-up recovery still has to fail
  phase,      \* "boot" until start-up recovery has ended, then "up"
  (* the Host and the worker, as far as the server sees them *)
  hosted,     \* whether the Host holds the run: "no", "yes", "released"
  log,        \* messages the worker has produced for a run
  acked,      \* how many of them have been answered
  (* counters of the bounds *)
  faults, crashes, reaps

db     == <<row, created, conv, msg>>
live   == <<handles, timers, stopReq, parts>>
guard  == <<finalizing, completed, lastSeq>>
host   == <<hosted, log, acked>>
bounds == <<faults, crashes, reaps>>
vars   == <<db, live, guard, task, todo, phase, host, bounds>>

(* What a routine keeps across its awaits: the run it works on, the status it
   applies, whether it captured a live handle, the seq of its message and the
   cursor the sequence gate had before. *)
IdleTask == [pc |-> "idle", run |-> None, st |-> "running", live |-> FALSE,
             i |-> 0, prev |-> 0]

Task == [pc : Pcs, run : Runs \cup {None}, st : Applied, live : BOOLEAN,
         i : Nat, prev : Nat]

ConvRecord == [status : {"idle", "running", "error"},
               owner : Runs \cup {None}, pending : Runs \cup {None}]

Init ==
  /\ row = [r \in Runs |-> "absent"]
  /\ created = << >>
  /\ conv = [status |-> "idle", owner |-> None, pending |-> None]
  /\ msg = [r \in Runs |-> "none"]
  /\ handles = {} /\ timers = {} /\ stopReq = {} /\ parts = {}
  /\ finalizing = {} /\ completed = {}
  /\ lastSeq = [r \in Runs |-> 0]
  /\ task = [p \in Procs |-> IdleTask]
  /\ todo = {}
  /\ phase = "up"
  /\ hosted = [r \in Runs |-> "no"]
  /\ log = [r \in Runs |-> << >>]
  /\ acked = [r \in Runs |-> 0]
  /\ faults = 0 /\ crashes = 0 /\ reaps = 0
-----------------------------------------------------------------------------
(* Helpers: one operator per guarded update of the code *)

Goto(p, pc) == task' = [task EXCEPT ![p].pc = pc]

(* RunStatusService.decide: a run that is finalizing or completed takes no
   further status.  (Mutant: only completed runs are guarded.) *)
DecideCompletedOnly(r) == r \notin completed
Decide(r) == r \notin finalizing \cup completed

(* RunRepository.mark*: an updateMany whose where clause names the statuses the
   row may leave.  (Mutants: no where clause; the message kind is stored.) *)
MarkAlways(old, m) == StatusOf(m)
MarkRaw(old, m) == IF old \in Active THEN m ELSE old
Mark(old, m) ==
  IF old \in (IF m \in {"running", "ask", "answered"} THEN RunningMutable ELSE Active)
  THEN StatusOf(m)
  ELSE old

(* ConversationRepository.setRunStateForOwner: a compare-and-set on the owner. *)
WriteIfOwner(c, r, new) == IF c.owner = r THEN new ELSE c

(* What a terminal status leaves in the conversation: the owner is released. *)
Released(m) == [status |-> IF m = "error" THEN "error" ELSE "idle",
                owner |-> None, pending |-> None]

(* ConversationRepository.claimRun.  (Mutant: a running conversation can be
   claimed.) *)
ClaimableAlways(c) == TRUE
Claimable(c) == c.status \in {"idle", "error"}
ClaimedBy(r) == [status |-> "running", owner |-> r, pending |-> None]

NoActiveRow == \A r \in Runs : row[r] \notin Active

(* findRunningConversationsWithoutActiveRun.  (Mutant: nothing is found.) *)
NothingStale == FALSE
StaleProjection == conv.status = "running" /\ NoActiveRow

(* RunRepository.findActiveByConversationId: the latest active row, or none. *)
ActiveAt == {k \in DOMAIN created : row[created[k]] \in Active}
FindActive ==
  IF ActiveAt = {} THEN {None}
  ELSE {created[k] : k \in {k \in ActiveAt : \A j \in ActiveAt : j <= k}}

(* saveAssistantMessage does not store a snapshot that has no part.  Saves of a
   run are queued (makeSaveRun), so they take effect in the order of the calls. *)
SaveMsg(r, level) == msg' = IF r \in parts THEN [msg EXCEPT ![r] = level] ELSE msg

Release(r) == hosted' = IF hosted[r] = "yes" THEN [hosted EXCEPT ![r] = "released"]
                        ELSE hosted

Ack(r, i) == acked' = [acked EXCEPT ![r] = IF i > @ THEN i ELSE @]

(* UpstreamSeqStore.rollback: only while the cursor is still the failed seq.
   (Mutant: no rollback.) *)
RollbackNever(r, i, prev) == lastSeq' = lastSeq
Rollback(r, i, prev) ==
  lastSeq' = IF lastSeq[r] = i THEN [lastSeq EXCEPT ![r] = prev] ELSE lastSeq

(* A launch between its claim and its registration, the window of "early". *)
Launching(r) == task[<<"launch", r>>].pc \in {"create", "register"}
StopAllowed == "early" \in Env \/ \A r \in Runs : ~Launching(r)
ClaimAllowed ==
  "early" \in Env \/ \A p \in Procs : task[p].pc \notin {"found", "reconcile"}

-----------------------------------------------------------------------------
(* RunStatusService.apply, a subroutine of every process *)

(* The steps that follow one another for a status message m.  (Mutant: the
   conversation is not updated before the final save.) *)
AfterPersistNoProject(m, isLive) ==
  CASE m \in Terminal               -> IF isLive THEN "save" ELSE "finish"
    [] m = "ask" /\ isLive          -> "partial"
    [] m = "answered" /\ isLive     -> "pending"
    [] OTHER                        -> "return"
AfterPersist(m, isLive) ==
  CASE m \in Terminal               -> "project"
    [] m = "ask" /\ isLive          -> "partial"
    [] m = "answered" /\ isLive     -> "pending"
    [] OTHER                        -> "return"

(* The callers that pass a conversationId, for a run without a live handle. *)
KnowsConversation(p) ==
  task[p].live \/ Kind(p) \in {"launch", "stop", "recovery"}

(* What is synchronous at the beginning of apply: a terminal status enters the
   guard before the first await, and the handle is captured. *)
StartApply(p, r, m, i, prev) ==
  /\ task' = [task EXCEPT ![p] = [pc |-> "persist", run |-> r, st |-> m,
                                  live |-> r \in handles, i |-> i, prev |-> prev]]
  /\ finalizing' = IF m \in Terminal THEN finalizing \cup {r} ELSE finalizing

(* applyRunPersistence. *)
ApplyPersist(p) ==
  LET t == task[p] IN
  /\ t.pc = "persist"
  /\ row' = [row EXCEPT ![t.run] = Mark(@, t.st)]
  /\ Goto(p, AfterPersist(t.st, t.live))
  /\ UNCHANGED <<created, conv, msg, live, guard, todo, phase, host, bounds>>

(* requires_action: handle.saveRun(false). *)
ApplyPartial(p) ==
  LET t == task[p] IN
  /\ t.pc = "partial"
  /\ SaveMsg(t.run, "partial")
  /\ Goto(p, "pending")
  /\ UNCHANGED <<row, created, conv, live, guard, todo, phase, host, bounds>>

(* The pendingAction of the message goes to the conversation. *)
ApplyPending(p) ==
  LET t == task[p]
      q == IF t.st = "ask" THEN t.run ELSE None IN
  /\ t.pc = "pending"
  /\ conv' = WriteIfOwner(conv, t.run, [conv EXCEPT !.pending = q])
  /\ Goto(p, "return")
  /\ UNCHANGED <<row, created, msg, live, guard, todo, phase, host, bounds>>

(* updateConversationTerminalStatus, when the conversation is known. *)
ApplyProject(p) ==
  LET t == task[p] IN
  /\ t.pc = "project"
  /\ conv' = IF KnowsConversation(p)
             THEN WriteIfOwner(conv, t.run, Released(t.st)) ELSE conv
  /\ Goto(p, IF t.live THEN "save" ELSE "finish")
  /\ UNCHANGED <<row, created, msg, live, guard, todo, phase, host, bounds>>

(* applyTerminalEffects up to its await: the final save. *)
ApplySave(p) ==
  LET t == task[p] IN
  /\ t.pc = "save"
  /\ SaveMsg(t.run, IF t.st = "finished" THEN "complete" ELSE "incomplete")
  /\ Goto(p, "finish")
  /\ UNCHANGED <<row, created, conv, live, guard, todo, phase, host, bounds>>

(* The rest of applyTerminalEffects and of apply: the handle and its timer go,
   the run is completed, its cursor is forgotten. *)
ApplyFinish(p) ==
  LET t == task[p]
      gone == IF t.live THEN {t.run} ELSE {} IN
  /\ t.pc = "finish"
  /\ handles' = handles \ gone
  /\ timers' = timers \ gone
  /\ stopReq' = stopReq \ gone
  /\ completed' = completed \cup {t.run}
  /\ finalizing' = finalizing \ {t.run}
  /\ lastSeq' = [lastSeq EXCEPT ![t.run] = 0]
  /\ Goto(p, "return")
  /\ UNCHANGED <<db, parts, todo, phase, host, bounds>>

(* A database call of apply fails: the guard is left, nothing is completed, and
   the exception goes to the caller. *)
ApplyFail(p) ==
  LET t == task[p] IN
  /\ t.pc \in ApplyPcs \ {"finish"}
  /\ faults < MaxFaults
  /\ faults' = faults + 1
  /\ finalizing' = IF t.st \in Terminal THEN finalizing \ {t.run} ELSE finalizing
  /\ Goto(p, "failed")
  /\ UNCHANGED <<db, live, completed, lastSeq, todo, phase, host, crashes, reaps>>

Apply(p) == \/ ApplyPersist(p) \/ ApplyPartial(p) \/ ApplyPending(p)
            \/ ApplyProject(p) \/ ApplySave(p) \/ ApplyFinish(p)
-----------------------------------------------------------------------------
(* HostUpstreamHandler: messages of the worker *)

Lanes(r) == {<<"upstream", r>>}
              \cup (IF "builtin" \in Env THEN {<<"repost", r>>} ELSE {})

(* What the worker of a run may post after the messages it has posted: it is
   running first, asks and is answered, ends once, is cancelled on request. *)
NextMsgs(r) ==
  LET l == log[r]
      last == IF l = << >> THEN "none" ELSE l[Len(l)]
      going == IF Len(l) + 1 >= MaxMsgs THEN {}
               ELSE CASE last = "none" -> {"running"}
                      [] last = "ask"  -> {"answered"}
                      [] OTHER -> {"agui"} \cup ({"ask"} \cap Env)
      ending == {"finished", "error"} \cup
                (IF r \in stopReq \/ task[<<"timeout", r>>].pc # "idle"
                 THEN {"cancelled"} ELSE {}) IN
  IF last \in Terminal THEN {}
  ELSE going \cup (CASE last = "none" -> {"error"} \cup (ending \ {"finished"})
                     [] last = "ask"  -> ending \ {"finished"}
                     [] OTHER         -> ending)

(* emit has nothing to await: the message is skipped or dropped, and answered.
   A terminal status releases the run on its Host all the same: on a registered
   one always, on the builtin one through the handle. *)
Skip(p, r, m, i) ==
  /\ Ack(r, i)
  /\ IF m \in Terminal /\ (r \in handles \/ "builtin" \notin Env)
     THEN Release(r) ELSE UNCHANGED hosted
  /\ UNCHANGED <<task, lastSeq, finalizing, parts, msg>>

(* publish accepts the message: the cursor moves before the effects. *)
Accept(p, r, m, i) ==
  /\ lastSeq' = [lastSeq EXCEPT ![r] = i]
  /\ UNCHANGED <<acked, hosted>>
  /\ IF m = "agui"
     THEN /\ parts' = parts \cup {r}
          /\ msg' = [msg EXCEPT ![r] = "partial"]
          /\ task' = [task EXCEPT ![p] = [pc |-> "agui", run |-> r, st |-> "running",
                                          live |-> TRUE, i |-> i, prev |-> lastSeq[r]]]
          /\ UNCHANGED finalizing
     ELSE StartApply(p, r, m, i, lastSeq[r]) /\ UNCHANGED <<parts, msg>>

(* The guards of publish, in their order.  (Mutant: events after a terminal
   status are not skipped.) *)
PassesLate(r, i) == r \in handles /\ i > lastSeq[r]
Passes(r, i) == r \in handles /\ Decide(r) /\ i > lastSeq[r]

(* Message i of run r arrives: the next one of the worker, the one it was not
   answered for, or the last one again because the answer was lost. *)
Deliver(p) ==
  LET r == p[2] IN
  /\ phase = "up"
  /\ p \in Lanes(r)
  /\ task[p].pc = "idle"
  /\ "builtin" \in Env \/ task[<<"notify", r>>].pc = "idle"
  /\ \E i \in {acked[r], acked[r] + 1} \ {0} :
       \E m \in (IF i <= Len(log[r]) THEN {log[r][i]}
                 ELSE IF hosted[r] = "yes" THEN NextMsgs(r) ELSE {}) :
         /\ log' = IF i <= Len(log[r]) THEN log ELSE [log EXCEPT ![r] = Append(@, m)]
         /\ IF Passes(r, i) THEN Accept(p, r, m, i) ELSE Skip(p, r, m, i)
  /\ UNCHANGED <<row, created, conv, handles, timers, stopReq, completed, todo,
                 phase, bounds>>

(* HostAgUiEventHandler.handle ends after its saves; storing the usage may throw. *)
AguiEnd(p) ==
  /\ task[p].pc = "agui"
  /\ \/ Goto(p, "return") /\ UNCHANGED faults
     \/ /\ faults < MaxFaults
        /\ faults' = faults + 1
        /\ Goto(p, "failed")
  /\ UNCHANGED <<db, live, guard, todo, phase, host, crashes, reaps>>

(* publish has returned to emit: a terminal status releases the run on the Host
   through the handle captured before, and the message is answered. *)
UpstreamReturn(p) ==
  LET t == task[p] IN
  /\ t.pc = "return" /\ p \in Lanes(p[2])
  /\ Ack(t.run, t.i)
  /\ IF t.st \in Terminal /\ t.live THEN Release(t.run) ELSE UNCHANGED hosted
  /\ task' = [task EXCEPT ![p] = IdleTask]
  /\ UNCHANGED <<db, live, guard, todo, phase, log, bounds>>

(* publish has thrown: the cursor goes back and the message is not answered, so
   it comes again; a worker of the builtin Host may give it up. *)
UpstreamFailed(p) ==
  LET t == task[p] IN
  /\ t.pc = "failed" /\ p \in Lanes(p[2])
  /\ Rollback(t.run, t.i, t.prev)
  /\ \/ UNCHANGED acked
     \/ "builtin" \in Env /\ Ack(t.run, t.i)
  /\ task' = [task EXCEPT ![p] = IdleTask]
  /\ UNCHANGED <<db, live, finalizing, completed, todo, phase, hosted, log, bounds>>

-----------------------------------------------------------------------------
(* HostUpstreamHandler: failures reported by the Host, and the run timer *)

(* notifyRunFailed, notifyRunCancelled, notifyWorkerLost: nothing without a
   handle or after a terminal status.  A cancelled run stays cancelled when its
   worker is lost, and is cancelled when it was stopped before it was ready. *)
Notify(p) ==
  LET r == p[2] IN
  /\ "notify" \in Env
  /\ phase = "up"
  /\ Kind(p) = "notify" /\ task[p].pc = "idle"
  /\ hosted[r] # "no" \/ task[<<"launch", r>>].pc = "submit"
  /\ "builtin" \in Env \/ task[<<"upstream", r>>].pc = "idle"
  /\ r \in handles /\ Decide(r)
  /\ \E s \in {"error"} \cup (IF r \in stopReq THEN {"cancelled"} ELSE {}) :
       StartApply(p, r, s, 0, 0)
  /\ UNCHANGED <<db, live, completed, lastSeq, todo, phase, host, bounds>>

(* A failed notification of the builtin Host is swallowed; a registered Host
   sends it again.  The Host has let the run go, or lets it go on the answer. *)
NotifyEnd(p) ==
  LET t == task[p] IN
  /\ Kind(p) = "notify" /\ t.pc \in {"return", "failed"}
  /\ IF t.pc = "return" \/ "builtin" \in Env THEN Release(t.run) ELSE UNCHANGED hosted
  /\ task' = [task EXCEPT ![p] = IdleTask]
  /\ UNCHANGED <<db, live, guard, todo, phase, log, acked, bounds>>

(* LiveRunRegistry.startTimeout: the timer fires once; markRunTimedOut sends a
   cancel command whose failure it swallows. *)
TimeoutFire(p) ==
  LET r == p[2] IN
  /\ "timeout" \in Env
  /\ phase = "up"
  /\ Kind(p) = "timeout" /\ task[p].pc = "idle"
  /\ r \in timers
  /\ timers' = timers \ {r}
  /\ IF r \in handles
     THEN task' = [task EXCEPT ![p] = [IdleTask EXCEPT !.pc = "force", !.run = r]]
     ELSE UNCHANGED task
  /\ UNCHANGED <<db, handles, stopReq, parts, guard, todo, phase, host, bounds>>

(* forceErrorStatus after the command: ignored when another status is terminal. *)
TimeoutForce(p) ==
  LET t == task[p] IN
  /\ Kind(p) = "timeout" /\ t.pc = "force"
  /\ IF Decide(t.run) THEN StartApply(p, t.run, "error", 0, 0)
     ELSE Goto(p, "return") /\ UNCHANGED finalizing
  /\ UNCHANGED <<db, live, completed, lastSeq, todo, phase, host, bounds>>

(* The finally of markRunTimedOut releases the run on its Host in any case. *)
TimeoutEnd(p) ==
  LET t == task[p] IN
  /\ Kind(p) = "timeout" /\ t.pc \in {"return", "failed"}
  /\ Release(t.run)
  /\ task' = [task EXCEPT ![p] = IdleTask]
  /\ UNCHANGED <<db, live, guard, todo, phase, log, acked, bounds>>
-----------------------------------------------------------------------------
(* RunService.stopWithResult, called by a stop request or by a steering launch *)

StopFind(p) ==
  /\ phase = "up" /\ StopAllowed
  /\ <<Kind(p), task[p].pc>> \in {<<"stop", "idle">>, <<"launch", "find">>}
  /\ \E r \in FindActive :
       task' = [task EXCEPT ![p] = [IdleTask EXCEPT !.pc = "found", !.run = r]]
  /\ UNCHANGED <<db, live, guard, todo, phase, host, bounds>>

(* Back from the query: the handle is looked up only now. *)
StopFound(p) ==
  LET r == task[p].run IN
  /\ task[p].pc = "found"
  /\ \/ /\ r \in handles
        /\ stopReq' = stopReq \cup {r}
        /\ Goto(p, "cancelling")
        /\ UNCHANGED finalizing
     \/ /\ r = None
        /\ Goto(p, "reconcile")
        /\ UNCHANGED <<stopReq, finalizing>>
     \/ /\ r \in Runs \ handles
        /\ IF Decide(r) THEN StartApply(p, r, "cancelled", 0, 0)
           ELSE Goto(p, "return") /\ UNCHANGED finalizing
        /\ UNCHANGED stopReq
  /\ UNCHANGED <<db, handles, timers, parts, completed, lastSeq, todo, phase, host,
                 bounds>>

(* RunRepository.markCancelling. *)
StopCancelling(p) ==
  LET t == task[p] IN
  /\ t.pc = "cancelling"
  /\ row' = [row EXCEPT ![t.run] = Mark(@, "cancelling")]
  /\ Goto(p, "command")
  /\ UNCHANGED <<created, conv, msg, live, guard, todo, phase, host, bounds>>

(* The cancel command; only a steering launch also ends the response. *)
StopCommand(p) ==
  /\ task[p].pc = "command"
  /\ Goto(p, IF Kind(p) = "launch" THEN "endresponse" ELSE "return")
  /\ UNCHANGED <<db, live, guard, todo, phase, host, bounds>>

StopEndResponse(p) ==
  /\ task[p].pc = "endresponse"
  /\ SaveMsg(task[p].run, "incomplete")
  /\ Goto(p, "return")
  /\ UNCHANGED <<row, created, conv, live, guard, todo, phase, host, bounds>>

(* ConversationRepository.reconcileRunStateWithoutActiveRun. *)
StopReconcile(p) ==
  /\ task[p].pc = "reconcile"
  /\ conv' = IF NoActiveRow THEN Released("cancelled") ELSE conv
  /\ Goto(p, "return")
  /\ UNCHANGED <<row, created, msg, live, guard, todo, phase, host, bounds>>

StopFail(p) ==
  /\ task[p].pc \in {"cancelling", "command", "endresponse", "reconcile"}
  /\ faults < MaxFaults
  /\ faults' = faults + 1
  /\ Goto(p, "failed")
  /\ UNCHANGED <<db, live, guard, todo, phase, host, crashes, reaps>>

StopEnd(p) ==
  /\ Kind(p) = "stop" /\ task[p].pc \in {"return", "failed"}
  /\ task' = [task EXCEPT ![p] = [IdleTask EXCEPT !.pc = "done"]]
  /\ UNCHANGED <<db, live, guard, todo, phase, host, bounds>>

Stop(p) == \/ StopFound(p) \/ StopCancelling(p) \/ StopCommand(p)
           \/ StopEndResponse(p) \/ StopReconcile(p) \/ StopEnd(p)

-----------------------------------------------------------------------------
(* RunLauncher.launch *)

LaunchDone(p) == task' = [task EXCEPT ![p] = [IdleTask EXCEPT !.pc = "done"]]

(* claimRun: the conversation is claimed, or the active run is stopped first, or
   the request ends in a conflict. *)
LaunchClaim(p) ==
  /\ phase = "up" /\ ClaimAllowed
  /\ Kind(p) = "launch" /\ task[p].pc = "idle"
  /\ IF Claimable(conv)
     THEN conv' = ClaimedBy(p[2]) /\ Goto(p, "create")
     ELSE /\ UNCHANGED conv
          /\ LaunchDone(p) \/ ("steer" \in Env /\ Goto(p, "find"))
  /\ UNCHANGED <<row, created, msg, live, guard, todo, phase, host, bounds>>

(* stopActiveRun has returned, or thrown. *)
LaunchStopped(p) ==
  LET t == task[p] IN
  /\ Kind(p) = "launch" /\ t.run # p[2]
  /\ \/ t.pc = "return" /\ Goto(p, IF t.run = None THEN "reclaim" ELSE "handoff")
     \/ t.pc = "failed" /\ LaunchDone(p)
  /\ UNCHANGED <<db, live, guard, todo, phase, host, bounds>>

(* ConversationRepository.handoffRun: only from the run that was stopped. *)
LaunchHandoff(p) ==
  /\ Kind(p) = "launch" /\ task[p].pc = "handoff" /\ ClaimAllowed
  /\ IF conv.status = "running" /\ conv.owner = task[p].run
     THEN conv' = ClaimedBy(p[2]) /\ Goto(p, "create")
     ELSE UNCHANGED conv /\ Goto(p, "reclaim")
  /\ UNCHANGED <<row, created, msg, live, guard, todo, phase, host, bounds>>

LaunchReclaim(p) ==
  /\ Kind(p) = "launch" /\ task[p].pc = "reclaim" /\ ClaimAllowed
  /\ IF Claimable(conv)
     THEN conv' = ClaimedBy(p[2]) /\ Goto(p, "create")
     ELSE UNCHANGED conv /\ LaunchDone(p)
  /\ UNCHANGED <<row, created, msg, live, guard, todo, phase, host, bounds>>

(* createRun; its failure, or one of saveUserTurn, leads to handlePreRunFailure. *)
LaunchCreate(p) ==
  LET r == p[2] IN
  /\ Kind(p) = "launch" /\ task[p].pc = "create"
  /\ \/ /\ row' = [row EXCEPT ![r] = "queued"]
        /\ created' = Append(created, r)
        /\ Goto(p, "register")
        /\ UNCHANGED faults
     \/ /\ faults < MaxFaults
        /\ faults' = faults + 1
        /\ Goto(p, "failclaim")
        /\ UNCHANGED <<row, created>>
  /\ UNCHANGED <<conv, msg, live, guard, todo, phase, host, crashes, reaps>>

(* failLaunchClaim; when it fails too, the claim stays. *)
LaunchFailClaim(p) ==
  /\ Kind(p) = "launch" /\ task[p].pc = "failclaim"
  /\ \/ conv' = WriteIfOwner(conv, p[2], Released("error")) /\ UNCHANGED faults
     \/ UNCHANGED conv /\ faults < MaxFaults /\ faults' = faults + 1
  /\ LaunchDone(p)
  /\ UNCHANGED <<row, created, msg, live, guard, todo, phase, host, crashes, reaps>>

(* LiveRunRegistry.startTimeout.  (Mutant: no timer.) *)
ArmNoTimer(r) == timers
ArmTimer(r) == timers \cup {r}

(* registerRun, whatever became of the row while createRun was awaited. *)
LaunchRegister(p) ==
  LET r == p[2] IN
  /\ Kind(p) = "launch" /\ task[p].pc = "register"
  /\ handles' = handles \cup {r}
  /\ timers' = ArmTimer(r)
  /\ Goto(p, "submit")
  /\ UNCHANGED <<db, stopReq, parts, guard, todo, phase, host, bounds>>

(* submitToHost: accepted; or lost on the tunnel, which the Host side reports as
   a failed run; or refused by the builtin Host, and the launch fails the run. *)
LaunchSubmit(p) ==
  LET r == p[2] IN
  /\ Kind(p) = "launch" /\ task[p].pc = "submit"
  /\ \/ \E h \in {"yes"} \cup (IF "builtin" \in Env THEN {} ELSE {"released"}) :
          hosted' = [hosted EXCEPT ![r] = h]
        /\ LaunchDone(p)
        /\ UNCHANGED finalizing
     \/ /\ "builtin" \in Env
        /\ UNCHANGED hosted
        /\ IF Decide(r) THEN StartApply(p, r, "error", 0, 0)
           ELSE LaunchDone(p) /\ UNCHANGED finalizing
  /\ UNCHANGED <<db, live, completed, lastSeq, todo, phase, log, acked, bounds>>

LaunchEnd(p) ==
  /\ Kind(p) = "launch" /\ task[p].run = p[2]
  /\ task[p].pc \in {"return", "failed"}
  /\ LaunchDone(p)
  /\ UNCHANGED <<db, live, guard, todo, phase, host, bounds>>

Launch(p) == \/ LaunchStopped(p) \/ LaunchHandoff(p) \/ LaunchReclaim(p)
             \/ LaunchCreate(p) \/ LaunchFailClaim(p) \/ LaunchRegister(p)
             \/ LaunchSubmit(p) \/ LaunchEnd(p)

-----------------------------------------------------------------------------
(* RunRecoveryService: reaps, sweeps and the recovery at start-up *)

(* failInterruptedRuns at start-up; reapActiveRuns and sweepAbandonedRuns when a
   Host is gone.  All work through a snapshot of the active rows. *)
RecoveryStart(p) ==
  /\ p = Recovery /\ task[p].pc = "idle"
  /\ \/ phase = "boot" /\ UNCHANGED reaps
     \/ phase = "up" /\ StopAllowed /\ reaps < MaxReaps /\ reaps' = reaps + 1
  /\ todo' = {r \in Runs : row[r] \in Active}
  /\ Goto(p, "next")
  /\ UNCHANGED <<db, live, guard, phase, host, faults, crashes>>

RecoveryNext(p) ==
  /\ p = Recovery /\ task[p].pc = "next"
  /\ \E r \in todo :
       IF Decide(r)
       THEN StartApply(p, r, "error", 0, 0) /\ UNCHANGED <<todo, hosted>>
       ELSE todo' = todo \ {r} /\ Release(r) /\ UNCHANGED <<task, finalizing>>
  /\ UNCHANGED <<db, live, completed, lastSeq, phase, log, acked, bounds>>

(* failRun has returned: the Host is told to drop the run; or it has thrown: a
   reap is over, a start-up is tried again. *)
RecoveryReturn(p) ==
  LET t == task[p] IN
  /\ p = Recovery
  /\ \/ t.pc = "return" /\ todo' = todo \ {t.run} /\ Release(t.run)
        /\ task' = [task EXCEPT ![p] = [IdleTask EXCEPT !.pc = "next"]]
     \/ t.pc = "failed" /\ todo' = {} /\ UNCHANGED hosted
        /\ task' = [task EXCEPT ![p] = IdleTask]
  /\ UNCHANGED <<db, live, guard, phase, log, acked, bounds>>

(* reconcileConversationRunStatuses ends the start-up: a projection that is
   running although no row is active takes the outcome of the latest run. *)
RecoveryEnd(p) ==
  LET latest == row[created[Len(created)]] IN
  /\ p = Recovery /\ task[p].pc = "next" /\ todo = {}
  /\ task' = [task EXCEPT ![p] = IdleTask]
  /\ phase' = "up"
  /\ conv' = IF phase = "boot" /\ StaleProjection
             THEN Released(IF created # << >> /\ latest \in {"finished", "cancelled"}
                           THEN "cancelled" ELSE "error")
             ELSE conv
  /\ UNCHANGED <<row, created, msg, live, guard, todo, host, bounds>>

Recover(p) == RecoveryNext(p) \/ RecoveryReturn(p) \/ RecoveryEnd(p)

(* The process dies: only the database, the Host and the worker remain. *)
Crash ==
  /\ crashes < MaxCrashes
  /\ crashes' = crashes + 1
  /\ phase' = "boot"
  /\ handles' = {} /\ timers' = {} /\ stopReq' = {} /\ parts' = {}
  /\ finalizing' = {} /\ completed' = {}
  /\ lastSeq' = [r \in Runs |-> 0]
  /\ todo' = {}
  /\ task' = [p \in Procs |->
                IF Kind(p) \in {"launch", "stop"} /\ task[p].pc # "idle"
                THEN [IdleTask EXCEPT !.pc = "done"] ELSE IdleTask]
  /\ UNCHANGED <<db, host, faults, reaps>>

(* COMPLETED_RUN_TTL_MS after markCompleted. *)
Expire(r) ==
  /\ "expire" \in Env
  /\ r \in completed
  /\ completed' = completed \ {r}
  /\ UNCHANGED <<db, live, finalizing, lastSeq, task, todo, phase, host, bounds>>

-----------------------------------------------------------------------------
(* What a process goes on with once it has begun, without a failure. *)
Continue(p) == \/ Apply(p) \/ AguiEnd(p) \/ UpstreamReturn(p) \/ UpstreamFailed(p)
               \/ NotifyEnd(p) \/ TimeoutForce(p) \/ TimeoutEnd(p)
               \/ Kind(p) = "launch" /\ StopFind(p)
               \/ Stop(p) \/ Launch(p) \/ Recover(p)

Begin(p) == \/ Deliver(p) \/ Notify(p) \/ TimeoutFire(p)
            \/ Kind(p) = "stop" /\ StopFind(p)
            \/ LaunchClaim(p) \/ RecoveryStart(p)

Next == \/ \E p \in Procs : Continue(p) \/ Begin(p) \/ ApplyFail(p) \/ StopFail(p)
        \/ \E r \in Runs : Expire(r)
        \/ Crash

Spec == Init /\ [][Next]_vars

(* Promises are resolved and database calls end, a timer that is due fires, and
   a server that is down is started again.  Nothing else is promised: a worker
   may stay silent and a user may never press stop. *)
Fairness ==
  /\ \A p \in Procs : WF_vars(Continue(p))
  /\ \A r \in Runs : WF_vars(TimeoutFire(<<"timeout", r>>))
  /\ WF_vars(phase = "boot" /\ RecoveryStart(Recovery))

FairSpec == Spec /\ Fairness
-----------------------------------------------------------------------------
(* Properties *)

(* Every variable has its type. *)
TypeOK ==
  /\ row \in [Runs -> {"absent"} \cup Active \cup Terminal]
  /\ created \in Seq(Runs)
  /\ conv \in ConvRecord
  /\ msg \in [Runs -> MsgLevels]
  /\ handles \subseteq Runs /\ timers \subseteq Runs
  /\ stopReq \subseteq Runs /\ parts \subseteq Runs
  /\ finalizing \subseteq Runs /\ completed \subseteq Runs
  /\ lastSeq \in [Runs -> Nat]
  /\ task \in [Procs -> Task]
  /\ todo \subseteq Runs
  /\ phase \in {"boot", "up"}
  /\ hosted \in [Runs -> {"no", "yes", "released"}]
  /\ log \in [Runs -> Seq(WorkerMsgs)]
  /\ acked \in [Runs -> Nat]
  /\ faults \in Nat /\ crashes \in Nat /\ reaps \in Nat

Finalizes(p, r) ==
  task[p].pc \in ApplyPcs /\ task[p].st \in Terminal /\ task[p].run = r

(* Two routines never finalize the same run at once, however the worker, the
   Host, the timer, a stop and a reap race: the check of decide and the entry
   into finalizingRuns lie in one turn of the event loop. *)
SingleFinalizer ==
  \A p, q \in Procs : \A r \in Runs : Finalizes(p, r) /\ Finalizes(q, r) => p = q

(* A run is remembered as completed only when both of its durable outcomes are
   in the database, its terminal row and the release of the conversation, and
   nothing takes them back later: a retry that is ignored because of the mark
   has nothing left to do. *)
CompletedIsDurable ==
  \A r \in completed : row[r] \in Terminal /\ conv.owner # r

(* The conversation is never owned by a run that nobody is working on any more:
   the owner is being launched, or its row is active, or its terminal status is
   being applied.  As long as no database call has failed: a failed one may leave
   the owner to the next restart or stop. *)
OwnerIsGoingOn ==
  \A r \in Runs : conv.owner = r /\ phase = "up" /\ faults = 0 =>
    \/ task[<<"launch", r>>].pc \in {"create", "failclaim"}
    \/ row[r] \in Active
    \/ r \in finalizing

(* One run at a time: of two runs of the conversation whose rows are active all
   but one have been told to cancel, whatever stops, steers and retries. *)
ExclusiveRun ==
  \A r, s \in Runs : r # s /\ row[r] \in Active /\ row[s] \in Active =>
    row[r] = "cancelling" \/ row[s] = "cancelling"

(* A terminal status is answered (and its message dropped by the Host) only when
   its row is terminal or some routine is still applying a terminal status:
   a failed apply is not answered, and the message comes again.  So say
   host-tunnel.ts of the protocol, lines 132-133, and run-status.service.ts, lines
   129-130.  A run timer whose finalization fails breaks it: LostOnlyToTimer says
   what holds then. *)
AnsweredTerminalIsKept ==
  \A r \in Runs : \A n \in 1..acked[r] :
    log[r][n] \in Terminal => row[r] \in Terminal \/ r \in finalizing

(* An answered terminal status is lost only to the run's own timer: it has fired,
   and while its finalization was under way the status was ignored and answered.
   When that finalization fails too, nothing ends the run: it stays in memory, and
   no timer is left.  Otherwise what was answered is durable, or being made so,
   whatever fails and however often the server restarts, until a Host is reaped. *)
LostOnlyToTimer ==
  reaps = 0 /\ phase = "up" =>
    \A r \in Runs : \A n \in 1..acked[r] :
      log[r][n] \in Terminal =>
        row[r] \in Terminal \/ r \in finalizing \/ r \in handles \ timers

(* How the message of a run that ended with status s is closed. *)
Level(s) == IF s = "finished" THEN "complete" ELSE "incomplete"

(* The message stored last says how the run ended: complete for a finished run,
   closed with a reason for one that failed or was cancelled, also after a question
   (run ADR 0001, lines 38-39).  As long as no database call has failed and the
   server has not crashed.  The save of a question breaks it, see FinalMessageStands. *)
FinalMessageKept ==
  \A r \in completed : msg[r] # "none" /\ faults = 0 /\ crashes = 0 =>
    msg[r] = Level(row[r])

(* What may be stored over the last message: the snapshot of a question the worker
   asked before the end, or the end of a response that a steering launch cut off.
   Nothing else is, whatever is late, repeated, reported or stopped. *)
Asked(r) == \E n \in DOMAIN log[r] : log[r][n] = "ask"
Followed(r) == \E s \in Runs \ {r} : task[<<"launch", s>>].pc # "idle"

Closed(r, s) == \/ msg[r] \in {"none", Level(s)}
                \/ msg[r] = "partial" /\ Asked(r)
                \/ msg[r] = "incomplete" /\ Followed(r)

FinalMessageStands ==
  \A r \in completed : faults = 0 /\ crashes = 0 => Closed(r, row[r])

(* A terminal row never changes, and a run told to cancel never goes back to
   work, whatever late message is applied to it. *)
RowIsMonotone ==
  [][\A r \in Runs :
       /\ row[r] \in Terminal => row'[r] = row[r]
       /\ row[r] = "cancelling" => row'[r] \in {"cancelling"} \cup Terminal]_vars

(* The conversation is always given back: whoever owns it loses it; and no live
   handle stays in memory for ever. *)
RunIsReleased ==
  \A r \in Runs : /\ conv.owner = r ~> conv.owner # r
                  /\ r \in handles ~> r \notin handles
=============================================================================
