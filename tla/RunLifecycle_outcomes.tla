----------------------- MODULE RunLifecycle_outcomes -----------------------
(***************************************************************************)
(* What the runs of a conversation leave behind: the invariants of         *)
(* RunLifecycle that relate the owner of the conversation, the answers of  *)
(* the worker and the stored message to the rows, each under a stated      *)
(* hypothesis on the environment.                                          *)
(***************************************************************************)
EXTENDS RunLifecycle_proofs

(* Only the task of p changes. *)
OnlyTask(p) == \A q \in Procs : q # p => task'[q] = task[q]

(* A task moved to another program counter keeps the rest. *)
LEMMA GotoFacts ==
  ASSUME TypeInv, NEW p \in Procs, NEW c, Goto(p, c)
  PROVE  /\ OnlyTask(p)
         /\ task'[p].pc = c
         /\ task'[p].run = task[p].run /\ task'[p].st = task[p].st
         /\ task'[p].live = task[p].live
         /\ task'[p].i = task[p].i /\ task'[p].prev = task[p].prev
<1>1. task \in [Procs -> Task]
  BY DEF TypeInv, TypeOK
<1> QED BY <1>1 DEF Goto, OnlyTask, Task

(* A task that is over forgets what it had captured. *)
LEMMA IdleFacts ==
  ASSUME TypeInv, NEW p \in Procs,
         \/ task' = [task EXCEPT ![p] = IdleTask]
         \/ \E c \in {"done", "next"} : task' = [task EXCEPT ![p] = [IdleTask EXCEPT !.pc = c]]
  PROVE  /\ OnlyTask(p)
         /\ task'[p].pc \in {"idle", "done", "next"}
         /\ task'[p].run = None /\ task'[p].st = "running"
<1>1. task \in [Procs -> Task]
  BY DEF TypeInv, TypeOK
<1> QED BY <1>1 DEF IdleTask, OnlyTask

-----------------------------------------------------------------------------
(* The life of a run: who works on it while it is not over. *)

(* A task works on a run that has a row; only messages of the worker apply a
   status that is not terminal; a claim is failed before the row exists; and
   nothing but the recovery runs while the server starts. *)
LifeTask(p) ==
  /\ task[p].run # None => row[task[p].run] # "absent"
  /\ task[p].pc \in {"partial", "pending"} => task[p].st \notin Terminal
  /\ task[p].pc = "agui" => Kind(p) \in {"upstream", "repost"}
  /\ Kind(p) \notin {"upstream", "repost"} /\ task[p].pc \in ApplyPcs
       => task[p].st \in Terminal
  /\ Kind(p) = "launch" /\ task[p].pc = "failclaim" => row[p[2]] = "absent"
  /\ phase = "boot" /\ p # Recovery => task[p].pc \in {"idle", "done"}

(* A run in the guard has its finalizer: the guard is never left behind. *)
GuardIsHeld == \A r \in finalizing : \E p \in Procs : Finalizes(p, r)

(* A recovery has ended the runs it has worked through, and at start-up it has
   no other active row left. *)
RecoveryInv ==
  /\ task[Recovery].pc = "return"
       => task[Recovery].run \in Runs /\ row[task[Recovery].run] \in Terminal
  /\ phase = "boot" /\ task[Recovery].pc \notin {"idle", "failed"}
       => \A r \in Runs : row[r] \in Active => r \in todo

(* An active row of a server that is up has its live handle, or its launch is
   about to register it. *)
HandleIsLive ==
  \A r \in Runs : phase = "up" /\ row[r] \in Active =>
    r \in handles \/ task[<<"launch", r>>].pc = "register"

OwnedIsRunning == conv.owner # None => conv.status = "running"

LifeInv ==
  /\ \A p \in Procs : LifeTask(p)
  /\ GuardIsHeld /\ RecoveryInv /\ HandleIsLive
  /\ OwnedIsRunning /\ OwnerIsGoingOn

(* What a step of p does to the tasks, the rows and the guard of other runs. *)
LifeStep(p) ==
  /\ OnlyTask(p)
  /\ RowStep(p)
  /\ phase' = "boot" => phase = "boot"
  /\ \A r \in finalizing' : Finalizes(p, r)' \/ (r \in finalizing /\ ~Finalizes(p, r))

(* A step that keeps to it keeps the tasks of others in order, and the guard. *)
LEMMA LifeKeeps ==
  ASSUME TypeInv, TypeInv', LifeInv, NEW p \in Procs, LifeStep(p), LifeTask(p)'
  PROVE  (\A q \in Procs : LifeTask(q)') /\ GuardIsHeld'
<1>t. /\ \A q \in Procs : task[q].run \in Runs \cup {None}
      /\ None \notin Runs /\ finalizing' \subseteq Runs
  BY ConstantsAssumption DEF TypeInv, TypeOK, Task
<1>1. ASSUME NEW q \in Procs, q # p PROVE LifeTask(q)'
  <2>1. LifeTask(q) /\ task'[q] = task[q]
    BY <1>1 DEF LifeInv, LifeStep, OnlyTask
  <2>2. \A r \in Runs : row[r] # "absent" => row'[r] # "absent"
    BY DEF LifeStep, RowStep, Terminal
  <2>3. Kind(q) = "launch" /\ row[q[2]] = "absent" => row'[q[2]] = "absent"
    BY <1>1, ProcOfRun DEF LifeStep, RowStep
  <2> QED BY <2>1, <2>2, <2>3, <1>t DEF LifeTask, LifeStep
<1>2. ASSUME NEW r \in finalizing' PROVE \E q \in Procs : Finalizes(q, r)'
  <2>1. CASE Finalizes(p, r)'
    BY <2>1
  <2>2. CASE r \in finalizing /\ ~Finalizes(p, r)
    <3>1. PICK q \in Procs : Finalizes(q, r)
      BY <2>2 DEF LifeInv, GuardIsHeld
    <3>2. q # p
      BY <2>2, <3>1
    <3> QED BY <3>1, <3>2 DEF LifeStep, OnlyTask, Finalizes
  <2> QED BY <2>1, <2>2 DEF LifeStep
<1> QED BY <1>1, <1>2 DEF GuardIsHeld

(* A step of p that neither begins nor ends anything: it moves p between two
   awaits and leaves rows, guard, handles and the owner alone. *)
QuietStep(p) ==
  /\ OnlyTask(p)
  /\ UNCHANGED <<row, finalizing, todo, phase, handles>>
  /\ conv'.owner = conv.owner /\ conv'.status = conv.status
  /\ faults' >= faults
  /\ \A r \in Runs : Finalizes(p, r) => Finalizes(p, r)'
  /\ Kind(p) = "launch" => task[p].pc \notin {"create", "failclaim", "register"}
  /\ p = Recovery => {task[p].pc, task'[p].pc} \subseteq ApplyPcs

LEMMA QuietKeeps ==
  ASSUME TypeInv, TypeInv', LifeInv, NEW p \in Procs, QuietStep(p), LifeTask(p)'
  PROVE  LifeInv'
<1>t. finalizing \subseteq Runs /\ faults \in Nat /\ faults' \in Nat
  BY DEF TypeInv, TypeOK
<1>1. LifeStep(p)
  BY <1>t DEF QuietStep, LifeStep, RowStep
<1>2. RecoveryInv'
  <2>1. Recovery \in Procs
    BY DEF Recovery, Procs
  <2> QED BY <2>1 DEF LifeInv, RecoveryInv, QuietStep, OnlyTask, ApplyPcs
<1>3. \A r \in Runs : \A c \in {"create", "failclaim", "register"} :
        task[<<"launch", r>>].pc = c => task'[<<"launch", r>>].pc = c
  BY DEF QuietStep, OnlyTask, Procs, Kind
<1>4. HandleIsLive' /\ OwnedIsRunning' /\ OwnerIsGoingOn'
  <2>1. faults' = 0 => faults = 0
    BY <1>t DEF QuietStep
  <2> QED BY <2>1, <1>3 DEF LifeInv, QuietStep, HandleIsLive, OwnedIsRunning, OwnerIsGoingOn
<1> QED BY <1>1, <1>2, <1>4, LifeKeeps DEF LifeInv

(* A step of another process than the recovery, in a server that is up. *)
LEMMA RecoveryKeeps ==
  ASSUME TypeInv, LifeInv, NEW p \in Procs, p # Recovery, OnlyTask(p), RowStep(p),
         phase = "up", phase' = phase
  PROVE  RecoveryInv'
<1>1. Recovery \in Procs
  BY DEF Recovery, Procs
<1>2. task'[Recovery] = task[Recovery]
  BY <1>1 DEF OnlyTask
<1> QED BY <1>2 DEF LifeInv, RecoveryInv, RowStep, Terminal

(* The beginning of an apply. *)
LEMMA StartApplyLives ==
  ASSUME TypeInv, TypeInv', LifeInv, NEW p \in Procs, NEW r \in Runs, NEW m \in Applied,
         NEW i \in Nat, NEW prev \in Nat, StartApply(p, r, m, i, prev), Decide(r),
         row[r] # "absent", m \in Terminal \/ Kind(p) \in {"upstream", "repost"},
         phase = "up" \/ p = Recovery,
         task[p].pc \notin ApplyPcs \cup {"create", "failclaim", "register"},
         p = Recovery => task[p].pc = "next",
         UNCHANGED <<row, conv, handles, todo, phase, faults>>
  PROVE  LifeInv'
<1>t. task \in [Procs -> Task] /\ finalizing \subseteq Runs /\ faults \in Nat
  BY DEF TypeInv, TypeOK
<1>1. /\ OnlyTask(p)
      /\ task'[p].pc = "persist" /\ task'[p].run = r /\ task'[p].st = m
      /\ finalizing' = IF m \in Terminal THEN finalizing \cup {r} ELSE finalizing
  BY <1>t DEF StartApply, OnlyTask
<1>2. LifeStep(p)
  BY <1>1, <1>t DEF LifeStep, RowStep, Finalizes, ApplyPcs
<1>3. LifeTask(p)'
  BY <1>1, ConstantsAssumption DEF LifeTask, ApplyPcs
<1>4. RecoveryInv'
  <2>1. Recovery \in Procs
    BY DEF Recovery, Procs
  <2> QED BY <1>1, <2>1 DEF LifeInv, RecoveryInv, OnlyTask
<1>5. HandleIsLive' /\ OwnedIsRunning' /\ OwnerIsGoingOn'
  <2>1. \A q \in Runs : \A c \in {"create", "failclaim", "register"} :
          task[<<"launch", q>>].pc = c => task'[<<"launch", q>>].pc = c
    BY <1>1 DEF OnlyTask, Procs
  <2> QED BY <1>1, <2>1 DEF LifeInv, HandleIsLive, OwnedIsRunning, OwnerIsGoingOn
<1> QED BY <1>2, <1>3, <1>4, <1>5, LifeKeeps DEF LifeInv

LEMMA LifeNext == TypeInv /\ TypeInv' /\ CoreInv /\ LifeInv /\ [Next]_vars => LifeInv'
<1> SUFFICES ASSUME TypeInv, TypeInv', CoreInv, LifeInv, [Next]_vars PROVE LifeInv'
  OBVIOUS
<1> USE DEF vars, db, live, guard, host, bounds
<1>t. /\ task \in [Procs -> Task] /\ row \in [Runs -> {"absent"} \cup Active \cup Terminal]
      /\ \A q \in Procs : task[q].run \in Runs \cup {None} /\ task[q].st \in Applied
      /\ \A q \in Procs : task[q].pc \in RunPcs => task[q].run \in Runs
      /\ None \notin Runs /\ completed \subseteq Runs /\ handles \subseteq Runs
      /\ todo \subseteq Runs /\ faults \in Nat /\ conv \in ConvRecord
  BY ConstantsAssumption DEF TypeInv, TypeOK, TaskHasRun, Task
<1>c. /\ \A q \in Procs : TaskInv(q)
      /\ KnownRuns /\ SingleFinalizer /\ CompletedIsDurable
  BY DEF CoreInv
<1>l. /\ \A q \in Procs : LifeTask(q)
      /\ GuardIsHeld /\ RecoveryInv /\ HandleIsLive /\ OwnedIsRunning /\ OwnerIsGoingOn
  BY DEF LifeInv
<1>1. ASSUME NEW p \in Procs,
             ApplyPartial(p) \/ ApplyPending(p) \/ ApplySave(p) \/ AguiEnd(p)
      PROVE  LifeInv'
  <2>1. \E c \in {"pending", "return", "finish", "failed"} :
          /\ Goto(p, c)
          /\ \/ task[p].pc = "partial" /\ c = "pending"
             \/ task[p].pc = "pending" /\ c = "return"
             \/ task[p].pc = "save" /\ c = "finish"
             \/ task[p].pc = "agui" /\ c \in {"return", "failed"}
    BY <1>1 DEF ApplyPartial, ApplyPending, ApplySave, AguiEnd
  <2>2. /\ UNCHANGED <<row, finalizing, todo, phase, handles>>
        /\ conv'.owner = conv.owner /\ conv'.status = conv.status
        /\ faults' >= faults
    BY <1>1, <1>t DEF ApplyPartial, ApplyPending, ApplySave, AguiEnd, WriteIfOwner,
       ConvRecord
  <2>3. QuietStep(p)
    BY <2>1, <2>2, <1>l, GotoFacts DEF QuietStep, LifeTask, Finalizes, ApplyPcs, Recovery, Kind
  <2>4. LifeTask(p)'
    BY <2>1, <2>2, <1>l, GotoFacts DEF LifeTask, ApplyPcs
  <2> QED BY <2>3, <2>4, QuietKeeps
<1>2. ASSUME NEW p \in Procs,
             UpstreamReturn(p) \/ UpstreamFailed(p) \/ NotifyEnd(p) \/ TimeoutEnd(p)
      PROVE  LifeInv'
  <2>1. QuietStep(p)
    BY <1>2, <1>t DEF QuietStep, UpstreamReturn, UpstreamFailed, NotifyEnd, TimeoutEnd,
       IdleTask, OnlyTask, Finalizes, ApplyPcs, Kind, Recovery, Lanes
  <2>2. LifeTask(p)'
    BY <1>2, <1>t, <1>l DEF UpstreamReturn, UpstreamFailed, NotifyEnd, TimeoutEnd,
       IdleTask, LifeTask, ApplyPcs
  <2> QED BY <2>1, <2>2, QuietKeeps
<1>3. ASSUME NEW p \in Procs, StopCommand(p) \/ StopEndResponse(p) \/ StopFail(p)
      PROVE  LifeInv'
  <2>1. /\ \E c \in {"endresponse", "return", "failed"} : Goto(p, c)
        /\ task[p].pc \in {"cancelling", "command", "endresponse", "reconcile"}
        /\ Kind(p) \in {"stop", "launch"}
        /\ UNCHANGED <<row, conv, finalizing, todo, phase, handles>> /\ faults' >= faults
    BY <1>3, <1>t, <1>c DEF StopCommand, StopEndResponse, StopFail, TaskInv, KindInv, StopPcs
  <2>2. QuietStep(p)
    BY <2>1, GotoFacts DEF QuietStep, Finalizes, ApplyPcs, Kind, Recovery
  <2>3. LifeTask(p)'
    BY <2>1, <1>l, GotoFacts DEF LifeTask, ApplyPcs, Recovery
  <2> QED BY <2>2, <2>3, QuietKeeps
<1>4. ASSUME NEW p \in Procs, StopEnd(p) \/ LaunchEnd(p)
      PROVE  LifeInv'
  <2>1. QuietStep(p)
    BY <1>4, <1>t DEF QuietStep, StopEnd, LaunchEnd, LaunchDone, IdleTask,
       OnlyTask, Finalizes, ApplyPcs, Kind, Recovery
  <2>2. LifeTask(p)'
    BY <1>4, <1>t, <1>l DEF StopEnd, LaunchEnd, LaunchDone, IdleTask, LifeTask, ApplyPcs
  <2> QED BY <2>1, <2>2, QuietKeeps
<1>5. ASSUME NEW p \in Procs, LaunchStopped(p)
      PROVE  LifeInv'
  <2>1. /\ LaunchDone(p) \/ \E c \in {"reclaim", "handoff"} : Goto(p, c)
        /\ task[p].pc \in {"return", "failed"} /\ Kind(p) = "launch"
        /\ UNCHANGED <<row, conv, finalizing, todo, phase, handles, faults>>
    BY <1>5 DEF LaunchStopped
  <2>2. QuietStep(p)
    BY <2>1, <1>t, GotoFacts, IdleFacts DEF QuietStep, LaunchDone, Finalizes, ApplyPcs, Kind, Recovery
  <2>3. LifeTask(p)'
    BY <2>1, <1>l, GotoFacts, IdleFacts DEF LifeTask, LaunchDone, ApplyPcs
  <2> QED BY <2>2, <2>3, QuietKeeps
<1>6. ASSUME NEW p \in Procs, StopFind(p)
      PROVE  LifeInv'
  <2>1. PICK r \in FindActive :
          task' = [task EXCEPT ![p] = [IdleTask EXCEPT !.pc = "found", !.run = r]]
    BY <1>6 DEF StopFind
  <2>2. /\ task[p].pc \in {"idle", "find"} /\ Kind(p) \in {"stop", "launch"}
        /\ phase = "up"
        /\ UNCHANGED <<row, conv, finalizing, todo, phase, handles, faults>>
    BY <1>6 DEF StopFind
  <2>3. r = None \/ row[r] # "absent"
    BY FindActiveRow DEF TypeInv, TypeOK, Active, RunningMutable
  <2>4. /\ OnlyTask(p)
        /\ task'[p].pc = "found" /\ task'[p].run = r
    BY <2>1, <1>t DEF OnlyTask, IdleTask
  <2>5. QuietStep(p)
    BY <2>2, <2>4, <1>t DEF QuietStep, Finalizes, ApplyPcs, Kind, Recovery
  <2>6. LifeTask(p)'
    BY <2>2, <2>3, <2>4 DEF LifeTask, ApplyPcs
  <2> QED BY <2>5, <2>6, QuietKeeps
<1>7. ASSUME NEW p \in Procs, TimeoutFire(p)
      PROVE  LifeInv'
  <2>1. /\ task[p].pc = "idle" /\ Kind(p) = "timeout" /\ p[2] \in Runs
        /\ phase = "up"
        /\ UNCHANGED <<row, conv, finalizing, todo, phase, handles, faults>>
    BY <1>7, ProcOfRun DEF TimeoutFire
  <2>2. \/ task' = task
        \/ /\ p[2] \in handles
           /\ task' = [task EXCEPT ![p] = [IdleTask EXCEPT !.pc = "force", !.run = p[2]]]
    BY <1>7 DEF TimeoutFire
  <2>2a. /\ OnlyTask(p)
         /\ \/ task'[p] = task[p]
            \/ task'[p].pc = "force" /\ task'[p].run = p[2] /\ p[2] \in handles
    BY ZenonT(40), <2>2, <1>t DEF OnlyTask, IdleTask
  <2>3. QuietStep(p)
    BY <2>1, <2>2a, <1>t DEF QuietStep, Finalizes, ApplyPcs, Kind, Recovery
  <2>4. LifeTask(p)'
    BY <2>1, <2>2a, <1>c, <1>l DEF LifeTask, ApplyPcs, KnownRuns
  <2> QED BY <2>3, <2>4, QuietKeeps
<1>8. ASSUME NEW p \in Procs, Deliver(p)
      PROVE  LifeInv'
  <2> DEFINE r == p[2]
  <2>1. r \in Runs /\ Kind(p) \in {"upstream", "repost"} /\ task[p].pc = "idle"
    BY <1>8 DEF Deliver, Lanes, Procs, Kind
  <2>2. PICK i \in {acked[r], acked[r] + 1} \ {0} :
          \E m \in (IF i <= Len(log[r]) THEN {log[r][i]}
                    ELSE IF hosted[r] = "yes" THEN NextMsgs(r) ELSE {}) :
            IF Passes(r, i) THEN Accept(p, r, m, i) ELSE Skip(p, r, m, i)
    BY <1>8 DEF Deliver
  <2>3. PICK m \in (IF i <= Len(log[r]) THEN {log[r][i]}
                    ELSE IF hosted[r] = "yes" THEN NextMsgs(r) ELSE {}) :
            IF Passes(r, i) THEN Accept(p, r, m, i) ELSE Skip(p, r, m, i)
    BY <2>2
  <2>4. UNCHANGED <<row, conv, handles, todo, phase, faults>> /\ phase = "up"
    BY <1>8 DEF Deliver
  <2>5. CASE Skip(p, r, m, i)
    <3>1. UNCHANGED <<task, finalizing>>
      BY <2>5 DEF Skip
    <3>2. QuietStep(p)
      BY <2>1, <2>4, <3>1, <1>t DEF QuietStep, OnlyTask, Finalizes, Recovery, Kind
    <3>3. LifeTask(p)'
      BY <2>4, <3>1, <1>l DEF LifeTask
    <3> QED BY <3>2, <3>3, QuietKeeps
  <2>6. CASE Passes(r, i) /\ Accept(p, r, m, i) /\ m = "agui"
    <3>1. /\ OnlyTask(p)
          /\ task'[p].pc = "agui" /\ task'[p].run = r
          /\ UNCHANGED finalizing /\ r \in handles
      BY <2>6, <1>t DEF Accept, OnlyTask, Passes
    <3>2. QuietStep(p)
      BY <2>1, <2>4, <3>1, <1>t DEF QuietStep, Finalizes, Recovery, Kind, ApplyPcs
    <3>3. LifeTask(p)'
      BY <2>1, <2>4, <3>1, <1>c DEF LifeTask, KnownRuns, ApplyPcs, Kind
    <3> QED BY <3>2, <3>3, QuietKeeps
  <2>7. CASE Passes(r, i) /\ Accept(p, r, m, i) /\ m # "agui"
    <3>1. i \in Nat /\ log[r] \in Seq(WorkerMsgs) /\ lastSeq[r] \in Nat
      <4>1. /\ log \in [Runs -> Seq(WorkerMsgs)] /\ lastSeq \in [Runs -> Nat]
            /\ acked \in [Runs -> Nat]
        BY DEF TypeInv, TypeOK
      <4> QED BY <2>1, <4>1
    <3>2. m \in Applied
      <4>1. NextMsgs(r) \subseteq WorkerMsgs
        BY DEF NextMsgs, WorkerMsgs, Terminal
      <4> QED BY <2>3, <2>7, <3>1, <4>1 DEF Applied
    <3>3. StartApply(p, r, m, i, lastSeq[r]) /\ Decide(r) /\ r \in handles
      BY <2>7 DEF Accept, Passes
    <3>4. row[r] # "absent"
      BY <3>3, <1>c DEF KnownRuns
    <3>5. p # Recovery /\ task[p].pc \notin ApplyPcs \cup {"create", "failclaim", "register"}
      BY <2>1 DEF Recovery, ApplyPcs, Kind
    <3> HIDE DEF r
    <3> QED BY <2>1, <2>4, <3>1, <3>2, <3>3, <3>4, <3>5, StartApplyLives
  <2> QED BY <2>3, <2>5, <2>6, <2>7
<1>9. ASSUME NEW p \in Procs, Notify(p)
      PROVE  LifeInv'
  <2>1. PICK s \in {"error", "cancelled"} : StartApply(p, p[2], s, 0, 0)
    BY <1>9 DEF Notify
  <2>2. /\ p[2] \in Runs /\ Kind(p) = "notify" /\ p[2] \in handles /\ Decide(p[2])
        /\ task[p].pc = "idle" /\ phase = "up"
        /\ UNCHANGED <<row, conv, handles, todo, phase, faults>>
    BY <1>9, ProcOfRun DEF Notify
  <2>3. s \in Applied /\ s \in Terminal
    BY DEF Applied, WorkerMsgs, Terminal
  <2>4. p # Recovery /\ task[p].pc \notin ApplyPcs \cup {"create", "failclaim", "register"}
    BY <2>2 DEF Recovery, ApplyPcs, Kind
  <2> QED BY <2>1, <2>2, <2>3, <2>4, <1>c, StartApplyLives DEF KnownRuns
<1>10. ASSUME NEW p \in Procs, TimeoutForce(p)
      PROVE  LifeInv'
  <2> DEFINE r == task[p].run
  <2>1. /\ Kind(p) = "timeout" /\ task[p].pc = "force" /\ r \in Runs /\ row[r] # "absent"
        /\ p # Recovery /\ task[p].pc \notin ApplyPcs \cup {"create", "failclaim", "register"}
        /\ UNCHANGED <<row, conv, handles, todo, phase, faults>>
    BY <1>10, <1>t, <1>l DEF TimeoutForce, RunPcs, ApplyPcs, Kind, Recovery, LifeTask
  <2>2. phase = "up"
    BY <2>1, <1>l DEF LifeTask, TypeInv, TypeOK
  <2>3. CASE Decide(r) /\ StartApply(p, r, "error", 0, 0)
    <3> HIDE DEF r
    <3> QED BY <2>1, <2>2, <2>3, StartApplyLives DEF Applied, WorkerMsgs, Terminal
  <2>4. CASE Goto(p, "return") /\ UNCHANGED finalizing
    <3>1. QuietStep(p)
      BY <2>1, <2>4, <1>t, GotoFacts DEF QuietStep, Finalizes, ApplyPcs
    <3>2. LifeTask(p)'
      BY <2>1, <2>2, <2>4, <1>l, GotoFacts DEF LifeTask, ApplyPcs
    <3> QED BY <3>1, <3>2, QuietKeeps
  <2> QED BY <1>10, <2>3, <2>4 DEF TimeoutForce
<1>11. ASSUME NEW p \in Procs, StopFound(p)
      PROVE  LifeInv'
  <2> DEFINE r == task[p].run
  <2>1. /\ task[p].pc = "found" /\ Kind(p) \in {"launch", "stop"}
        /\ r \in Runs => row[r] # "absent"
        /\ p # Recovery /\ task[p].pc \notin ApplyPcs \cup {"create", "failclaim", "register"}
        /\ UNCHANGED <<row, conv, handles, todo, phase, faults>>
    BY <1>11, <1>t, <1>c, <1>l DEF StopFound, TaskInv, KindInv, StopPcs, LifeTask,
       ApplyPcs, Kind, Recovery
  <2>2. phase = "up"
    BY <2>1, <1>l DEF LifeTask, TypeInv, TypeOK
  <2>3. CASE r \in Runs /\ Decide(r) /\ StartApply(p, r, "cancelled", 0, 0)
    <3> HIDE DEF r
    <3> QED BY <2>1, <2>2, <2>3, StartApplyLives DEF Applied, WorkerMsgs, Terminal
  <2>4. CASE \E c \in {"cancelling", "reconcile", "return"} : Goto(p, c) /\ UNCHANGED finalizing
    <3>1. QuietStep(p)
      BY <2>1, <2>4, <1>t, GotoFacts DEF QuietStep, Finalizes, ApplyPcs
    <3>2. LifeTask(p)'
      BY <2>1, <2>2, <2>4, <1>l, GotoFacts DEF LifeTask, ApplyPcs
    <3> QED BY <3>1, <3>2, QuietKeeps
  <2> QED BY <1>11, <2>3, <2>4, <1>t DEF StopFound
<1>12. ASSUME NEW p \in Procs, LaunchSubmit(p)
      PROVE  LifeInv'
  <2>1. /\ Kind(p) = "launch" /\ task[p].pc = "submit" /\ p[2] \in Runs
        /\ row[p[2]] # "absent"
        /\ p # Recovery /\ task[p].pc \notin ApplyPcs \cup {"create", "failclaim", "register"}
        /\ UNCHANGED <<row, conv, handles, todo, phase, faults>>
    BY <1>12, <1>c, ProcOfRun DEF LaunchSubmit, TaskInv, LaunchInv, ApplyPcs, Kind, Recovery
  <2>2. phase = "up"
    BY <2>1, <1>l DEF LifeTask, TypeInv, TypeOK
  <2>3. CASE Decide(p[2]) /\ StartApply(p, p[2], "error", 0, 0)
    BY <2>1, <2>2, <2>3, StartApplyLives DEF Applied, WorkerMsgs, Terminal
  <2>4. CASE LaunchDone(p) /\ UNCHANGED finalizing
    <3>1. OnlyTask(p)
      BY <2>4, IdleFacts DEF LaunchDone
    <3>2. QuietStep(p)
      BY <2>1, <2>4, <3>1, <1>t DEF QuietStep, Finalizes
    <3>3. LifeTask(p)'
      BY <2>1, <2>2, <2>4, IdleFacts DEF LifeTask, ApplyPcs, LaunchDone, IdleTask
    <3> QED BY <3>2, <3>3, QuietKeeps
  <2> QED BY <1>12, <2>3, <2>4 DEF LaunchSubmit
<1>13. ASSUME NEW p \in Procs, RecoveryNext(p)
      PROVE  LifeInv'
  <2>1. PICK r \in todo :
          IF Decide(r) THEN StartApply(p, r, "error", 0, 0) /\ UNCHANGED todo
                       ELSE todo' = todo \ {r} /\ UNCHANGED <<task, finalizing>>
    BY <1>13 DEF RecoveryNext
  <2>2. /\ r \in Runs /\ row[r] # "absent" /\ p = Recovery /\ task[p].pc = "next"
        /\ UNCHANGED <<row, conv, handles, phase, faults>>
    BY <1>13, <1>t, <1>c DEF RecoveryNext, KnownRuns
  <2>3. CASE Decide(r)
    <3>1. task[p].pc \notin ApplyPcs \cup {"create", "failclaim", "register"}
      BY <2>2 DEF ApplyPcs
    <3> QED BY <2>1, <2>2, <2>3, <3>1, StartApplyLives DEF Applied, WorkerMsgs, Terminal
  <2>4. CASE ~Decide(r)
    <3>1. LifeStep(p)
      BY <2>1, <2>2, <2>4, <1>t DEF LifeStep, RowStep, OnlyTask, Finalizes, ApplyPcs,
         TypeInv, TypeOK
    <3>2. LifeTask(p)'
      BY <2>1, <2>2, <2>4, <1>l DEF LifeTask
    <3>3. HandleIsLive' /\ OwnedIsRunning' /\ OwnerIsGoingOn'
      BY <2>1, <2>2, <2>4, <1>l DEF HandleIsLive, OwnedIsRunning, OwnerIsGoingOn
    <3>4. phase = "boot" => row[r] \notin Active
      <4> SUFFICES ASSUME phase = "boot" PROVE row[r] \in Terminal
        BY DEF Active, RunningMutable, Terminal
      <4>1. CASE r \in completed
        BY <4>1, <1>c DEF CompletedIsDurable
      <4>2. CASE r \in finalizing
        <5>1. PICK q \in Procs : Finalizes(q, r)
          BY <4>2, <1>l DEF GuardIsHeld
        <5> QED BY <2>2, <5>1, <1>l DEF LifeTask, Finalizes, ApplyPcs
      <4> QED BY <2>4, <4>1, <4>2 DEF Decide
    <3>5. RecoveryInv'
      BY <2>1, <2>2, <2>4, <3>4, <1>l DEF RecoveryInv
    <3> QED BY <3>1, <3>2, <3>3, <3>5, LifeKeeps DEF LifeInv
  <2> QED BY <2>3, <2>4
<1>14. ASSUME NEW p \in Procs, ApplyPersist(p)
      PROVE  LifeInv'
  <2> DEFINE r == task[p].run
             m == task[p].st
             c == AfterPersist(m, task[p].live)
  <2>1. /\ task[p].pc = "persist" /\ r \in Runs /\ m \in Applied /\ row[r] # "absent"
        /\ row' = [row EXCEPT ![r] = Mark(row[r], m)] /\ Goto(p, c)
        /\ UNCHANGED <<conv, finalizing, todo, phase, handles, faults>>
    BY <1>14, <1>t, <1>l DEF ApplyPersist, RunPcs, ApplyPcs, LifeTask
  <2>2. /\ Mark(row[r], m) # "absent"
        /\ row[r] \in Terminal => Mark(row[r], m) = row[r]
        /\ m \in Terminal => Mark(row[r], m) \in Terminal
        /\ m \notin Terminal /\ row[r] \in Active => Mark(row[r], m) \in Active
        /\ Mark(row[r], m) \in Active => row[r] \in Active
    BY <2>1, <1>t DEF Mark, StatusOf, Active, RunningMutable, Terminal, Applied, WorkerMsgs
  <2>3. /\ c \in {"project", "partial", "pending", "return"}
        /\ c = "project" <=> m \in Terminal
    BY DEF AfterPersist, Terminal
  <2>4. \A s \in Runs : row'[s] = IF s = r THEN Mark(row[r], m) ELSE row[s]
    BY <2>1, <1>t
  <2>5. OnlyTask(p) /\ task'[p].pc = c /\ task'[p].run = r /\ task'[p].st = m
    BY <2>1, GotoFacts
  <2> HIDE DEF r, m, c
  <2>6. LifeStep(p)
    <3>1. RowStep(p)
      BY <2>1, <2>2, <2>4 DEF RowStep
    <3>2. \A s \in Runs : Finalizes(p, s) => Finalizes(p, s)'
      BY <2>1, <2>3, <2>5 DEF Finalizes, ApplyPcs, r, m
    <3> QED BY <2>1, <2>5, <3>1, <3>2 DEF LifeStep, TypeInv, TypeOK
  <2>7. LifeTask(p)'
    <3>1. task'[p].run # None => row'[task'[p].run] # "absent"
      BY <2>1, <2>2, <2>4, <2>5
    <3>2. phase = "boot" /\ p # Recovery => FALSE
      BY <2>1, <1>l DEF LifeTask
    <3>3. Kind(p) \notin {"upstream", "repost"} => m \in Terminal
      BY <2>1, <1>l DEF LifeTask, ApplyPcs, m
    <3> QED BY <2>1, <2>3, <2>5, <3>1, <3>2, <3>3 DEF LifeTask, ApplyPcs
  <2>8. RecoveryInv'
    <3>1. \A s \in Runs : row'[s] \in Active => row[s] \in Active
      BY <2>2, <2>4
    <3>2. Recovery \in Procs
      BY DEF Recovery, Procs
    <3>3. CASE p = Recovery
      <4>1. m \in Terminal /\ c = "project"
        BY <2>1, <2>3, <3>3, <1>l DEF LifeTask, ApplyPcs, Kind, Recovery, m
      <4> QED BY <2>1, <2>5, <3>1, <3>3, <4>1, <1>l DEF RecoveryInv
    <3>4. CASE p # Recovery
      <4>1. phase = "up"
        BY <2>1, <3>4, <1>l DEF LifeTask, TypeInv, TypeOK
      <4> QED BY <2>1, <2>5, <2>6, <3>4, <4>1, RecoveryKeeps DEF LifeStep
    <3> QED BY <3>3, <3>4
  <2>9. HandleIsLive' /\ OwnedIsRunning'
    <3>1. \A s \in Runs : task[<<"launch", s>>].pc = "register"
                            => task'[<<"launch", s>>].pc = "register"
      BY <2>1, <2>5 DEF OnlyTask, Procs
    <3>2. \A s \in Runs : row'[s] \in Active => row[s] \in Active
      BY <2>2, <2>4
    <3> QED BY <2>1, <3>1, <3>2, <1>l DEF HandleIsLive, OwnedIsRunning
  <2>10. OwnerIsGoingOn'
    <3>1. \A s \in Runs : \A d \in {"create", "failclaim"} :
            task[<<"launch", s>>].pc = d => task'[<<"launch", s>>].pc = d
      BY <2>1, <2>5 DEF OnlyTask, Procs
    <3>2. \A s \in Runs : row[s] \in Active => row'[s] \in Active \/ s \in finalizing
      <4>1. m \in Terminal => r \in finalizing
        BY <2>1, <1>c DEF TaskInv, GuardInv, Finalizes, ApplyPcs, r, m
      <4> QED BY <2>2, <2>4, <4>1
    <3> QED BY <2>1, <3>1, <3>2, <1>l DEF OwnerIsGoingOn
  <2> QED BY <2>6, <2>7, <2>8, <2>9, <2>10, LifeKeeps DEF LifeInv
<1>15. ASSUME NEW p \in Procs, ApplyProject(p)
      PROVE  LifeInv'
  <2> DEFINE r == task[p].run
  <2>1. /\ task[p].pc = "project" /\ r \in Runs /\ row[r] \in Terminal
        /\ UNCHANGED <<row, finalizing, todo, phase, handles, faults>>
        /\ \E c \in {"save", "finish"} : Goto(p, c)
    BY <1>15, <1>t, <1>c DEF ApplyProject, RunPcs, ApplyPcs, TaskInv, EndedInv
  <2>2. conv'.owner = None \/ conv' = conv
    BY <1>15 DEF ApplyProject, WriteIfOwner, Released
  <2>3. OnlyTask(p) /\ task'[p].pc \in {"save", "finish"} /\ task'[p].run = r
        /\ task'[p].st = task[p].st
    BY <2>1, GotoFacts
  <2>4. LifeStep(p)
    BY <2>1, <2>3, <1>t DEF LifeStep, RowStep, Finalizes, ApplyPcs
  <2>5. LifeTask(p)'
    BY <2>1, <2>3, <1>l DEF LifeTask, ApplyPcs
  <2>6. RecoveryInv'
    <3>1. Recovery \in Procs
      BY DEF Recovery, Procs
    <3> QED BY <2>1, <2>3, <3>1, <1>l DEF RecoveryInv, OnlyTask
  <2>7. \A s \in Runs : \A d \in {"create", "failclaim", "register"} :
            task[<<"launch", s>>].pc = d => task'[<<"launch", s>>].pc = d
    BY <2>1, <2>3 DEF OnlyTask, Procs
  <2>8. HandleIsLive' /\ OwnedIsRunning' /\ OwnerIsGoingOn'
    BY <2>1, <2>2, <2>7, <1>l, <1>t DEF HandleIsLive, OwnedIsRunning, OwnerIsGoingOn
  <2> QED BY <2>4, <2>5, <2>6, <2>8, LifeKeeps DEF LifeInv
<1>16. ASSUME NEW p \in Procs, ApplyFinish(p)
      PROVE  LifeInv'
  <2> DEFINE r == task[p].run
  <2>1. /\ task[p].pc = "finish" /\ r \in Runs /\ row[r] \in Terminal
        /\ conv.owner # r
        /\ finalizing' = finalizing \ {r} /\ handles \ {r} \subseteq handles'
        /\ UNCHANGED <<row, conv, todo, phase, faults>> /\ Goto(p, "return")
    BY <1>16, <1>t, <1>c DEF ApplyFinish, RunPcs, ApplyPcs, TaskInv, EndedInv
  <2>2. OnlyTask(p) /\ task'[p].pc = "return" /\ task'[p].run = r
        /\ task'[p].st = task[p].st
    BY <2>1, GotoFacts
  <2>3. LifeStep(p)
    <3>1. \A s \in Runs : Finalizes(p, s) => s = r
      BY DEF Finalizes
    <3> QED BY <2>1, <2>2, <3>1, <1>t DEF LifeStep, RowStep, TypeInv, TypeOK
  <2>4. LifeTask(p)'
    BY <2>1, <2>2, <1>l DEF LifeTask, ApplyPcs
  <2>5. RecoveryInv'
    <3>1. Recovery \in Procs
      BY DEF Recovery, Procs
    <3> QED BY <2>1, <2>2, <3>1, <1>l DEF RecoveryInv, OnlyTask
  <2>6. \A s \in Runs : \A d \in {"create", "failclaim", "register"} :
            task[<<"launch", s>>].pc = d => task'[<<"launch", s>>].pc = d
    BY <2>1, <2>2 DEF OnlyTask, Procs
  <2>7. row[r] \notin Active
    BY <2>1 DEF Active, RunningMutable, Terminal
  <2>8. HandleIsLive' /\ OwnedIsRunning' /\ OwnerIsGoingOn'
    BY <2>1, <2>6, <2>7, <1>l, <1>t DEF HandleIsLive, OwnedIsRunning, OwnerIsGoingOn
  <2> QED BY <2>3, <2>4, <2>5, <2>8, LifeKeeps DEF LifeInv
<1>17. ASSUME NEW p \in Procs, ApplyFail(p)
      PROVE  LifeInv'
  <2> DEFINE r == task[p].run
  <2>1. /\ task[p].pc \in ApplyPcs /\ r \in Runs
        /\ finalizing' = IF task[p].st \in Terminal THEN finalizing \ {r} ELSE finalizing
        /\ faults' = faults + 1
        /\ UNCHANGED <<row, conv, todo, phase, handles>> /\ Goto(p, "failed")
    BY <1>17, <1>t, <1>c DEF ApplyFail, RunPcs, ApplyPcs
  <2>2. OnlyTask(p) /\ task'[p].pc = "failed" /\ task'[p].run = r
        /\ task'[p].st = task[p].st
    BY <2>1, GotoFacts
  <2>3. LifeStep(p)
    <3>1. \A s \in Runs : Finalizes(p, s) => s = r /\ task[p].st \in Terminal
      BY DEF Finalizes
    <3> QED BY <2>1, <2>2, <3>1, <1>t DEF LifeStep, RowStep, TypeInv, TypeOK
  <2>4. LifeTask(p)'
    BY <2>1, <2>2, <1>l DEF LifeTask, ApplyPcs
  <2>5. RecoveryInv'
    <3>1. Recovery \in Procs
      BY DEF Recovery, Procs
    <3> QED BY <2>1, <2>2, <3>1, <1>l DEF RecoveryInv, OnlyTask
  <2>6. \A s \in Runs : \A d \in {"create", "failclaim", "register"} :
            task[<<"launch", s>>].pc = d => task'[<<"launch", s>>].pc = d
    BY <2>1, <2>2 DEF OnlyTask, Procs, ApplyPcs
  <2>7. HandleIsLive' /\ OwnedIsRunning' /\ OwnerIsGoingOn'
    BY <2>1, <2>6, <1>l, <1>t DEF HandleIsLive, OwnedIsRunning, OwnerIsGoingOn
  <2> QED BY <2>3, <2>4, <2>5, <2>7, LifeKeeps DEF LifeInv
<1>18. ASSUME NEW p \in Procs, StopCancelling(p)
      PROVE  LifeInv'
  <2> DEFINE r == task[p].run
  <2>1. /\ task[p].pc = "cancelling" /\ r \in Runs /\ row[r] # "absent"
        /\ Kind(p) \in {"stop", "launch"} /\ p # Recovery /\ phase = "up"
        /\ row' = [row EXCEPT ![r] = Mark(row[r], "cancelling")] /\ Goto(p, "command")
        /\ UNCHANGED <<conv, finalizing, todo, phase, handles, faults>>
    <3>1. /\ task[p].pc = "cancelling"
          /\ row' = [row EXCEPT ![r] = Mark(row[r], "cancelling")] /\ Goto(p, "command")
          /\ UNCHANGED <<conv, finalizing, todo, phase, handles, faults>>
      BY <1>18 DEF StopCancelling
    <3>2. r \in Runs /\ row[r] # "absent"
      BY <3>1, <1>t, <1>l DEF RunPcs, LifeTask
    <3>3. Kind(p) \in {"stop", "launch"} /\ p # Recovery
      BY <3>1, <1>c DEF TaskInv, KindInv, StopPcs, Kind, Recovery
    <3>4. phase = "up"
      BY <3>1, <3>3, <1>l DEF LifeTask, TypeInv, TypeOK
    <3> QED BY <3>1, <3>2, <3>3, <3>4
  <2>2. /\ Mark(row[r], "cancelling") # "absent"
        /\ row[r] \in Terminal => Mark(row[r], "cancelling") = row[r]
        /\ Mark(row[r], "cancelling") \in Active <=> row[r] \in Active
    BY <2>1, <1>t DEF Mark, StatusOf, Active, RunningMutable, Terminal
  <2>3. \A s \in Runs : row'[s] = IF s = r THEN Mark(row[r], "cancelling") ELSE row[s]
    BY <2>1, <1>t
  <2>4. OnlyTask(p) /\ task'[p].pc = "command" /\ task'[p].run = r
    BY <2>1, GotoFacts
  <2> HIDE DEF r
  <2>5. LifeStep(p)
    <3>1. RowStep(p)
      BY <2>1, <2>2, <2>3 DEF RowStep
    <3> QED BY <2>1, <2>4, <3>1 DEF LifeStep, Finalizes, ApplyPcs, TypeInv, TypeOK
  <2>6. LifeTask(p)'
    BY <2>1, <2>2, <2>3, <2>4 DEF LifeTask, ApplyPcs
  <2>7. RecoveryInv'
    BY <2>1, <2>4, <2>5, RecoveryKeeps DEF LifeStep
  <2>8. HandleIsLive' /\ OwnedIsRunning' /\ OwnerIsGoingOn'
    <3>1. \A s \in Runs : \A d \in {"create", "failclaim", "register"} :
            task[<<"launch", s>>].pc = d => task'[<<"launch", s>>].pc = d
      BY <2>1, <2>4 DEF OnlyTask, Procs
    <3>2. \A s \in Runs : row'[s] \in Active <=> row[s] \in Active
      BY <2>2, <2>3
    <3> QED BY <2>1, <3>1, <3>2, <1>l DEF HandleIsLive, OwnedIsRunning, OwnerIsGoingOn
  <2> QED BY <2>5, <2>6, <2>7, <2>8, LifeKeeps DEF LifeInv
<1>19. ASSUME NEW p \in Procs, StopReconcile(p)
      PROVE  LifeInv'
  <2>1. /\ task[p].pc = "reconcile" /\ Kind(p) \in {"stop", "launch"} /\ p # Recovery
        /\ phase = "up" /\ Goto(p, "return")
        /\ conv' = conv \/ conv'.owner = None
        /\ UNCHANGED <<row, finalizing, todo, phase, handles, faults>>
    BY ZenonT(40), <1>19, <1>c, <1>l DEF StopReconcile, LifeTask, TaskInv, KindInv, StopPcs, Kind, Recovery,
       Released, TypeInv, TypeOK
  <2>2. OnlyTask(p) /\ task'[p].pc = "return" /\ task'[p].run = task[p].run
    BY <2>1, GotoFacts
  <2>3. LifeStep(p)
    BY <2>1, <2>2, <1>t DEF LifeStep, RowStep, Finalizes, ApplyPcs
  <2>4. LifeTask(p)'
    BY <2>1, <2>2, <1>l DEF LifeTask, ApplyPcs
  <2>5. RecoveryInv'
    BY <2>1, <2>3, RecoveryKeeps DEF LifeStep
  <2>6. \A s \in Runs : \A d \in {"create", "failclaim", "register"} :
            task[<<"launch", s>>].pc = d => task'[<<"launch", s>>].pc = d
    BY <2>1, <2>2 DEF OnlyTask, Procs
  <2>7. HandleIsLive' /\ OwnedIsRunning' /\ OwnerIsGoingOn'
    BY <2>1, <2>6, <1>l, <1>t DEF HandleIsLive, OwnedIsRunning, OwnerIsGoingOn
  <2> QED BY <2>3, <2>4, <2>5, <2>7, LifeKeeps DEF LifeInv
<1>20. ASSUME NEW p \in Procs, LaunchClaim(p) \/ LaunchHandoff(p) \/ LaunchReclaim(p)
      PROVE  LifeInv'
  <2>1. /\ task[p].pc \in {"idle", "handoff", "reclaim"}
        /\ Kind(p) = "launch" /\ p # Recovery /\ p[2] \in Runs /\ p = <<"launch", p[2]>>
        /\ UNCHANGED <<row, finalizing, todo, phase, handles, faults>>
    BY <1>20, ProcOfRun DEF LaunchClaim, LaunchHandoff, LaunchReclaim, Kind, Recovery
  <2>2. \/ conv' = ClaimedBy(p[2]) /\ Goto(p, "create")
        \/ conv' = conv /\ (LaunchDone(p) \/ \E c \in {"find", "reclaim"} : Goto(p, c))
    BY <1>20 DEF LaunchClaim, LaunchHandoff, LaunchReclaim
  <2>3. phase = "up"
    BY <1>20, <2>1, <1>l DEF LaunchClaim, LaunchHandoff, LaunchReclaim, LifeTask, TypeInv, TypeOK
  <2>4. /\ OnlyTask(p) /\ task'[p].run \in {task[p].run, None}
        /\ \/ conv' = ClaimedBy(p[2]) /\ task'[p].pc = "create"
           \/ conv' = conv /\ task'[p].pc \in {"idle", "done", "next", "find", "reclaim"}
    BY <2>2, GotoFacts, IdleFacts DEF LaunchDone
  <2>5. LifeStep(p)
    BY <2>1, <2>4, <1>t DEF LifeStep, RowStep, Finalizes, ApplyPcs
  <2>6. LifeTask(p)'
    BY <2>1, <2>3, <2>4, <1>l DEF LifeTask, ApplyPcs
  <2>7. RecoveryInv'
    BY <2>1, <2>3, <2>5, RecoveryKeeps DEF LifeStep
  <2>8. \A s \in Runs : \A d \in {"create", "failclaim", "register"} :
            task[<<"launch", s>>].pc = d => task'[<<"launch", s>>].pc = d
    BY <2>1, <2>4 DEF OnlyTask, Procs
  <2>9. HandleIsLive' /\ OwnedIsRunning' /\ OwnerIsGoingOn'
    BY <2>1, <2>4, <2>8, <1>l, <1>t DEF HandleIsLive, OwnedIsRunning, OwnerIsGoingOn, ClaimedBy
  <2> QED BY <2>5, <2>6, <2>7, <2>9, LifeKeeps DEF LifeInv
<1>21. ASSUME NEW p \in Procs, LaunchCreate(p)
      PROVE  LifeInv'
  <2> DEFINE r == p[2]
  <2>1. /\ Kind(p) = "launch" /\ task[p].pc = "create" /\ p # Recovery
        /\ r \in Runs /\ p = <<"launch", r>> /\ row[r] = "absent"
        /\ UNCHANGED <<conv, finalizing, todo, phase, handles>>
        /\ \/ row' = [row EXCEPT ![r] = "queued"] /\ Goto(p, "register") /\ faults' = faults
           \/ row' = row /\ Goto(p, "failclaim") /\ faults' = faults + 1
    BY <1>21, <1>c, ProcOfRun DEF LaunchCreate, TaskInv, LaunchInv, BeforeCreate, Kind, Recovery
  <2>2. phase = "up"
    BY <2>1, <1>l DEF LifeTask, TypeInv, TypeOK
  <2>3. /\ OnlyTask(p) /\ task'[p].run = task[p].run
        /\ \/ row'[r] = "queued" /\ task'[p].pc = "register" /\ faults' = faults
           \/ row'[r] = "absent" /\ task'[p].pc = "failclaim" /\ faults' = faults + 1
        /\ \A s \in Runs : s # r => row'[s] = row[s]
    BY <2>1, <1>t, GotoFacts
  <2>4. LifeStep(p)
    BY <2>1, <2>2, <2>3, <1>t DEF LifeStep, RowStep, Finalizes, ApplyPcs, TypeInv, TypeOK
  <2>5. LifeTask(p)'
    BY <2>1, <2>2, <2>3, <1>l, <1>t DEF LifeTask, ApplyPcs
  <2>6. RecoveryInv'
    BY <2>1, <2>2, <2>4, RecoveryKeeps DEF LifeStep
  <2>7. \A s \in Runs \ {r} : task'[<<"launch", s>>] = task[<<"launch", s>>]
    BY <2>1, <2>3 DEF OnlyTask, Procs
  <2>8. HandleIsLive' /\ OwnedIsRunning' /\ OwnerIsGoingOn'
    BY <2>1, <2>2, <2>3, <2>7, <1>l, <1>t DEF HandleIsLive, OwnedIsRunning, OwnerIsGoingOn,
       Active, RunningMutable
  <2> QED BY <2>4, <2>5, <2>6, <2>8, LifeKeeps DEF LifeInv
<1>22. ASSUME NEW p \in Procs, LaunchFailClaim(p)
      PROVE  LifeInv'
  <2> DEFINE r == p[2]
  <2>1. /\ Kind(p) = "launch" /\ task[p].pc = "failclaim" /\ p # Recovery
        /\ r \in Runs /\ p = <<"launch", r>>
        /\ UNCHANGED <<row, finalizing, todo, phase, handles>>
        /\ \/ conv' = WriteIfOwner(conv, r, Released("error")) /\ faults' = faults
           \/ conv' = conv /\ faults' = faults + 1
        /\ LaunchDone(p)
    BY <1>22, ProcOfRun DEF LaunchFailClaim, Kind, Recovery
  <2>2. phase = "up"
    BY <2>1, <1>l DEF LifeTask, TypeInv, TypeOK
  <2>3. /\ conv' = conv \/ conv'.owner = None
        /\ faults' = 0 => faults = 0 /\ conv'.owner # r
    BY <2>1, <1>t DEF WriteIfOwner, Released
  <2>4. /\ OnlyTask(p) /\ task'[p].run = None
        /\ task'[p].pc \in {"idle", "done", "next"}
    BY <2>1, IdleFacts DEF LaunchDone
  <2>5. LifeStep(p)
    BY <2>1, <2>4, <1>t DEF LifeStep, RowStep, Finalizes, ApplyPcs
  <2>6. LifeTask(p)'
    BY <2>1, <2>2, <2>4 DEF LifeTask, ApplyPcs
  <2>7. RecoveryInv'
    BY <2>1, <2>2, <2>5, RecoveryKeeps DEF LifeStep
  <2>8. /\ \A s \in Runs \ {r} : task'[<<"launch", s>>] = task[<<"launch", s>>]
        /\ task[<<"launch", r>>].pc = "failclaim"
    BY <2>1, <2>4 DEF OnlyTask, Procs
  <2>9. HandleIsLive' /\ OwnedIsRunning' /\ OwnerIsGoingOn'
    BY <2>1, <2>3, <2>8, <1>l, <1>t DEF HandleIsLive, OwnedIsRunning, OwnerIsGoingOn
  <2> QED BY <2>5, <2>6, <2>7, <2>9, LifeKeeps DEF LifeInv
<1>23. ASSUME NEW p \in Procs, LaunchRegister(p)
      PROVE  LifeInv'
  <2> DEFINE r == p[2]
  <2>1. /\ Kind(p) = "launch" /\ task[p].pc = "register" /\ p # Recovery
        /\ r \in Runs /\ p = <<"launch", r>>
        /\ UNCHANGED <<row, conv, finalizing, todo, phase, faults>>
        /\ handles' = handles \cup {r} /\ Goto(p, "submit")
    BY <1>23, ProcOfRun DEF LaunchRegister, Kind, Recovery
  <2>2. phase = "up"
    BY <2>1, <1>l DEF LifeTask, TypeInv, TypeOK
  <2>3. /\ OnlyTask(p) /\ task'[p].run = task[p].run /\ task'[p].pc = "submit"
    BY <2>1, GotoFacts
  <2>4. LifeStep(p)
    BY <2>1, <2>3, <1>t DEF LifeStep, RowStep, Finalizes, ApplyPcs
  <2>5. LifeTask(p)'
    BY <2>1, <2>2, <2>3, <1>l DEF LifeTask, ApplyPcs
  <2>6. RecoveryInv'
    BY <2>1, <2>2, <2>4, RecoveryKeeps DEF LifeStep
  <2>7. /\ \A s \in Runs \ {r} : task'[<<"launch", s>>] = task[<<"launch", s>>]
        /\ task[<<"launch", r>>].pc = "register"
    BY <2>1, <2>3 DEF OnlyTask, Procs
  <2>8. HandleIsLive' /\ OwnedIsRunning' /\ OwnerIsGoingOn'
    BY <2>1, <2>7, <1>l, <1>t DEF HandleIsLive, OwnedIsRunning, OwnerIsGoingOn
  <2> QED BY <2>4, <2>5, <2>6, <2>8, LifeKeeps DEF LifeInv
<1>24. ASSUME NEW p \in Procs, RecoveryStart(p)
      PROVE  LifeInv'
  <2>1. /\ p = Recovery /\ task[p].pc = "idle" /\ Goto(p, "next")
        /\ todo' = {r \in Runs : row[r] \in Active}
        /\ UNCHANGED <<row, conv, finalizing, handles, phase, faults>>
    BY <1>24 DEF RecoveryStart
  <2>2. OnlyTask(p) /\ task'[p].pc = "next" /\ task'[p].run = task[p].run
    BY <2>1, GotoFacts
  <2>3. LifeStep(p)
    BY <2>1, <2>2, <1>t DEF LifeStep, RowStep, Finalizes, ApplyPcs
  <2>4. LifeTask(p)'
    BY <2>1, <2>2, <1>l DEF LifeTask, ApplyPcs, Kind, Recovery
  <2>5. RecoveryInv'
    BY <2>1, <2>2 DEF RecoveryInv
  <2>6. \A s \in Runs : task'[<<"launch", s>>] = task[<<"launch", s>>]
    BY <2>1, <2>2 DEF OnlyTask, Procs, Recovery
  <2>7. HandleIsLive' /\ OwnedIsRunning' /\ OwnerIsGoingOn'
    BY <2>1, <2>6, <1>l, <1>t DEF HandleIsLive, OwnedIsRunning, OwnerIsGoingOn
  <2> QED BY <2>3, <2>4, <2>5, <2>7, LifeKeeps DEF LifeInv
<1>25. ASSUME NEW p \in Procs, RecoveryReturn(p)
      PROVE  LifeInv'
  <2>1. /\ p = Recovery
        /\ UNCHANGED <<row, conv, finalizing, handles, phase, faults>>
        /\ \/ /\ task[p].pc = "return" /\ todo' = todo \ {task[p].run}
              /\ task' = [task EXCEPT ![p] = [IdleTask EXCEPT !.pc = "next"]]
           \/ task[p].pc = "failed" /\ task' = [task EXCEPT ![p] = IdleTask]
    BY <1>25 DEF RecoveryReturn
  <2>2. /\ OnlyTask(p) /\ task'[p].run = None
        /\ task[p].pc = "return" => task'[p].pc = "next"
        /\ task[p].pc = "failed" => task'[p].pc = "idle"
    BY <2>1, <1>t DEF OnlyTask, IdleTask
  <2>3. LifeStep(p)
    BY <2>1, <2>2, <1>t DEF LifeStep, RowStep, Finalizes, ApplyPcs
  <2>4. LifeTask(p)'
    BY <2>1, <2>2 DEF LifeTask, ApplyPcs, Kind, Recovery
  <2>5. RecoveryInv'
    BY <2>1, <2>2, <1>l DEF RecoveryInv, Active, RunningMutable, Terminal
  <2>6. \A s \in Runs : task'[<<"launch", s>>] = task[<<"launch", s>>]
    BY <2>1, <2>2 DEF OnlyTask, Procs, Recovery
  <2>7. HandleIsLive' /\ OwnedIsRunning' /\ OwnerIsGoingOn'
    BY <2>1, <2>6, <1>l, <1>t DEF HandleIsLive, OwnedIsRunning, OwnerIsGoingOn
  <2> QED BY <2>3, <2>4, <2>5, <2>7, LifeKeeps DEF LifeInv
<1>26. ASSUME NEW p \in Procs, RecoveryEnd(p)
      PROVE  LifeInv'
  <2>1. /\ p = Recovery /\ task[p].pc = "next" /\ todo = {} /\ phase' = "up"
        /\ task' = [task EXCEPT ![p] = IdleTask]
        /\ UNCHANGED <<row, finalizing, todo, handles, faults>>
        /\ conv' = conv \/ conv'.owner = None
        /\ phase = "boot" /\ StaleProjection => conv'.owner = None
    BY <1>26 DEF RecoveryEnd, Released
  <2>2. OnlyTask(p) /\ task'[p].pc = "idle" /\ task'[p].run = None
    BY <2>1, <1>t DEF OnlyTask, IdleTask
  <2>3. LifeStep(p)
    BY <2>1, <2>2, <1>t DEF LifeStep, RowStep, Finalizes, ApplyPcs
  <2>4. LifeTask(p)'
    BY <2>1, <2>2 DEF LifeTask, ApplyPcs, Kind, Recovery
  <2>5. RecoveryInv'
    BY <2>1, <2>2 DEF RecoveryInv
  <2>6. \A s \in Runs : task'[<<"launch", s>>] = task[<<"launch", s>>]
    BY <2>1, <2>2 DEF OnlyTask, Procs, Recovery
  <2>7. phase = "boot" => \A r \in Runs : row[r] \notin Active
    BY <2>1, <1>l DEF RecoveryInv
  <2>8. phase = "boot" => conv'.owner = None
    <3>1. phase = "boot" /\ conv.owner # None => StaleProjection
      BY <2>7, <1>l DEF StaleProjection, NoActiveRow, OwnedIsRunning
    <3> QED BY <2>1, <3>1
  <2>9. phase \in {"boot", "up"}
    BY DEF TypeInv, TypeOK
  <2>10. HandleIsLive' /\ OwnedIsRunning' /\ OwnerIsGoingOn'
    BY <2>1, <2>6, <2>7, <2>8, <2>9, <1>l, <1>t DEF HandleIsLive, OwnedIsRunning, OwnerIsGoingOn
  <2> QED BY <2>3, <2>4, <2>5, <2>10, LifeKeeps DEF LifeInv
<1>27. CASE Crash
  <2>1. /\ UNCHANGED <<row, conv>> /\ phase' = "boot" /\ finalizing' = {}
        /\ \A q \in Procs : /\ task'[q].run = None
                            /\ task'[q].pc \in {"idle", "done"}
                            /\ q = Recovery => task'[q].pc = "idle"
    BY <1>27 DEF Crash, IdleTask, Kind, Recovery
  <2>2. \A q \in Procs : LifeTask(q)'
    BY <2>1 DEF LifeTask, ApplyPcs
  <2>3. GuardIsHeld' /\ RecoveryInv' /\ HandleIsLive' /\ OwnerIsGoingOn'
    <3>1. Recovery \in Procs
      BY DEF Recovery, Procs
    <3> QED BY <2>1, <3>1 DEF GuardIsHeld, RecoveryInv, HandleIsLive, OwnerIsGoingOn
  <2>4. OwnedIsRunning'
    BY <2>1, <1>l DEF OwnedIsRunning
  <2> QED BY <2>2, <2>3, <2>4 DEF LifeInv
<1>28. CASE (\E r \in Runs : Expire(r)) \/ UNCHANGED vars
  <2>1. UNCHANGED <<row, conv, handles, finalizing, task, todo, phase, faults>>
    BY <1>28 DEF Expire
  <2> QED BY <2>1, <1>l DEF LifeInv, LifeTask, GuardIsHeld, Finalizes, RecoveryInv,
       HandleIsLive, OwnedIsRunning, OwnerIsGoingOn
<1> QED
  BY <1>1, <1>2, <1>3, <1>4, <1>5, <1>6, <1>7, <1>8, <1>9, <1>10, <1>11, <1>12,
     <1>13, <1>14, <1>15, <1>16, <1>17, <1>18, <1>19, <1>20, <1>21, <1>22, <1>23,
     <1>24, <1>25, <1>26, <1>27, <1>28 DEF Next, Continue, Begin, Apply, Stop, Launch,
     Recover

LEMMA LifeCorrect == Spec => []LifeInv
<1>1. Init => LifeInv
  <2> SUFFICES ASSUME Init PROVE LifeInv
    OBVIOUS
  <2>1. /\ \A p \in Procs : task[p] = IdleTask
        /\ conv.owner = None /\ finalizing = {} /\ phase = "up"
        /\ \A r \in Runs : row[r] = "absent"
    BY DEF Init
  <2>2. Recovery \in Procs /\ "absent" \notin Active
    BY DEF Recovery, Procs, Active, RunningMutable
  <2> QED BY <2>1, <2>2, ConstantsAssumption DEF LifeInv, LifeTask, GuardIsHeld, RecoveryInv,
       HandleIsLive, OwnedIsRunning, OwnerIsGoingOn, IdleTask, ApplyPcs
<1>2. IInv /\ IInv' /\ LifeInv /\ [Next]_vars => LifeInv'
  BY LifeNext DEF IInv
<1> QED BY <1>1, <1>2, IInvCorrect, PTL DEF Spec

(* As long as no database call has failed, a run that owns the conversation is
   being launched, or active, or being finalized: whatever stops, steers, reaps,
   timers and crashes meet, the conversation is never left to a run that nobody
   works on. *)
THEOREM OwnerAlwaysGoesOn == Spec => []OwnerIsGoingOn
<1>1. LifeInv => OwnerIsGoingOn
  BY DEF LifeInv
<1> QED BY <1>1, LifeCorrect, PTL

(* A run is in finalizingRuns only while a routine applies its terminal status:
   no failure, no race and no restart leaves the guard set for ever. *)
THEOREM GuardIsNeverLeft == Spec => []GuardIsHeld
<1>1. LifeInv => GuardIsHeld
  BY DEF LifeInv
<1> QED BY <1>1, LifeCorrect, PTL

-----------------------------------------------------------------------------
(* The claim of the conversation.  What follows needs that nobody stops or
   reaps a run between its claim and its registration: the window of "early",
   in which two runs may be active. *)

Working == Active \ {"cancelling"}

(* A stop inside a launch has told the run it found to cancel, or found that it
   has ended, before the launch goes on to take over. *)
StoppedTask(p) ==
  /\ task[p].pc = "reconcile" => task[p].run = None
  /\ /\ Kind(p) = "launch" /\ task[p].run \notin {None, p[2]}
     /\ task[p].pc \in {"command", "endresponse", "return", "handoff"}
     => row[task[p].run] \in {"cancelling"} \cup Terminal

(* A stop that has looked for the active run, and acts on what it found. *)
Looking(p) == task[p].pc \in {"found", "reconcile"}

Registering(r) == task[<<"launch", r>>].pc = "register"

(* Nobody but its launch knows a run that is not registered. *)
Untouched(r) ==
  /\ row[r] = "queued"
  /\ r \notin handles \cup todo \cup finalizing
  /\ \A q \in Procs : task[q].run # r

(* A working run owns the conversation. *)
WorkingOwns == \A r \in Runs : row[r] \in Working => conv.owner = r

ClaimInv ==
  /\ \A p \in Procs : StoppedTask(p)
  /\ \A p \in Procs : Looking(p) => \A r \in Runs : ~Launching(r)
  /\ \A r \in Runs : Registering(r) => Untouched(r)
  /\ \A r \in Runs : Launching(r) => conv.owner = r
  /\ WorkingOwns

(* What a step of p does to the runs that are being launched by others. *)
ClaimStep(p) ==
  /\ OnlyTask(p)
  /\ task'[p].pc \notin {"create", "register"}
  /\ Looking(p)' => Looking(p) \/ \A r \in Runs : ~Launching(r)
  /\ \A r \in Runs : Launching(r) => p = <<"launch", r>> \/ conv'.owner = conv.owner
  /\ \A r \in Runs : Registering(r) =>
       \/ p = <<"launch", r>>
       \/ /\ row'[r] = row[r] /\ task'[p].run # r
          /\ r \notin handles' \cup todo' \cup finalizing'

LEMMA ClaimKeeps ==
  ASSUME TypeInv, TypeInv', IInv, ClaimInv, [Next]_vars,
         NEW p \in Procs, ClaimStep(p), StoppedTask(p)', WorkingOwns'
  PROVE  ClaimInv'
<1>t. /\ \A q \in Procs : task[q].run \in Runs \cup {None}
      /\ None \notin Runs
  BY ConstantsAssumption DEF TypeInv, TypeOK, Task
<1>1. ASSUME NEW q \in Procs, q # p PROVE StoppedTask(q)'
  <2>1. StoppedTask(q) /\ task'[q] = task[q]
    BY <1>1 DEF ClaimInv, ClaimStep, OnlyTask
  <2>2. \A r \in Runs : row[r] \in {"cancelling"} \cup Terminal
                        => row'[r] \in {"cancelling"} \cup Terminal
    BY RowsForward DEF Forward
  <2> QED BY <2>1, <2>2, <1>t DEF StoppedTask
<1>2. ASSUME NEW r \in Runs, Launching(r)' PROVE Launching(r) /\ p # <<"launch", r>>
  <2>1. <<"launch", r>> \in Procs
    BY DEF Procs
  <2> QED BY <1>2, <2>1 DEF Launching, ClaimStep, OnlyTask
<1>3. ASSUME NEW q \in Procs, Looking(q)', NEW r \in Runs PROVE ~Launching(r)'
  <2>1. Looking(q) \/ \A s \in Runs : ~Launching(s)
    BY <1>3 DEF Looking, ClaimStep, OnlyTask
  <2> QED BY <2>1, <1>2 DEF ClaimInv
<1>4. ASSUME NEW r \in Runs, Launching(r)' PROVE conv'.owner = r
  BY <1>4, <1>2 DEF ClaimInv, ClaimStep
<1>5. ASSUME NEW r \in Runs, Registering(r)' PROVE Untouched(r)'
  <2>1. <<"launch", r>> \in Procs
    BY DEF Procs
  <2>2. Registering(r) /\ p # <<"launch", r>>
    BY <1>5, <2>1 DEF Registering, ClaimStep, OnlyTask
  <2> QED BY <2>2 DEF ClaimInv, ClaimStep, Untouched, OnlyTask
<1> QED BY <1>1, <1>3, <1>4, <1>5 DEF ClaimInv

(* A step of p between two awaits, that looks for no run and begins no apply. *)
LEMMA ClaimQuiet ==
  ASSUME TypeInv, TypeInv', IInv, ClaimInv, [Next]_vars, NEW p \in Procs, OnlyTask(p),
         UNCHANGED <<row, handles, finalizing, todo>>, conv'.owner = conv.owner,
         task'[p].run \in {task[p].run, None},
         task'[p].pc \notin {"create", "register", "found"},
         task'[p].pc = "reconcile" => task[p].pc = "found",
         StoppedTask(p)'
  PROVE  ClaimInv'
<1>t. None \notin Runs
  BY ConstantsAssumption
<1>1. ClaimStep(p)
  BY <1>t DEF ClaimStep, ClaimInv, Looking, Untouched, Registering
<1>2. WorkingOwns'
  BY DEF ClaimInv, WorkingOwns
<1> QED BY <1>1, <1>2, ClaimKeeps

(* The beginning of an apply to a run that is known. *)
LEMMA ClaimStartApply ==
  ASSUME TypeInv, TypeInv', IInv, ClaimInv, [Next]_vars, NEW p \in Procs,
         NEW r \in Runs, NEW m \in Applied, NEW i \in Nat, NEW prev \in Nat,
         StartApply(p, r, m, i, prev),
         task[p].run = r \/ r \in handles \cup todo \/ p = <<"launch", r>>,
         UNCHANGED <<row, conv, handles, todo>>
  PROVE  ClaimInv'
<1>t. task \in [Procs -> Task] /\ finalizing \subseteq Runs
  BY DEF TypeInv, TypeOK
<1>1. /\ OnlyTask(p)
      /\ task'[p].pc = "persist" /\ task'[p].run = r
      /\ finalizing' \subseteq finalizing \cup {r}
  BY <1>t DEF StartApply, OnlyTask
<1>2. ClaimStep(p)
  <2>1. \A s \in Runs : Registering(s) => s # r \/ p = <<"launch", s>>
    BY DEF ClaimInv, Untouched
  <2> QED BY <1>1, <2>1 DEF ClaimStep, ClaimInv, Looking, Untouched
<1>3. StoppedTask(p)'
  BY <1>1 DEF StoppedTask
<1>4. WorkingOwns'
  BY DEF ClaimInv, WorkingOwns
<1> QED BY <1>2, <1>3, <1>4, ClaimKeeps

LEMMA ClaimNext ==
  ASSUME "early" \notin Env, TypeInv, TypeInv', IInv, LifeInv, ClaimInv, [Next]_vars
  PROVE  ClaimInv'
<1> USE DEF vars, db, live, guard, host, bounds
<1>t. /\ task \in [Procs -> Task] /\ row \in [Runs -> {"absent"} \cup Active \cup Terminal]
      /\ \A q \in Procs : task[q].run \in Runs \cup {None} /\ task[q].st \in Applied
      /\ \A q \in Procs : task[q].pc \in RunPcs => task[q].run \in Runs
      /\ None \notin Runs /\ completed \subseteq Runs /\ handles \subseteq Runs
      /\ todo \subseteq Runs /\ finalizing \subseteq Runs /\ conv \in ConvRecord
  BY ConstantsAssumption DEF TypeInv, TypeOK, TaskHasRun, Task
<1>c. /\ \A q \in Procs : TaskInv(q)
      /\ KnownRuns /\ SingleFinalizer /\ CompletedIsDurable
  BY DEF IInv, CoreInv
<1>l. /\ \A q \in Procs : LifeTask(q)
      /\ GuardIsHeld /\ RecoveryInv /\ HandleIsLive /\ OwnedIsRunning /\ OwnerIsGoingOn
  BY DEF LifeInv
<1>k. /\ \A q \in Procs : StoppedTask(q)
      /\ \A q \in Procs : Looking(q) => \A r \in Runs : ~Launching(r)
      /\ \A r \in Runs : Registering(r) => Untouched(r)
      /\ \A r \in Runs : Launching(r) => conv.owner = r
      /\ WorkingOwns
  BY DEF ClaimInv
<1>s. \A q \in Procs, r \in Runs : task[q].run = r => ~Registering(r)
  BY <1>k DEF Untouched
<1>1. ASSUME NEW p \in Procs,
             ApplyPartial(p) \/ ApplyPending(p) \/ ApplySave(p) \/ AguiEnd(p)
      PROVE  ClaimInv'
  <2>1. \E c \in {"pending", "return", "finish", "failed"} :
          /\ Goto(p, c)
          /\ Kind(p) = "launch" => c # "return"
    BY <1>1, <1>l DEF ApplyPartial, ApplyPending, ApplySave, AguiEnd, LifeTask, ApplyPcs
  <2>2. UNCHANGED <<row, handles, finalizing, todo>> /\ conv'.owner = conv.owner
    BY <1>1, <1>t DEF ApplyPartial, ApplyPending, ApplySave, AguiEnd, WriteIfOwner,
       ConvRecord
  <2>3. StoppedTask(p)'
    BY <2>1, GotoFacts DEF StoppedTask
  <2> QED BY <2>1, <2>2, <2>3, GotoFacts, ClaimQuiet
<1>2. ASSUME NEW p \in Procs,
             \/ UpstreamReturn(p) \/ UpstreamFailed(p) \/ NotifyEnd(p) \/ TimeoutEnd(p)
             \/ StopEnd(p) \/ LaunchEnd(p) \/ RecoveryReturn(p)
      PROVE  ClaimInv'
  <2>1. /\ \/ task' = [task EXCEPT ![p] = IdleTask]
           \/ \E c \in {"done", "next"} : task' = [task EXCEPT ![p] = [IdleTask EXCEPT !.pc = c]]
        /\ UNCHANGED <<row, handles, finalizing, conv>> /\ todo' \subseteq todo
    BY <1>2 DEF UpstreamReturn, UpstreamFailed, NotifyEnd, TimeoutEnd, StopEnd, LaunchEnd,
       LaunchDone, RecoveryReturn
  <2>2. OnlyTask(p) /\ task'[p].pc \in {"idle", "done", "next"} /\ task'[p].run = None
    BY <2>1, IdleFacts
  <2>3. ClaimStep(p) /\ StoppedTask(p)' /\ WorkingOwns'
    BY <2>1, <2>2, <1>t, <1>k DEF ClaimStep, Looking, Untouched, StoppedTask, WorkingOwns
  <2> QED BY <2>3, ClaimKeeps
<1>3. ASSUME NEW p \in Procs,
             StopCommand(p) \/ StopEndResponse(p) \/ StopFail(p) \/ LaunchStopped(p)
      PROVE  ClaimInv'
  <2>1. /\ \/ LaunchDone(p)
           \/ Goto(p, "failed")
           \/ task[p].run = None /\ \E c \in {"reclaim", "return"} : Goto(p, c)
           \/ /\ task[p].pc \in {"command", "endresponse", "return"}
              /\ \E c \in {"endresponse", "return", "handoff"} : Goto(p, c)
        /\ UNCHANGED <<row, handles, finalizing, todo, conv>>
    BY <1>3 DEF StopCommand, StopEndResponse, StopFail, LaunchStopped
  <2>2. /\ OnlyTask(p) /\ task'[p].run \in {task[p].run, None}
        /\ task'[p].pc \in {"idle", "done", "next", "failed", "reclaim", "return",
                            "endresponse", "handoff"}
        /\ \/ task'[p].pc \notin {"endresponse", "return", "handoff"}
           \/ task'[p].run = None
           \/ task[p].pc \in {"command", "endresponse", "return"}
    BY <2>1, GotoFacts, IdleFacts DEF LaunchDone
  <2>3. StoppedTask(p)'
    BY <2>1, <2>2, <1>k DEF StoppedTask
  <2> QED BY <2>1, <2>2, <2>3, ClaimQuiet
<1>4. ASSUME NEW p \in Procs, StopFind(p)
      PROVE  ClaimInv'
  <2>1. PICK r \in FindActive :
          task' = [task EXCEPT ![p] = [IdleTask EXCEPT !.pc = "found", !.run = r]]
    BY <1>4 DEF StopFind
  <2>2. \A s \in Runs : ~Launching(s)
    BY <1>4 DEF StopFind, StopAllowed
  <2>3. OnlyTask(p) /\ task'[p].pc = "found" /\ UNCHANGED <<row, conv>>
    BY <1>4, <2>1, <1>t DEF StopFind, OnlyTask, IdleTask
  <2>4. ClaimStep(p) /\ StoppedTask(p)' /\ WorkingOwns'
    BY <2>2, <2>3, <1>k DEF ClaimStep, StoppedTask, WorkingOwns, Registering, Launching
  <2> QED BY <2>4, ClaimKeeps
<1>5. ASSUME NEW p \in Procs, TimeoutFire(p)
      PROVE  ClaimInv'
  <2>1. /\ Kind(p) = "timeout" /\ p[2] \in Runs /\ task[p].pc = "idle"
        /\ UNCHANGED <<row, conv, finalizing, todo, handles>>
    BY <1>5, ProcOfRun DEF TimeoutFire
  <2>2. \/ task' = task
        \/ /\ p[2] \in handles
           /\ task' = [task EXCEPT ![p] = [IdleTask EXCEPT !.pc = "force", !.run = p[2]]]
    BY <1>5 DEF TimeoutFire
  <2>3. /\ OnlyTask(p)
        /\ \/ task'[p] = task[p] /\ task[p].pc = "idle"
           \/ task'[p].pc = "force" /\ task'[p].run = p[2] /\ p[2] \in handles
    BY ZenonT(40), <2>1, <2>2, <1>t DEF OnlyTask, IdleTask
  <2>4. ClaimStep(p) /\ StoppedTask(p)' /\ WorkingOwns'
    BY <2>1, <2>3, <1>k DEF ClaimStep, Looking, Untouched, StoppedTask, WorkingOwns
  <2> QED BY <2>4, ClaimKeeps
<1>6. ASSUME NEW p \in Procs, Deliver(p)
      PROVE  ClaimInv'
  <2> DEFINE r == p[2]
  <2>1. r \in Runs /\ Kind(p) \in {"upstream", "repost"} /\ task[p].pc = "idle"
    BY <1>6 DEF Deliver, Lanes, Procs, Kind
  <2>2. PICK i \in {acked[r], acked[r] + 1} \ {0} :
          \E m \in (IF i <= Len(log[r]) THEN {log[r][i]}
                    ELSE IF hosted[r] = "yes" THEN NextMsgs(r) ELSE {}) :
            IF Passes(r, i) THEN Accept(p, r, m, i) ELSE Skip(p, r, m, i)
    BY <1>6 DEF Deliver
  <2>3. PICK m \in (IF i <= Len(log[r]) THEN {log[r][i]}
                    ELSE IF hosted[r] = "yes" THEN NextMsgs(r) ELSE {}) :
            IF Passes(r, i) THEN Accept(p, r, m, i) ELSE Skip(p, r, m, i)
    BY <2>2
  <2>4. UNCHANGED <<row, conv, handles, todo>>
    BY <1>6 DEF Deliver
  <2>5. CASE Skip(p, r, m, i)
    <3>1. UNCHANGED <<task, finalizing>>
      BY <2>5 DEF Skip
    <3>2. OnlyTask(p) /\ StoppedTask(p)'
      BY <2>1, <2>4, <3>1, <1>k DEF OnlyTask, StoppedTask
    <3> QED BY <2>1, <2>4, <3>1, <3>2, ClaimQuiet
  <2>6. CASE Passes(r, i) /\ Accept(p, r, m, i) /\ m = "agui"
    <3>1. /\ OnlyTask(p)
          /\ task'[p].pc = "agui" /\ task'[p].run = r
          /\ UNCHANGED finalizing /\ r \in handles
      BY <2>6, <1>t DEF Accept, OnlyTask, Passes
    <3>2. ClaimStep(p) /\ StoppedTask(p)' /\ WorkingOwns'
      BY <2>4, <3>1, <1>k DEF ClaimStep, Looking, Untouched, StoppedTask, WorkingOwns
    <3> QED BY <3>2, ClaimKeeps
  <2>7. CASE Passes(r, i) /\ Accept(p, r, m, i) /\ m # "agui"
    <3>1. i \in Nat /\ log[r] \in Seq(WorkerMsgs) /\ lastSeq[r] \in Nat
      <4>1. /\ log \in [Runs -> Seq(WorkerMsgs)] /\ lastSeq \in [Runs -> Nat]
            /\ acked \in [Runs -> Nat]
        BY DEF TypeInv, TypeOK
      <4> QED BY <2>1, <4>1
    <3>2. m \in Applied
      <4>1. NextMsgs(r) \subseteq WorkerMsgs
        BY DEF NextMsgs, WorkerMsgs, Terminal
      <4> QED BY <2>3, <2>7, <3>1, <4>1 DEF Applied
    <3>3. StartApply(p, r, m, i, lastSeq[r]) /\ r \in handles
      BY <2>7 DEF Accept, Passes
    <3> HIDE DEF r
    <3> QED BY <2>1, <2>4, <3>1, <3>2, <3>3, ClaimStartApply
  <2> QED BY <2>3, <2>5, <2>6, <2>7
<1>7. ASSUME NEW p \in Procs, Notify(p)
      PROVE  ClaimInv'
  <2>1. PICK s \in {"error", "cancelled"} : StartApply(p, p[2], s, 0, 0)
    BY <1>7 DEF Notify
  <2>2. /\ p[2] \in Runs /\ p[2] \in handles
        /\ UNCHANGED <<row, conv, handles, todo>>
    BY <1>7, ProcOfRun DEF Notify
  <2>3. s \in Applied
    BY DEF Applied, WorkerMsgs, Terminal
  <2> QED BY <2>1, <2>2, <2>3, ClaimStartApply
<1>8. ASSUME NEW p \in Procs, TimeoutForce(p)
      PROVE  ClaimInv'
  <2> DEFINE r == task[p].run
  <2>1. /\ task[p].pc = "force" /\ r \in Runs /\ Kind(p) = "timeout"
        /\ UNCHANGED <<row, conv, handles, todo>>
    BY <1>8, <1>t DEF TimeoutForce, RunPcs
  <2>2. CASE StartApply(p, r, "error", 0, 0)
    <3> HIDE DEF r
    <3>1. task[p].run = r
      BY DEF r
    <3> QED BY <2>1, <2>2, <3>1, ClaimStartApply DEF Applied, WorkerMsgs, Terminal
  <2>3. CASE Goto(p, "return") /\ UNCHANGED finalizing
    <3>1. StoppedTask(p)'
      BY <2>1, <2>3, GotoFacts DEF StoppedTask
    <3> QED BY <2>1, <2>3, <3>1, GotoFacts, ClaimQuiet
  <2> QED BY <1>8, <2>2, <2>3 DEF TimeoutForce
<1>9. ASSUME NEW p \in Procs, StopFound(p)
      PROVE  ClaimInv'
  <2> DEFINE r == task[p].run
  <2>1. /\ task[p].pc = "found"
        /\ UNCHANGED <<row, conv, handles, todo>>
    BY <1>9 DEF StopFound
  <2>2. CASE r \in Runs /\ StartApply(p, r, "cancelled", 0, 0)
    <3> HIDE DEF r
    <3>1. task[p].run = r
      BY DEF r
    <3> QED BY <2>1, <2>2, <3>1, ClaimStartApply DEF Applied, WorkerMsgs, Terminal
  <2>3. CASE /\ UNCHANGED finalizing
             /\ \/ Goto(p, "cancelling")
                \/ r = None /\ Goto(p, "reconcile")
    <3>1. StoppedTask(p)'
      BY <2>1, <2>3, GotoFacts DEF StoppedTask
    <3> QED BY <2>1, <2>3, <3>1, GotoFacts, ClaimQuiet
  <2>4. CASE r \in Runs \ handles /\ ~Decide(r) /\ Goto(p, "return") /\ UNCHANGED finalizing
    <3>1. Kind(p) \in {"launch", "stop"} /\ p # Recovery
      BY <2>1, <1>c DEF TaskInv, KindInv, StopPcs, Kind, Recovery
    <3>2. phase = "up"
      BY <2>1, <3>1, <1>l DEF LifeTask, TypeInv, TypeOK
    <3>3. row[r] \notin Active
      BY <2>4, <3>2, <1>s, <1>l DEF HandleIsLive, Registering
    <3>4. row[r] \in Terminal
      BY <2>4, <3>3, <1>t, <1>l DEF LifeTask
    <3>5. StoppedTask(p)'
      BY <2>1, <2>4, <3>4, GotoFacts DEF StoppedTask
    <3> QED BY <2>1, <2>4, <3>5, GotoFacts, ClaimQuiet
  <2> QED BY <1>9, <2>2, <2>3, <2>4 DEF StopFound
<1>10. ASSUME NEW p \in Procs, LaunchSubmit(p)
      PROVE  ClaimInv'
  <2>1. /\ Kind(p) = "launch" /\ p[2] \in Runs /\ p = <<"launch", p[2]>>
        /\ UNCHANGED <<row, conv, handles, todo>>
    BY <1>10, ProcOfRun DEF LaunchSubmit
  <2>2. CASE StartApply(p, p[2], "error", 0, 0)
    BY <2>1, <2>2, ClaimStartApply DEF Applied, WorkerMsgs, Terminal
  <2>3. CASE LaunchDone(p) /\ UNCHANGED finalizing
    <3>1. OnlyTask(p) /\ task'[p].pc \in {"idle", "done", "next"} /\ task'[p].run = None
      BY <2>3, IdleFacts DEF LaunchDone
    <3>2. StoppedTask(p)'
      BY <3>1 DEF StoppedTask
    <3> QED BY <2>1, <2>3, <3>1, <3>2, ClaimQuiet
  <2> QED BY <1>10, <2>2, <2>3 DEF LaunchSubmit
<1>11. ASSUME NEW p \in Procs, RecoveryNext(p)
      PROVE  ClaimInv'
  <2>1. PICK r \in todo :
          IF Decide(r) THEN StartApply(p, r, "error", 0, 0) /\ UNCHANGED todo
                       ELSE todo' = todo \ {r} /\ UNCHANGED <<task, finalizing>>
    BY <1>11 DEF RecoveryNext
  <2>2. /\ r \in Runs /\ task[p].pc = "next"
        /\ UNCHANGED <<row, conv, handles>>
    BY <1>11, <1>t DEF RecoveryNext
  <2>3. CASE Decide(r)
    BY <2>1, <2>2, <2>3, ClaimStartApply DEF Applied, WorkerMsgs, Terminal
  <2>4. CASE ~Decide(r)
    <3>1. ClaimStep(p) /\ StoppedTask(p)' /\ WorkingOwns'
      BY <2>1, <2>2, <2>4, <1>k DEF ClaimStep, OnlyTask, Looking, Untouched, StoppedTask,
         WorkingOwns
    <3> QED BY <3>1, ClaimKeeps
  <2> QED BY <2>3, <2>4
<1>12. ASSUME NEW p \in Procs, ApplyPersist(p)
      PROVE  ClaimInv'
  <2> DEFINE r == task[p].run
             m == task[p].st
             c == AfterPersist(m, task[p].live)
  <2>1. /\ task[p].pc = "persist" /\ r \in Runs /\ m \in Applied
        /\ row' = [row EXCEPT ![r] = Mark(row[r], m)] /\ Goto(p, c)
        /\ UNCHANGED <<conv, finalizing, todo, handles>>
    BY <1>12, <1>t DEF ApplyPersist, RunPcs, ApplyPcs
  <2>2. Mark(row[r], m) \in Working => row[r] \in Working
    BY <2>1, <1>t DEF Mark, StatusOf, Working, Active, RunningMutable, Terminal, Applied,
       WorkerMsgs
  <2>3. /\ c \in {"project", "partial", "pending", "return"}
        /\ c = "project" <=> m \in Terminal
    BY DEF AfterPersist, Terminal
  <2>4. \A s \in Runs : row'[s] = IF s = r THEN Mark(row[r], m) ELSE row[s]
    BY <2>1, <1>t
  <2>5. OnlyTask(p) /\ task'[p].pc = c /\ task'[p].run = r
    BY <2>1, GotoFacts
  <2>6. ~Registering(r)
    BY <2>1, <1>s
  <2>7. Kind(p) = "launch" => c = "project"
    BY <2>1, <2>3, <1>l DEF LifeTask, ApplyPcs
  <2> HIDE DEF r, m, c
  <2>8. ClaimStep(p)
    BY <2>1, <2>3, <2>4, <2>5, <2>6, <1>k DEF ClaimStep, Looking, Untouched
  <2>9. StoppedTask(p)'
    BY <2>3, <2>5, <2>7 DEF StoppedTask
  <2>10. WorkingOwns'
    BY <2>1, <2>2, <2>4, <1>k DEF WorkingOwns
  <2> QED BY <2>8, <2>9, <2>10, ClaimKeeps
<1>13. ASSUME NEW p \in Procs, ApplyProject(p)
      PROVE  ClaimInv'
  <2> DEFINE r == task[p].run
  <2>1. /\ task[p].pc = "project" /\ r \in Runs /\ row[r] \in Terminal
        /\ UNCHANGED <<row, finalizing, todo, handles>>
        /\ \E c \in {"save", "finish"} : Goto(p, c)
    BY <1>13, <1>t, <1>c DEF ApplyProject, RunPcs, ApplyPcs, TaskInv, EndedInv
  <2>2. conv.owner = r \/ conv' = conv
    BY <1>13 DEF ApplyProject, WriteIfOwner
  <2>3. OnlyTask(p) /\ task'[p].pc \in {"save", "finish"} /\ task'[p].run = r
    BY <2>1, GotoFacts
  <2>4. ~Launching(r) \/ p = <<"launch", r>>
    <3>1. row[r] \notin {"absent", "queued"}
      BY <2>1 DEF Terminal
    <3>2. /\ <<"launch", r>> \in Procs /\ Kind(<<"launch", r>>) = "launch"
          /\ <<"launch", r>>[2] = r
      BY <2>1 DEF Procs, Kind
    <3> QED BY <2>1, <3>1, <3>2, <1>c, <1>k DEF Launching, TaskInv, LaunchInv, BeforeCreate,
         Registering, Untouched
  <2>5. ClaimStep(p)
    <3>1. \A s \in Runs : Launching(s) => p = <<"launch", s>> \/ conv'.owner = conv.owner
      BY <2>1, <2>2, <2>4, <1>k
    <3> HIDE DEF r
    <3> QED BY <2>1, <2>3, <3>1, <1>k, <1>s DEF ClaimStep, Looking, Untouched, r
  <2>6. StoppedTask(p)'
    BY <2>3 DEF StoppedTask
  <2>7. WorkingOwns'
    <3>1. row[r] \notin Working
      BY <2>1 DEF Working, Active, RunningMutable, Terminal
    <3> QED BY <2>1, <2>2, <3>1, <1>k DEF WorkingOwns
  <2> QED BY <2>5, <2>6, <2>7, ClaimKeeps
<1>14. ASSUME NEW p \in Procs, ApplyFinish(p) \/ ApplyFail(p)
      PROVE  ClaimInv'
  <2>1. /\ task[p].pc \in ApplyPcs
        /\ UNCHANGED <<row, conv, todo>>
        /\ handles' \subseteq handles /\ finalizing' \subseteq finalizing
        /\ \/ task[p].pc = "finish" /\ Goto(p, "return")
           \/ Goto(p, "failed")
    BY <1>14 DEF ApplyFinish, ApplyFail, ApplyPcs
  <2>2. OnlyTask(p) /\ task'[p].pc \in {"return", "failed"} /\ task'[p].run = task[p].run
    BY <2>1, GotoFacts
  <2>3. ClaimStep(p) /\ WorkingOwns'
    BY <2>1, <2>2, <1>k, <1>s DEF ClaimStep, Looking, Untouched, WorkingOwns
  <2>4. StoppedTask(p)'
    <3>1. task[p].pc = "finish" => row[task[p].run] \in Terminal
      BY <1>c DEF TaskInv, EndedInv
    <3> QED BY <2>1, <2>2, <3>1, GotoFacts DEF StoppedTask
  <2> QED BY <2>3, <2>4, ClaimKeeps
<1>15. ASSUME NEW p \in Procs, StopCancelling(p)
      PROVE  ClaimInv'
  <2> DEFINE r == task[p].run
  <2>1. /\ task[p].pc = "cancelling" /\ r \in Runs
        /\ row' = [row EXCEPT ![r] = Mark(row[r], "cancelling")] /\ Goto(p, "command")
        /\ UNCHANGED <<conv, finalizing, todo, handles>>
    BY <1>15, <1>t DEF StopCancelling, RunPcs
  <2>2. row[r] # "absent"
    BY <2>1, <1>t, <1>l DEF LifeTask
  <2>3. Mark(row[r], "cancelling") \in {"cancelling"} \cup Terminal
    BY <2>1, <2>2, <1>t DEF Mark, StatusOf, Active, RunningMutable, Terminal
  <2>4. \A s \in Runs : row'[s] = IF s = r THEN Mark(row[r], "cancelling") ELSE row[s]
    BY <2>1, <1>t
  <2>5. OnlyTask(p) /\ task'[p].pc = "command" /\ task'[p].run = r
    BY <2>1, GotoFacts
  <2>6. ~Registering(r)
    BY <2>1, <1>s
  <2> HIDE DEF r
  <2>7. ClaimStep(p)
    BY <2>1, <2>4, <2>5, <2>6, <1>k DEF ClaimStep, Looking, Untouched
  <2>8. StoppedTask(p)'
    BY <2>1, <2>3, <2>4, <2>5 DEF StoppedTask
  <2>9. WorkingOwns'
    BY <2>1, <2>3, <2>4, <1>k DEF WorkingOwns, Working, Active, RunningMutable, Terminal
  <2> QED BY <2>7, <2>8, <2>9, ClaimKeeps
<1>16. ASSUME NEW p \in Procs, StopReconcile(p)
      PROVE  ClaimInv'
  <2>1. /\ task[p].pc = "reconcile" /\ Goto(p, "return")
        /\ NoActiveRow \/ conv' = conv
        /\ UNCHANGED <<row, finalizing, todo, handles>>
    BY <1>16 DEF StopReconcile
  <2>2. OnlyTask(p) /\ task'[p].pc = "return" /\ task'[p].run = None
    BY <2>1, <1>k, GotoFacts DEF StoppedTask
  <2>3. \A r \in Runs : ~Launching(r)
    BY <2>1, <1>k DEF Looking
  <2>4. ClaimStep(p) /\ StoppedTask(p)'
    BY <2>1, <2>2, <2>3 DEF ClaimStep, Looking, StoppedTask, Registering, Launching
  <2>5. WorkingOwns'
    BY <2>1, <1>k DEF WorkingOwns, NoActiveRow, Working
  <2> QED BY <2>4, <2>5, ClaimKeeps
<1>17. ASSUME NEW p \in Procs, LaunchClaim(p) \/ LaunchHandoff(p) \/ LaunchReclaim(p)
      PROVE  ClaimInv'
  <2> DEFINE r == p[2]
  <2>1. /\ Kind(p) = "launch" /\ r \in Runs /\ p = <<"launch", r>>
        /\ task[p].pc \in {"idle", "handoff", "reclaim"}
        /\ UNCHANGED <<row, finalizing, todo, handles>>
        /\ \/ /\ conv' = ClaimedBy(r) /\ Goto(p, "create") /\ ClaimAllowed
              /\ Claimable(conv) \/ (task[p].pc = "handoff" /\ conv.owner = task[p].run)
           \/ conv' = conv /\ LaunchDone(p)
           \/ conv' = conv /\ \E c \in {"find", "reclaim"} : Goto(p, c)
    BY <1>17, ProcOfRun DEF LaunchClaim, LaunchHandoff, LaunchReclaim
  <2>2. CASE LaunchDone(p) \/ (\E c \in {"find", "reclaim"} : Goto(p, c))
    <3>1. /\ OnlyTask(p) /\ task'[p].run \in {task[p].run, None}
          /\ task'[p].pc \in {"idle", "done", "next", "find", "reclaim"}
      BY <2>2, GotoFacts, IdleFacts DEF LaunchDone
    <3>2. conv' = conv
      <4>1. task'[p].pc # "create"
        BY <3>1
      <4> QED BY <2>1, <4>1, GotoFacts
    <3>3. StoppedTask(p)'
      BY <3>1 DEF StoppedTask
    <3> QED BY <2>1, <3>1, <3>2, <3>3, ClaimQuiet
  <2>3. CASE /\ conv' = ClaimedBy(r) /\ Goto(p, "create") /\ ClaimAllowed
             /\ Claimable(conv) \/ (task[p].pc = "handoff" /\ conv.owner = task[p].run)
    <3>1. OnlyTask(p) /\ task'[p].pc = "create" /\ conv'.owner = r
      BY <2>3, GotoFacts DEF ClaimedBy
    <3>2. ASSUME NEW s \in Runs PROVE ~Launching(s) /\ row[s] \notin Working
      <4>1. CASE Claimable(conv)
        <5>1. conv.owner = None
          BY <4>1, <1>l DEF Claimable, OwnedIsRunning
        <5> QED BY <5>1, <1>k, <1>t DEF WorkingOwns
      <4>2. CASE task[p].pc = "handoff" /\ conv.owner = task[p].run
        <5>1. /\ task[p].run \in Runs => row[task[p].run] # "absent"
              /\ row[r] = "absent"
          BY <2>1, <4>2, <1>t, <1>l, <1>c DEF LifeTask, TaskInv, LaunchInv, BeforeCreate
        <5>2. task[p].run \in Runs => row[task[p].run] \in {"cancelling"} \cup Terminal
          BY <2>1, <4>2, <5>1, <1>t, <1>k DEF StoppedTask
        <5>3. row[s] \notin Working
          BY <4>2, <5>2, <1>k DEF WorkingOwns, Working, Active, RunningMutable, Terminal
        <5>4. ~Launching(s)
          <6> SUFFICES ASSUME Launching(s) PROVE FALSE
            OBVIOUS
          <6>1. task[p].run = s
            BY <4>2, <1>k
          <6>2. task[<<"launch", s>>].pc = "create"
            BY <6>1, <1>s DEF Launching, Registering
          <6>3. /\ <<"launch", s>> \in Procs /\ Kind(<<"launch", s>>) = "launch"
                /\ <<"launch", s>>[2] = s
            BY DEF Procs, Kind
          <6>4. row[s] = "absent"
            BY <6>2, <6>3, <1>c DEF TaskInv, LaunchInv, BeforeCreate
          <6> QED BY <5>1, <6>1, <6>4
        <5> QED BY <5>3, <5>4
      <4> QED BY <2>3, <4>1, <4>2
    <3>3. \A q \in Procs : StoppedTask(q)'
      BY <2>1, <3>1, <1>k DEF StoppedTask, OnlyTask
    <3>4. \A q \in Procs : ~Looking(q)'
      BY <2>1, <2>3, <3>1 DEF Looking, OnlyTask, ClaimAllowed
    <3>5. ASSUME NEW s \in Runs, Launching(s)' PROVE s = r /\ ~Registering(s)'
      <4>1. <<"launch", s>> \in Procs
        BY DEF Procs
      <4> QED BY <2>1, <3>1, <3>2, <3>5, <4>1 DEF Launching, Registering, OnlyTask
    <3>6. \A s \in Runs : Registering(s)' => Launching(s)'
      BY DEF Registering, Launching
    <3>7. WorkingOwns'
      BY <2>1, <3>2 DEF WorkingOwns
    <3> HIDE DEF r
    <3> QED BY <3>1, <3>3, <3>4, <3>5, <3>6, <3>7 DEF ClaimInv
  <2> QED BY <2>1, <2>2, <2>3
<1>18. ASSUME NEW p \in Procs, LaunchCreate(p)
      PROVE  ClaimInv'
  <2> DEFINE r == p[2]
  <2>1. /\ Kind(p) = "launch" /\ task[p].pc = "create" /\ r \in Runs /\ p = <<"launch", r>>
        /\ row[r] = "absent"
        /\ UNCHANGED <<conv, finalizing, todo, handles>>
        /\ \/ row' = [row EXCEPT ![r] = "queued"] /\ Goto(p, "register")
           \/ row' = row /\ Goto(p, "failclaim")
    BY <1>18, <1>c, ProcOfRun DEF LaunchCreate, TaskInv, LaunchInv, BeforeCreate
  <2>2. CASE row' = row /\ Goto(p, "failclaim")
    <3>1. StoppedTask(p)'
      BY <2>2, GotoFacts DEF StoppedTask
    <3> QED BY <2>1, <2>2, <3>1, GotoFacts, ClaimQuiet
  <2>3. CASE row' = [row EXCEPT ![r] = "queued"] /\ Goto(p, "register")
    <3>1. OnlyTask(p) /\ task'[p].pc = "register" /\ task'[p].run = task[p].run
      BY <2>3, GotoFacts
    <3>2. row'[r] = "queued" /\ \A s \in Runs : s # r => row'[s] = row[s]
      BY <2>1, <2>3, <1>t
    <3>3. /\ \A q \in Procs : task[q].run # r
          /\ r \notin handles \cup todo \cup finalizing
      <4>1. \A q \in Procs : task[q].run # r
        BY <2>1, <1>t, <1>l DEF LifeTask
      <4>2. r \notin handles \cup todo
        BY <2>1, <1>c DEF KnownRuns
      <4>3. r \notin finalizing
        BY <4>1, <1>l DEF GuardIsHeld, Finalizes
      <4> QED BY <4>1, <4>2, <4>3
    <3>4. Launching(r) /\ conv.owner = r
      BY <2>1, <1>k DEF Launching
    <3>5. \A q \in Procs : StoppedTask(q)'
      BY <2>1, <3>1, <3>2, <3>3, <1>t, <1>k DEF StoppedTask, OnlyTask
    <3>6. \A q \in Procs : ~Looking(q)'
      BY <2>1, <3>1, <3>4, <1>k DEF Looking, OnlyTask
    <3>7. ASSUME NEW s \in Runs, Launching(s)' PROVE s = r
      <4>1. <<"launch", s>> \in Procs
        BY DEF Procs
      <4> QED BY <2>1, <3>1, <3>4, <3>7, <4>1, <1>k DEF Launching, OnlyTask
    <3>8. \A s \in Runs : Registering(s)' => Launching(s)'
      BY DEF Registering, Launching
    <3>9. Untouched(r)'
      <4>1. \A q \in Procs : task'[q].run # r
        BY <3>1, <3>3 DEF OnlyTask
      <4> QED BY <2>1, <3>2, <3>3, <4>1 DEF Untouched
    <3>10. WorkingOwns'
      BY <2>1, <3>2, <3>4, <1>k DEF WorkingOwns
    <3> HIDE DEF r
    <3> QED BY <2>1, <3>4, <3>5, <3>6, <3>7, <3>8, <3>9, <3>10 DEF ClaimInv
  <2> QED BY <2>1, <2>2, <2>3
<1>19. ASSUME NEW p \in Procs, LaunchFailClaim(p)
      PROVE  ClaimInv'
  <2> DEFINE r == p[2]
  <2>1. /\ Kind(p) = "launch" /\ task[p].pc = "failclaim" /\ r \in Runs /\ p = <<"launch", r>>
        /\ UNCHANGED <<row, finalizing, todo, handles>>
        /\ conv.owner = r \/ conv' = conv
        /\ LaunchDone(p)
    BY <1>19, ProcOfRun DEF LaunchFailClaim, WriteIfOwner
  <2>2. /\ OnlyTask(p) /\ task'[p].run = None
        /\ task'[p].pc \in {"idle", "done", "next"}
    BY <2>1, IdleFacts DEF LaunchDone
  <2>3. ~Launching(r) /\ row[r] \notin Working
    BY <2>1, <1>l DEF Launching, LifeTask, Working, Active, RunningMutable
  <2>4. ClaimStep(p)
    BY <2>1, <2>2, <2>3, <1>t, <1>k DEF ClaimStep, Looking, Untouched
  <2>5. StoppedTask(p)' /\ WorkingOwns'
    BY <2>1, <2>2, <2>3, <1>k DEF StoppedTask, WorkingOwns
  <2> QED BY <2>4, <2>5, ClaimKeeps
<1>20. ASSUME NEW p \in Procs, LaunchRegister(p)
      PROVE  ClaimInv'
  <2> DEFINE r == p[2]
  <2>1. /\ Kind(p) = "launch" /\ r \in Runs /\ p = <<"launch", r>>
        /\ UNCHANGED <<row, conv, finalizing, todo>>
        /\ handles' = handles \cup {r} /\ Goto(p, "submit")
    BY <1>20, ProcOfRun DEF LaunchRegister
  <2>2. /\ OnlyTask(p) /\ task'[p].run = task[p].run /\ task'[p].pc = "submit"
    BY <2>1, GotoFacts
  <2>3. ClaimStep(p)
    BY <2>1, <2>2, <1>k DEF ClaimStep, Looking, Untouched
  <2>4. StoppedTask(p)' /\ WorkingOwns'
    BY <2>1, <2>2, <1>k DEF StoppedTask, WorkingOwns
  <2> QED BY <2>3, <2>4, ClaimKeeps
<1>21. ASSUME NEW p \in Procs, RecoveryStart(p)
      PROVE  ClaimInv'
  <2>1. /\ p = Recovery /\ Goto(p, "next")
        /\ phase = "up" => StopAllowed
        /\ UNCHANGED <<row, conv, finalizing, handles>>
    BY <1>21 DEF RecoveryStart
  <2>2. OnlyTask(p) /\ task'[p].pc = "next" /\ task'[p].run = task[p].run
    BY <2>1, GotoFacts
  <2>3. ASSUME NEW r \in Runs PROVE ~Launching(r)
    <3>1. CASE phase = "up"
      BY <2>1, <3>1 DEF StopAllowed
    <3>2. CASE phase # "up"
      <4>1. phase = "boot"
        BY <3>2 DEF TypeInv, TypeOK
      <4>2. <<"launch", r>> \in Procs /\ <<"launch", r>> # Recovery
        BY DEF Procs, Recovery
      <4> QED BY <4>1, <4>2, <1>l DEF LifeTask, Launching
    <3> QED BY <3>1, <3>2
  <2>4. ClaimStep(p) /\ StoppedTask(p)' /\ WorkingOwns'
    BY <2>1, <2>2, <2>3, <1>k DEF ClaimStep, Looking, StoppedTask, WorkingOwns, Registering,
       Launching
  <2> QED BY <2>4, ClaimKeeps
<1>22. ASSUME NEW p \in Procs, RecoveryEnd(p)
      PROVE  ClaimInv'
  <2>1. /\ p = Recovery /\ task' = [task EXCEPT ![p] = IdleTask]
        /\ UNCHANGED <<row, finalizing, todo, handles>>
        /\ conv' = conv \/ (phase = "boot" /\ NoActiveRow)
    BY <1>22 DEF RecoveryEnd, StaleProjection
  <2>2. OnlyTask(p) /\ task'[p].pc = "idle" /\ task'[p].run = None
    BY <2>1, <1>t DEF OnlyTask, IdleTask
  <2>3. ASSUME NEW r \in Runs, Launching(r) PROVE phase # "boot"
    <3>1. <<"launch", r>> \in Procs /\ <<"launch", r>> # Recovery
      BY DEF Procs, Recovery
    <3> QED BY <2>3, <3>1, <1>l DEF LifeTask, Launching
  <2>4. ClaimStep(p) /\ StoppedTask(p)'
    BY <2>1, <2>2, <2>3, <1>t, <1>k DEF ClaimStep, Looking, StoppedTask, Untouched
  <2>5. WorkingOwns'
    BY <2>1, <1>k DEF WorkingOwns, NoActiveRow, Working
  <2> QED BY <2>4, <2>5, ClaimKeeps
<1>23. CASE Crash
  <2>1. /\ UNCHANGED <<row, conv>>
        /\ \A q \in Procs : task'[q].run = None /\ task'[q].pc \in {"idle", "done"}
    BY <1>23 DEF Crash, IdleTask
  <2>2. \A r \in Runs : ~Launching(r)' /\ ~Registering(r)'
    BY <2>1 DEF Launching, Registering, Procs
  <2> QED BY <2>1, <2>2, <1>k DEF ClaimInv, StoppedTask, Looking, WorkingOwns
<1>24. CASE (\E r \in Runs : Expire(r)) \/ UNCHANGED vars
  <2>1. UNCHANGED <<row, conv, handles, finalizing, task, todo>>
    BY <1>24 DEF Expire
  <2> QED BY <2>1, <1>k DEF ClaimInv, StoppedTask, Looking, Launching, Registering,
       Untouched, WorkingOwns
<1> QED
  BY <1>1, <1>2, <1>3, <1>4, <1>5, <1>6, <1>7, <1>8, <1>9, <1>10, <1>11, <1>12,
     <1>13, <1>14, <1>15, <1>16, <1>17, <1>18, <1>19, <1>20, <1>21, <1>22, <1>23,
     <1>24 DEF Next, Continue, Begin, Apply, Stop, Launch, Recover

LEMMA ClaimCorrect == ASSUME "early" \notin Env PROVE Spec => []ClaimInv
<1>1. Init => ClaimInv
  <2> SUFFICES ASSUME Init PROVE ClaimInv
    OBVIOUS
  <2>1. /\ \A p \in Procs : task[p] = IdleTask
        /\ \A r \in Runs : row[r] = "absent"
    BY DEF Init
  <2>2. \A r \in Runs : <<"launch", r>> \in Procs
    BY DEF Procs
  <2> QED BY <2>1, <2>2 DEF ClaimInv, StoppedTask, Looking, Launching, Registering,
       WorkingOwns, Working, Active, RunningMutable, IdleTask
<1>2. IInv /\ IInv' /\ LifeInv /\ ClaimInv /\ [Next]_vars => ClaimInv'
  BY ClaimNext DEF IInv
<1> QED BY <1>1, <1>2, IInvCorrect, LifeCorrect, PTL DEF Spec

(* Of two runs of a conversation with active rows one has been told to cancel,
   with every failure, crash, steer and reap, in any number: provided that no
   stop or reap falls between the claim of a run and its registration. *)
THEOREM OneRunAtATime == ASSUME "early" \notin Env PROVE Spec => []ExclusiveRun
<1>1. ClaimInv => ExclusiveRun
  BY DEF ClaimInv, WorkingOwns, ExclusiveRun, Working
<1> QED BY <1>1, ClaimCorrect, PTL

-----------------------------------------------------------------------------
(* The answers to the worker. *)

LaneKinds == {"upstream", "repost"}

(* A Host holds only runs that were submitted, and their workers alone post. *)
Submitted(r) ==
  /\ hosted[r] # "no" => task[<<"launch", r>>].pc = "done" /\ row[r] # "absent"
  /\ log[r] # << >> => hosted[r] # "no"

(* Neither the answers nor the sequence gate are ahead of the worker. *)
Gate(r) == acked[r] <= Len(log[r]) /\ lastSeq[r] <= Len(log[r])

(* A lane works on a message of its run, on one that was answered or on the next;
   its task holds what that message says; and it is back from applying a terminal
   status only when the row is terminal. *)
LaneTask(p) ==
  Kind(p) \in LaneKinds /\ task[p].pc # "idle" =>
    LET t == task[p]
        l == log[p[2]] IN
    /\ t.run = p[2]
    /\ t.i \in 1..Len(l) /\ t.i <= acked[p[2]] + 1 /\ t.prev <= Len(l)
    /\ t.pc \in ApplyPcs \cup {"agui", "return", "failed"}
    /\ t.pc = "agui" => t.st = "running"
    /\ \/ l[t.i] = t.st
       \/ l[t.i] = "agui" /\ t.st = "running"
    /\ t.pc = "return" /\ t.st \in Terminal => row[p[2]] \in Terminal

AnswerInv ==
  /\ \A r \in Runs : Submitted(r) /\ Gate(r)
  /\ \A p \in Procs : LaneTask(p)

(* How a lane goes on with a message: the message stays, the apply advances. *)
LaneStep(p) ==
  \/ task'[p] = task[p]
  \/ /\ task[p].pc # "idle"
     /\ task'[p].run = task[p].run /\ task'[p].st = task[p].st
     /\ task'[p].i = task[p].i /\ task'[p].prev = task[p].prev
     /\ task'[p].pc \in ApplyPcs \cup {"return", "failed"}
     /\ task'[p].pc = "return" /\ task[p].st \in Terminal => row'[task[p].run] \in Terminal

(* What every step does that neither takes a message nor answers one. *)
AnswerStep(p) ==
  /\ OnlyTask(p)
  /\ task[p].pc = "done" => task'[p].pc = "done"
  /\ Kind(p) \in LaneKinds => LaneStep(p)
  /\ task'[p].pc = "failed" => faults' # 0 \/ task[p].pc = "failed"
  /\ UNCHANGED <<log, acked, crashes>>
  /\ faults' >= faults
  /\ \A r \in Runs : lastSeq'[r] \in {lastSeq[r], 0}
  /\ \A r \in Runs :
       \/ hosted'[r] = hosted[r]
       \/ hosted[r] # "no" /\ hosted'[r] # "no"
       \/ /\ hosted'[r] # "no" /\ p = <<"launch", r>>
          /\ task'[p].pc = "done" /\ row'[r] # "absent"
  /\ \A r \in finalizing : r \in finalizing' \/ row'[r] \in Terminal \/ faults' # 0

LEMMA AnswerFrame ==
  ASSUME TypeInv, TypeInv', CoreInv, LifeInv, AnswerInv, [Next]_vars
  PROVE  \/ \E p \in Procs : \/ Deliver(p) \/ UpstreamReturn(p) \/ UpstreamFailed(p)
                             \/ AnswerStep(p)
         \/ Crash
<1> USE DEF vars, db, live, guard, host, bounds
<1>t. /\ task \in [Procs -> Task] /\ row \in [Runs -> {"absent"} \cup Active \cup Terminal]
      /\ \A q \in Procs : task[q].run \in Runs \cup {None} /\ task[q].st \in Applied
      /\ \A q \in Procs : task[q].pc \in RunPcs => task[q].run \in Runs
      /\ None \notin Runs /\ finalizing \subseteq Runs /\ handles \subseteq Runs
      /\ todo \subseteq Runs /\ faults \in Nat /\ lastSeq \in [Runs -> Nat]
      /\ hosted \in [Runs -> {"no", "yes", "released"}]
  BY ConstantsAssumption DEF TypeInv, TypeOK, TaskHasRun, Task
<1>c. \A q \in Procs : TaskInv(q)
  BY DEF CoreInv
<1>l. \A q \in Procs : LifeTask(q) /\ LaneTask(q)
  BY DEF LifeInv, AnswerInv
<1>1. ASSUME NEW p \in Procs,
             \/ ApplyPersist(p) \/ ApplyPartial(p) \/ ApplyPending(p) \/ ApplyProject(p)
             \/ ApplySave(p) \/ ApplyFinish(p) \/ ApplyFail(p) \/ AguiEnd(p)
      PROVE  AnswerStep(p)
  <2>1. PICK c \in ApplyPcs \cup {"return", "failed"} : Goto(p, c)
    BY <1>1 DEF ApplyPersist, ApplyPartial, ApplyPending, ApplyProject, ApplySave,
       ApplyFinish, ApplyFail, AguiEnd, AfterPersist, ApplyPcs
  <2>2. /\ UNCHANGED <<log, acked, hosted, crashes>>
        /\ faults' >= faults
        /\ task[p].pc \in ApplyPcs \cup {"agui"}
        /\ c = "failed" => faults' # 0
    BY <1>1, <2>1, <1>t, GotoFacts DEF ApplyPersist, ApplyPartial, ApplyPending, ApplyProject, ApplySave,
       ApplyFinish, ApplyFail, AguiEnd, AfterPersist, ApplyPcs
  <2>3. \A r \in Runs : lastSeq'[r] \in {lastSeq[r], 0}
    BY <1>1, <1>t DEF ApplyPersist, ApplyPartial, ApplyPending, ApplyProject, ApplySave,
       ApplyFinish, ApplyFail, AguiEnd
  <2>4. \A r \in finalizing : r \in finalizing' \/ row'[r] \in Terminal \/ faults' # 0
    <3>1. CASE ApplyFinish(p)
      BY <3>1, <1>c, <1>t DEF ApplyFinish, TaskInv, EndedInv
    <3>2. CASE ApplyFail(p)
      BY <3>2, <1>t DEF ApplyFail
    <3> QED BY <1>1, <3>1, <3>2 DEF ApplyPersist, ApplyPartial, ApplyPending, ApplyProject,
         ApplySave, AguiEnd
  <2>5. ASSUME Kind(p) \in LaneKinds, c = "return", task[p].st \in Terminal
        PROVE  row'[task[p].run] \in Terminal
    <3>1. ~(task[p].pc \in {"persist", "partial", "pending", "agui", "project", "save"})
      <4>1. task'[p].pc = "return"
        BY <2>1, <2>5, GotoFacts
      <4>2. ~ApplyPersist(p) /\ ~ApplyProject(p) /\ ~ApplySave(p)
        BY <4>1, <2>5, GotoFacts DEF ApplyPersist, ApplyProject, ApplySave, AfterPersist
      <4>3. task[p].pc \notin {"partial", "pending", "agui"}
        BY <2>5, <1>l, <2>2 DEF LifeTask, LaneTask, Terminal
      <4>4. ~ApplyFail(p)
        BY <4>1, GotoFacts DEF ApplyFail
      <4> QED BY <1>1, <4>2, <4>3, <4>4 DEF ApplyPartial, ApplyPending, ApplyFinish, AguiEnd
    <3>2. task[p].pc = "finish"
      BY <3>1, <2>2 DEF ApplyPcs
    <3>3. UNCHANGED row
      BY <1>1, <3>2 DEF ApplyPersist, ApplyPartial, ApplyPending, ApplyProject, ApplySave,
       ApplyFinish, ApplyFail, AguiEnd
    <3> QED BY <3>2, <3>3, <1>c DEF TaskInv, EndedInv
  <2>6. Kind(p) \in LaneKinds => LaneStep(p)
    BY <2>1, <2>2, <2>5, GotoFacts DEF LaneStep, ApplyPcs
  <2> QED BY <2>1, <2>2, <2>3, <2>4, <2>6, GotoFacts DEF AnswerStep, ApplyPcs
<1>2. ASSUME NEW p \in Procs,
             \/ StopFind(p) \/ StopFound(p) \/ StopCancelling(p) \/ StopCommand(p)
             \/ StopEndResponse(p) \/ StopReconcile(p) \/ StopFail(p) \/ StopEnd(p)
      PROVE  AnswerStep(p)
  <2>1. Kind(p) \in {"stop", "launch"} /\ task[p].pc # "done"
    BY <1>2, <1>c DEF StopFind, StopFound, StopCancelling, StopCommand,
       StopEndResponse, StopReconcile, StopFail, StopEnd, TaskInv, KindInv,
       StopPcs
  <2>1a. /\ UNCHANGED <<log, acked, hosted, crashes, lastSeq>>
         /\ faults' >= faults
         /\ finalizing \subseteq finalizing'
    <3>1. CASE StopFound(p)
      BY <3>1, <1>t DEF StopFound, StartApply
    <3>2. CASE StopFind(p) \/ StopCommand(p)
      <4>1. UNCHANGED <<log, acked, hosted, crashes, lastSeq, faults, finalizing>>
        BY <3>2 DEF StopFind, StopCommand
      <4> QED BY <4>1, <1>t
    <3>4. CASE StopEnd(p) \/ StopCancelling(p)
      BY <3>4, <1>t DEF StopEnd, StopCancelling
    <3>3. CASE StopEndResponse(p) \/ StopReconcile(p) \/ StopFail(p)
      BY <3>3, <1>t DEF StopEndResponse, StopReconcile, StopFail
    <3> QED BY <1>2, <3>1, <3>2, <3>3, <3>4
  <2>2. OnlyTask(p)
    BY <1>2, <1>t DEF StopFind, StopFound, StopCancelling, StopCommand, OnlyTask, Goto,
       StopEndResponse, StopReconcile, StopFail, StopEnd, StartApply
  <2>3. task'[p].pc = "failed" => faults' # 0
    <3>1. CASE StopFail(p)
      BY <3>1, <1>t DEF StopFail
    <3>2. CASE StopFind(p) \/ StopEnd(p)
      BY ZenonT(40), <3>2, <1>t DEF StopFind, StopEnd, IdleTask
    <3>4. CASE StopFound(p)
      <4>1. \/ \E c \in {"cancelling", "reconcile", "return"} : Goto(p, c)
            \/ StartApply(p, task[p].run, "cancelled", 0, 0)
        BY <3>4 DEF StopFound
      <4> QED BY <4>1, <1>t, GotoFacts DEF StartApply
    <3>3. CASE StopCancelling(p) \/ StopCommand(p) \/ StopEndResponse(p) \/ StopReconcile(p)
      BY <3>3, GotoFacts DEF StopCancelling, StopCommand, StopEndResponse, StopReconcile
    <3> QED BY <1>2, <3>1, <3>2, <3>3, <3>4
  <2> QED BY <2>1, <2>1a, <2>2, <2>3 DEF AnswerStep, LaneKinds
<1>3. ASSUME NEW p \in Procs,
             \/ LaunchClaim(p) \/ LaunchStopped(p) \/ LaunchHandoff(p) \/ LaunchReclaim(p)
             \/ LaunchCreate(p) \/ LaunchFailClaim(p) \/ LaunchRegister(p) \/ LaunchEnd(p)
      PROVE  AnswerStep(p)
  <2>1. /\ Kind(p) = "launch"
        /\ task[p].pc # "done"
        /\ UNCHANGED <<log, acked, hosted, crashes, lastSeq, finalizing>>
        /\ faults' >= faults
    BY <1>3, <1>t DEF LaunchClaim, LaunchStopped, LaunchHandoff, LaunchReclaim,
       LaunchCreate, LaunchFailClaim, LaunchRegister, LaunchEnd
  <2>2. LaunchDone(p) \/ \E c \in LaunchPcs \cup {"find"} : Goto(p, c)
    BY <1>3 DEF LaunchClaim, LaunchStopped, LaunchHandoff, LaunchReclaim, LaunchPcs,
       LaunchCreate, LaunchFailClaim, LaunchRegister, LaunchEnd
  <2>3. OnlyTask(p) /\ task'[p].pc # "failed"
    BY <2>2, GotoFacts, IdleFacts DEF LaunchDone, LaunchPcs
  <2> QED BY <2>1, <2>3 DEF AnswerStep, LaneKinds
<1>4. ASSUME NEW p \in Procs, LaunchSubmit(p)
      PROVE  AnswerStep(p)
  <2>1. /\ Kind(p) = "launch" /\ p[2] \in Runs /\ p = <<"launch", p[2]>>
        /\ task[p].pc = "submit" /\ row[p[2]] # "absent"
        /\ UNCHANGED <<log, acked, crashes, lastSeq, faults, row>>
        /\ finalizing \subseteq finalizing'
    BY <1>4, <1>c, ProcOfRun DEF LaunchSubmit, TaskInv, LaunchInv, StartApply
  <2>2. OnlyTask(p) /\ task'[p].pc \in {"done", "persist"}
    BY <1>4, <1>t, IdleFacts DEF LaunchSubmit, LaunchDone, StartApply, OnlyTask, IdleTask
  <2>3. \/ UNCHANGED hosted
        \/ /\ LaunchDone(p)
           /\ \E h \in {"yes", "released"} : hosted' = [hosted EXCEPT ![p[2]] = h]
    BY <1>4 DEF LaunchSubmit
  <2>4. LaunchDone(p) => task'[p].pc = "done"
    BY <1>t DEF LaunchDone, IdleTask
  <2> QED BY <2>1, <2>2, <2>3, <2>4, <1>t DEF AnswerStep, LaneKinds
<1>5. ASSUME NEW p \in Procs,
             \/ Notify(p) \/ NotifyEnd(p) \/ TimeoutFire(p) \/ TimeoutForce(p) \/ TimeoutEnd(p)
             \/ RecoveryStart(p) \/ RecoveryNext(p) \/ RecoveryReturn(p) \/ RecoveryEnd(p)
      PROVE  AnswerStep(p)
  <2>1. /\ Kind(p) \in {"notify", "timeout", "recovery"}
        /\ task[p].pc # "done"
        /\ UNCHANGED <<log, acked, crashes, lastSeq, faults>>
        /\ finalizing \subseteq finalizing'
    BY <1>5 DEF Notify, NotifyEnd, TimeoutFire, TimeoutForce, TimeoutEnd, RecoveryStart,
       RecoveryNext, RecoveryReturn, RecoveryEnd, Recovery, Kind, StartApply
  <2>2. OnlyTask(p)
    BY <1>5, <1>t DEF Notify, NotifyEnd, TimeoutFire, TimeoutForce, TimeoutEnd,
       RecoveryStart, RecoveryNext, RecoveryReturn, RecoveryEnd, StartApply, OnlyTask, Goto
  <2>3. task'[p].pc = "failed" => task[p].pc = "failed"
    <3>1. CASE Notify(p) \/ NotifyEnd(p)
      BY <3>1, <1>t DEF Notify, NotifyEnd, StartApply, IdleTask
    <3>5. CASE TimeoutFire(p)
      <4>1. \/ UNCHANGED task
            \/ task' = [task EXCEPT ![p] = [IdleTask EXCEPT !.pc = "force", !.run = p[2]]]
        BY <3>5 DEF TimeoutFire
      <4>2. task \in [Procs -> Task]
        BY <1>t
      <4>3. CASE task' = [task EXCEPT ![p] = [IdleTask EXCEPT !.pc = "force", !.run = p[2]]]
        <5>1. task'[p].pc = "force"
          BY <4>2, <4>3 DEF IdleTask
        <5> QED BY <5>1
      <4> QED BY <4>1, <4>3
    <3>2. CASE TimeoutForce(p) \/ TimeoutEnd(p)
      BY <3>2, <1>t, GotoFacts DEF TimeoutForce, TimeoutEnd, StartApply, IdleTask
    <3>3. CASE RecoveryStart(p) \/ RecoveryNext(p)
      BY <3>3, <1>t, GotoFacts DEF RecoveryStart, RecoveryNext, StartApply
    <3>4. CASE RecoveryReturn(p) \/ RecoveryEnd(p)
      BY <3>4, <1>t DEF RecoveryReturn, RecoveryEnd, IdleTask
    <3> QED BY <1>5, <3>1, <3>2, <3>3, <3>4, <3>5
  <2>4. \A r \in Runs : hosted'[r] = hosted[r] \/ (hosted[r] # "no" /\ hosted'[r] # "no")
    <3>1. UNCHANGED hosted \/ \E r \in Runs \cup {None} : Release(r)
      BY <1>5, <1>t DEF Notify, NotifyEnd, TimeoutFire, TimeoutForce, TimeoutEnd,
         RecoveryStart, RecoveryNext, RecoveryReturn, RecoveryEnd
    <3> QED BY <3>1, <1>t DEF Release
  <2> QED BY <2>1, <2>2, <2>3, <2>4, <1>t DEF AnswerStep, LaneKinds
<1>6. ASSUME (\E r \in Runs : Expire(r)) \/ UNCHANGED vars
      PROVE  AnswerStep(Recovery) /\ Recovery \in Procs
  BY <1>6, <1>t DEF Expire, AnswerStep, OnlyTask, LaneStep, Recovery, Procs
<1> QED BY <1>1, <1>2, <1>3, <1>4, <1>5, <1>6 DEF Next, Continue, Begin, Apply, Stop, Launch,
     Recover

LEMMA LaneOfRun ==
  ASSUME NEW p \in Procs, p \in Lanes(p[2])
  PROVE  Kind(p) \in LaneKinds /\ p[2] \in Runs /\ p # <<"launch", p[2]>>
BY DEF Lanes, LaneKinds, Kind, Procs

LEMMA AnswerTypes ==
  ASSUME TypeInv
  PROVE  /\ task \in [Procs -> Task]
         /\ \A q \in Procs : task[q].i \in Nat /\ task[q].prev \in Nat /\ task[q].st \in Applied
         /\ log \in [Runs -> Seq(WorkerMsgs)] /\ acked \in [Runs -> Nat]
         /\ lastSeq \in [Runs -> Nat] /\ hosted \in [Runs -> {"no", "yes", "released"}]
         /\ \A r \in Runs : Len(log[r]) \in Nat /\ acked[r] \in Nat /\ lastSeq[r] \in Nat
BY DEF TypeInv, TypeOK, Task

(* A step that neither takes nor answers a message keeps the answers in order. *)
LEMMA AnswerKeeps ==
  ASSUME IInv, IInv', AnswerInv, [Next]_vars, NEW p \in Procs, AnswerStep(p)
  PROVE  AnswerInv'
<1>t. TypeInv /\ TypeInv'
  BY DEF IInv
<1>1. ASSUME NEW r \in Runs PROVE Submitted(r)' /\ Gate(r)'
  <2>1. Submitted(r) /\ Gate(r)
    BY DEF AnswerInv
  <2>2. row[r] # "absent" => row'[r] # "absent"
    BY RowsStay
  <2>3. <<"launch", r>> \in Procs
    BY DEF Procs
  <2>4. task[<<"launch", r>>].pc = "done" => task'[<<"launch", r>>].pc = "done"
    BY <2>3 DEF AnswerStep, OnlyTask
  <2>5. Submitted(r)'
    BY <2>1, <2>2, <2>4 DEF AnswerStep, Submitted
  <2>6. Gate(r)'
    <3>1. Len(log[r]) \in Nat
      BY <1>t, AnswerTypes
    <3>2. log' = log /\ acked' = acked /\ lastSeq'[r] \in {lastSeq[r], 0}
      BY DEF AnswerStep
    <3> QED BY <2>1, <3>1, <3>2 DEF Gate
  <2> QED BY <2>5, <2>6
<1>2. ASSUME NEW q \in Procs PROVE LaneTask(q)'
  <2>1. LaneTask(q)
    BY DEF AnswerInv
  <2>2. UNCHANGED <<log, acked>>
    BY DEF AnswerStep
  <2>3. Kind(q) \in LaneKinds => q[2] \in Runs
    BY ProcOfRun DEF LaneKinds
  <2>4. Kind(q) \in LaneKinds /\ row[q[2]] \in Terminal => row'[q[2]] \in Terminal
    BY <2>3, RowsForward DEF Forward
  <2>5. CASE task'[q] = task[q]
    BY <2>1, <2>2, <2>4, <2>5 DEF LaneTask
  <2>6. CASE task'[q] # task[q] /\ Kind(q) \in LaneKinds
    <3>1. /\ q = p /\ task[p].pc # "idle"
          /\ task'[p].run = task[p].run /\ task'[p].st = task[p].st
          /\ task'[p].i = task[p].i /\ task'[p].prev = task[p].prev
          /\ task'[p].pc \in ApplyPcs \cup {"return", "failed"}
          /\ task'[p].pc = "return" /\ task[p].st \in Terminal => row'[task[p].run] \in Terminal
      BY <2>6 DEF AnswerStep, OnlyTask, LaneStep
    <3> QED BY <2>1, <2>2, <2>6, <3>1 DEF LaneTask, ApplyPcs
  <2> QED BY <2>5, <2>6 DEF LaneTask
<1> QED BY <1>1, <1>2 DEF AnswerInv

(* What taking a message does: it is appended when it is new, and the lane begins
   to work on it or answers it. *)
Taken(p, i, m) ==
  LET r == p[2] IN
  /\ r \in Runs /\ Kind(p) \in LaneKinds /\ task[p].pc = "idle" /\ phase = "up"
  /\ i \in Nat /\ i >= 1 /\ i \in {acked[r], acked[r] + 1}
  /\ m \in WorkerMsgs
  /\ \/ i <= Len(log[r]) /\ m = log[r][i] /\ log' = log
     \/ /\ i = Len(log[r]) + 1 /\ hosted[r] = "yes" /\ m \in NextMsgs(r)
        /\ log' = [log EXCEPT ![r] = Append(@, m)]
  /\ IF Passes(r, i) THEN Accept(p, r, m, i) ELSE Skip(p, r, m, i)

LEMMA DeliverTakes ==
  ASSUME TypeInv, AnswerInv, NEW p \in Procs, Deliver(p)
  PROVE  \E i, m : Taken(p, i, m)
<1> DEFINE r == p[2]
<1>1. r \in Runs /\ Kind(p) \in LaneKinds /\ task[p].pc = "idle" /\ phase = "up"
  BY LaneOfRun DEF Deliver
<1>t. /\ log[r] \in Seq(WorkerMsgs) /\ acked[r] \in Nat /\ hosted[r] \in {"no", "yes", "released"}
      /\ Len(log[r]) \in Nat
  BY <1>1, AnswerTypes
<1>2. PICK i \in {acked[r], acked[r] + 1} \ {0} :
        \E m \in (IF i <= Len(log[r]) THEN {log[r][i]}
                  ELSE IF hosted[r] = "yes" THEN NextMsgs(r) ELSE {}) :
          /\ log' = IF i <= Len(log[r]) THEN log ELSE [log EXCEPT ![r] = Append(@, m)]
          /\ IF Passes(r, i) THEN Accept(p, r, m, i) ELSE Skip(p, r, m, i)
  BY DEF Deliver
<1>3. PICK m \in (IF i <= Len(log[r]) THEN {log[r][i]}
                  ELSE IF hosted[r] = "yes" THEN NextMsgs(r) ELSE {}) :
          /\ log' = IF i <= Len(log[r]) THEN log ELSE [log EXCEPT ![r] = Append(@, m)]
          /\ IF Passes(r, i) THEN Accept(p, r, m, i) ELSE Skip(p, r, m, i)
  BY <1>2
<1>4. i \in Nat /\ i >= 1 /\ i \in {acked[r], acked[r] + 1}
  BY <1>t, <1>2
<1>5. acked[r] <= Len(log[r])
  BY <1>1 DEF AnswerInv, Gate
<1>6. CASE i <= Len(log[r])
  <2>1. m = log[r][i] /\ log' = log
    BY <1>6, <1>3
  <2>2. m \in WorkerMsgs
    BY <2>1, <1>6, <1>t, <1>4
  <2> QED BY <1>1, <1>3, <1>4, <1>6, <2>1, <2>2 DEF Taken
<1>7. CASE ~(i <= Len(log[r]))
  <2>1. i = Len(log[r]) + 1
    BY <1>7, <1>5, <1>4, <1>t
  <2>2. /\ hosted[r] = "yes" /\ m \in NextMsgs(r)
        /\ log' = [log EXCEPT ![r] = Append(@, m)]
    BY <1>7, <1>3
  <2>3. m \in WorkerMsgs
    BY <2>2 DEF NextMsgs, WorkerMsgs, Terminal
  <2> QED BY <1>1, <1>3, <1>4, <2>1, <2>2, <2>3 DEF Taken
<1> QED BY <1>6, <1>7

(* What it means for the log: it keeps its prefix and holds the message. *)
LEMMA TakenLog ==
  ASSUME TypeInv, AnswerInv, NEW p \in Procs, NEW i, NEW m, Taken(p, i, m)
  PROVE  /\ \A r \in Runs \ {p[2]} : log'[r] = log[r]
         /\ Len(log'[p[2]]) >= Len(log[p[2]]) /\ i \in 1..Len(log'[p[2]])
         /\ Len(log'[p[2]]) \in Nat
         /\ \A n \in 1..Len(log[p[2]]) : log'[p[2]][n] = log[p[2]][n]
         /\ log'[p[2]][i] = m
         /\ Len(log'[p[2]]) = Len(log[p[2]]) \/ (Len(log'[p[2]]) = i /\ i = Len(log[p[2]]) + 1)
         /\ log'[p[2]] # << >> => hosted[p[2]] # "no"
<1> DEFINE r == p[2]
<1>t. r \in Runs /\ log \in [Runs -> Seq(WorkerMsgs)] /\ log[r] \in Seq(WorkerMsgs)
  BY AnswerTypes DEF Taken
<1>1. CASE i <= Len(log[r]) /\ m = log[r][i] /\ log' = log
  <2>1. Len(log[r]) \in Nat /\ i \in 1..Len(log[r])
    BY <1>1, <1>t DEF Taken
  <2>2. log[r] # << >> => hosted[r] # "no"
    BY <1>t DEF AnswerInv, Submitted
  <2> QED BY <1>1, <2>1, <2>2
<1>2. CASE i = Len(log[r]) + 1 /\ hosted[r] = "yes" /\ log' = [log EXCEPT ![r] = Append(@, m)]
  <2>1. log'[r] = Append(log[r], m) /\ \A s \in Runs \ {r} : log'[s] = log[s]
    BY <1>2, <1>t
  <2>2. m \in WorkerMsgs
    BY DEF Taken
  <2> QED BY <2>1, <2>2, <1>2, <1>t
<1> QED BY <1>1, <1>2 DEF Taken

LEMMA AnswerNext ==
  ASSUME IInv, IInv', LifeInv, AnswerInv, [Next]_vars
  PROVE  AnswerInv'
<1> USE DEF vars, db, live, guard, host, bounds
<1>i. TypeInv /\ TypeInv' /\ CoreInv
  BY DEF IInv
<1>t. /\ task \in [Procs -> Task]
      /\ \A q \in Procs : task[q].i \in Nat /\ task[q].prev \in Nat /\ task[q].st \in Applied
      /\ log \in [Runs -> Seq(WorkerMsgs)] /\ acked \in [Runs -> Nat]
      /\ lastSeq \in [Runs -> Nat] /\ hosted \in [Runs -> {"no", "yes", "released"}]
      /\ \A r \in Runs : Len(log[r]) \in Nat /\ acked[r] \in Nat /\ lastSeq[r] \in Nat
  BY <1>i, AnswerTypes
<1>a. /\ \A r \in Runs : Submitted(r) /\ Gate(r)
      /\ \A q \in Procs : LaneTask(q)
  BY DEF AnswerInv
<1>r. \A r \in Runs : /\ row[r] # "absent" => row'[r] # "absent"
                      /\ row[r] \in Terminal => row'[r] \in Terminal
  BY RowsStay, RowsForward DEF Forward
<1>p. \A q \in Procs : Kind(q) \in LaneKinds => q[2] \in Runs
  BY ProcOfRun DEF LaneKinds
<1>1. ASSUME NEW p \in Procs, AnswerStep(p)
      PROVE  AnswerInv'
  BY <1>1, AnswerKeeps
<1>2. ASSUME NEW p \in Procs, Deliver(p)
      PROVE  AnswerInv'
  <2> DEFINE r == p[2]
  <2>1. PICK i, m : Taken(p, i, m)
    BY <1>2, <1>i, DeliverTakes
  <2>2. /\ r \in Runs /\ Kind(p) \in LaneKinds /\ task[p].pc = "idle"
        /\ i \in Nat /\ i >= 1 /\ i \in {acked[r], acked[r] + 1}
        /\ m \in WorkerMsgs
        /\ IF Passes(r, i) THEN Accept(p, r, m, i) ELSE Skip(p, r, m, i)
    BY <2>1 DEF Taken
  <2>3. /\ \A s \in Runs \ {r} : log'[s] = log[s]
        /\ Len(log'[r]) >= Len(log[r]) /\ i \in 1..Len(log'[r]) /\ Len(log'[r]) \in Nat
        /\ \A n \in 1..Len(log[r]) : log'[r][n] = log[r][n]
        /\ log'[r][i] = m
        /\ log'[r] # << >> => hosted[r] # "no"
    BY <2>1, <1>i, TakenLog
  <2>4. row' = row
    BY <1>2 DEF Deliver
  <2>5. /\ OnlyTask(p)
        /\ \A s \in Runs : \/ hosted'[s] = hosted[s]
                           \/ hosted[s] # "no" /\ hosted'[s] # "no"
        /\ \A s \in Runs \ {r} : acked'[s] = acked[s] /\ lastSeq'[s] = lastSeq[s]
    <3>1. CASE Skip(p, r, m, i)
      BY <3>1, <2>2, <1>t DEF Skip, OnlyTask, Release, Ack
    <3>2. CASE Accept(p, r, m, i)
      BY <3>2, <2>2, <1>t DEF Accept, OnlyTask, StartApply
    <3> QED BY <2>2, <3>1, <3>2
  <2>6. /\ acked[r] <= acked'[r] /\ acked'[r] <= Len(log'[r])
        /\ lastSeq'[r] <= Len(log'[r]) /\ acked'[r] \in Nat
    <3>0. acked[r] <= Len(log[r]) /\ lastSeq[r] <= Len(log[r])
      BY <2>2, <1>a DEF Gate
    <3>1. CASE Skip(p, r, m, i)
      <4>1. acked'[r] \in {acked[r], i} /\ acked'[r] >= acked[r] /\ lastSeq' = lastSeq
        BY <3>1, <2>2, <1>t DEF Skip, Ack
      <4> QED BY <4>1, <3>0, <2>2, <2>3, <1>t
    <3>2. CASE Accept(p, r, m, i)
      <4>1. acked' = acked /\ lastSeq'[r] = i
        BY <3>2, <2>2, <1>t DEF Accept
      <4> QED BY <4>1, <3>0, <2>2, <2>3, <1>t
    <3> QED BY <2>2, <3>1, <3>2
  <2>7. ASSUME NEW s \in Runs PROVE Submitted(s)' /\ Gate(s)'
    <3>1. <<"launch", s>> \in Procs /\ p # <<"launch", s>>
      BY <2>2 DEF Procs, LaneKinds, Kind
    <3>2. task'[<<"launch", s>>] = task[<<"launch", s>>]
      BY <3>1, <2>5 DEF OnlyTask
    <3>3. Submitted(s) /\ Gate(s)
      BY <1>a
    <3>4. CASE s = r
      BY <3>2, <3>3, <3>4, <2>3, <2>4, <2>5, <2>6 DEF Submitted, Gate
    <3>5. CASE s # r
      BY <3>2, <3>3, <3>5, <2>3, <2>4, <2>5 DEF Submitted, Gate
    <3> QED BY <3>4, <3>5
  <2>8. ASSUME NEW q \in Procs, q # p PROVE LaneTask(q)'
    <3>1. LaneTask(q) /\ task'[q] = task[q]
      BY <2>8, <1>a, <2>5 DEF OnlyTask
    <3>2. CASE q[2] = r
      <4> DEFINE n == task[q].i
      <4> SUFFICES ASSUME Kind(q) \in LaneKinds, task[q].pc # "idle"
                   PROVE  LaneTask(q)'
        BY <3>1 DEF LaneTask
      <4>1. n \in 1..Len(log[r]) /\ n <= acked[r] + 1 /\ task[q].prev <= Len(log[r])
        BY <3>1, <3>2 DEF LaneTask
      <4>2. n \in 1..Len(log'[r]) /\ n <= acked'[r] + 1 /\ task[q].prev <= Len(log'[r])
        BY SMTT(40), <4>1, <2>2, <2>3, <2>6, <1>t
      <4>3. log'[r][n] = log[r][n]
        BY <4>1, <2>3
      <4> HIDE DEF n
      <4> QED BY <3>1, <3>2, <4>2, <4>3, <2>4 DEF LaneTask, n
    <3>3. CASE q[2] # r /\ Kind(q) \in LaneKinds
      BY <3>1, <3>3, <1>p, <2>3, <2>4, <2>5 DEF LaneTask
    <3> QED BY <3>2, <3>3 DEF LaneTask
  <2>9. LaneTask(p)'
    <3>1. CASE Skip(p, r, m, i)
      BY <3>1, <2>2 DEF Skip, LaneTask
    <3>2. CASE Accept(p, r, m, i)
      <4>1. /\ task'[p].run = r /\ task'[p].i = i /\ task'[p].prev = lastSeq[r]
            /\ \/ m = "agui" /\ task'[p].pc = "agui" /\ task'[p].st = "running"
               \/ m # "agui" /\ task'[p].pc = "persist" /\ task'[p].st = m
        BY <3>2, <2>2, <1>t DEF Accept, StartApply
      <4>2. lastSeq[r] <= Len(log'[r]) /\ i <= acked'[r] + 1
        BY <2>2, <2>3, <2>6, <1>a, <1>t DEF Gate
      <4> QED BY <4>1, <4>2, <2>3 DEF LaneTask, ApplyPcs
    <3> QED BY <2>2, <3>1, <3>2
  <2> QED BY <2>7, <2>8, <2>9 DEF AnswerInv
<1>3. ASSUME NEW p \in Procs, UpstreamReturn(p) \/ UpstreamFailed(p)
      PROVE  AnswerInv'
  <2> DEFINE r == p[2]
  <2>1. r \in Runs /\ Kind(p) \in LaneKinds /\ task[p].pc \in {"return", "failed"}
    BY <1>3, LaneOfRun DEF UpstreamReturn, UpstreamFailed
  <2>2. /\ task[p].run = r /\ task[p].i \in 1..Len(log[r]) /\ task[p].prev <= Len(log[r])
        /\ acked[r] <= Len(log[r]) /\ lastSeq[r] <= Len(log[r])
    BY <2>1, <1>a DEF LaneTask, Gate
  <2>3. /\ OnlyTask(p) /\ task'[p].pc = "idle"
        /\ log' = log /\ row' = row
    BY <1>3, <1>t DEF UpstreamReturn, UpstreamFailed, OnlyTask, IdleTask
  <2>4. \A s \in Runs : \/ hosted'[s] = hosted[s]
                        \/ hosted[s] # "no" /\ hosted'[s] # "no"
    BY <1>3, <1>t, <2>1, <2>2 DEF UpstreamReturn, UpstreamFailed, Release
  <2>5. /\ Ack(r, task[p].i) \/ UNCHANGED acked
        /\ Rollback(r, task[p].i, task[p].prev) \/ UNCHANGED lastSeq
    BY <1>3, <2>2 DEF UpstreamReturn, UpstreamFailed
  <2>6. \A s \in Runs : /\ acked[s] <= acked'[s] /\ acked'[s] <= Len(log[s])
                        /\ lastSeq'[s] <= Len(log[s]) /\ acked'[s] \in Nat
    <3>1. \A s \in Runs : acked[s] <= Len(log[s]) /\ lastSeq[s] <= Len(log[s])
      BY <1>a DEF Gate
    <3>2. \A s \in Runs : /\ acked'[s] = acked[s] \/ (s = r /\ acked'[s] = task[p].i /\ task[p].i > acked[r])
                          /\ lastSeq'[s] = lastSeq[s] \/ (s = r /\ lastSeq'[s] = task[p].prev)
      BY <2>5, <2>1, <1>t DEF Ack, Rollback
    <3>3. task[p].i <= Len(log[r]) /\ task[p].i \in Nat /\ task[p].prev \in Nat
      BY <2>1, <2>2, <1>t
    <3>4. \A s \in Runs : Len(log[s]) \in Nat /\ acked[s] \in Nat /\ lastSeq[s] \in Nat
      BY <1>t
    <3> HIDE DEF r
    <3> QED BY <3>1, <3>2, <3>3, <3>4, <2>2
  <2>7. ASSUME NEW s \in Runs PROVE Submitted(s)' /\ Gate(s)'
    <3>1. <<"launch", s>> \in Procs /\ p # <<"launch", s>>
      BY <2>1 DEF Procs, LaneKinds, Kind
    <3>2. task'[<<"launch", s>>] = task[<<"launch", s>>]
      BY <3>1, <2>3 DEF OnlyTask
    <3>3. Submitted(s)
      BY <1>a
    <3> QED BY <3>2, <3>3, <2>3, <2>4, <2>6 DEF Submitted, Gate
  <2>8. ASSUME NEW q \in Procs PROVE LaneTask(q)'
    <3>1. CASE q = p
      BY <3>1, <2>3 DEF LaneTask
    <3>2. CASE q # p
      <4>1. LaneTask(q) /\ task'[q] = task[q]
        BY <3>2, <1>a, <2>3 DEF OnlyTask
      <4>2. Kind(q) \in LaneKinds => acked[q[2]] <= acked'[q[2]] /\ acked'[q[2]] \in Nat
        BY <2>6, <1>p
      <4> QED BY <4>1, <4>2, <2>3, <1>p, <1>t DEF LaneTask
    <3> QED BY <3>1, <3>2
  <2> QED BY <2>7, <2>8 DEF AnswerInv
<1>4. CASE Crash
  <2>1. /\ \A q \in Procs : Kind(q) \in LaneKinds => task'[q].pc = "idle"
        /\ \A r \in Runs : lastSeq'[r] = 0
        /\ UNCHANGED <<row, hosted, log, acked>>
    BY <1>4 DEF Crash, LaneKinds, IdleTask
  <2>2. \A r \in Runs : task[<<"launch", r>>].pc = "done" => task'[<<"launch", r>>].pc = "done"
    BY <1>4 DEF Crash, Procs, Kind, IdleTask
  <2>3. \A r \in Runs : Submitted(r)'
    BY <2>1, <2>2, <1>a DEF Submitted
  <2>3a. \A r \in Runs : Gate(r)'
    <3>1. \A r \in Runs : Len(log[r]) \in Nat
      BY <1>t
    <3> QED BY <2>1, <1>a, <3>1 DEF Gate
  <2>4. \A q \in Procs : LaneTask(q)'
    BY <2>1 DEF LaneTask
  <2> QED BY <2>3, <2>3a, <2>4 DEF AnswerInv
<1> QED BY <1>1, <1>2, <1>3, <1>4, <1>i, AnswerFrame

LEMMA AnswerCorrect == Spec => []AnswerInv
<1>1. Init => AnswerInv
  <2> SUFFICES ASSUME Init PROVE AnswerInv
    OBVIOUS
  <2>1. /\ \A p \in Procs : task[p] = IdleTask
        /\ \A r \in Runs : hosted[r] = "no" /\ log[r] = << >> /\ acked[r] = 0 /\ lastSeq[r] = 0
    BY DEF Init
  <2> QED BY <2>1 DEF AnswerInv, Submitted, Gate, LaneTask, IdleTask
<1>2. IInv /\ IInv' /\ LifeInv /\ AnswerInv /\ [Next]_vars => AnswerInv'
  BY AnswerNext
<1> QED BY <1>1, <1>2, IInvCorrect, LifeCorrect, PTL DEF Spec

-----------------------------------------------------------------------------
(* A terminal status that was answered is kept, while nothing fails. *)

(* The run is over, or is being ended. *)
Ended(r) == row[r] \in Terminal \/ r \in finalizing

Calm == faults = 0 /\ crashes = 0

(* Without failures no apply is given up, and what has passed the sequence gate
   or was answered is over when it was a terminal status. *)
CalmInv ==
  Calm =>
    /\ \A p \in Procs : task[p].pc # "failed"
    /\ \A r \in Runs : \A n \in 1..Len(log[r]) :
         (n <= acked[r] \/ n <= lastSeq[r]) /\ log[r][n] \in Terminal => Ended(r)

(* A worker that posts to a server without its live handle is over. *)
LEMMA NoHandleIsOver ==
  ASSUME IInv, LifeInv, AnswerInv, NEW p \in Procs, NEW i, NEW m, Taken(p, i, m),
         p[2] \notin handles
  PROVE  row[p[2]] \in Terminal
<1> DEFINE r == p[2]
<1>1. r \in Runs /\ phase = "up"
  BY DEF Taken
<1>2. log'[r] # << >> => hosted[r] # "no"
  BY TakenLog DEF IInv
<1>3. i \in 1..Len(log'[r])
  BY TakenLog DEF IInv
<1>3a. log[r] # << >> \/ hosted[r] = "yes"
  BY <1>1 DEF Taken
<1>4. row[r] # "absent" /\ task[<<"launch", r>>].pc = "done"
  BY <1>1, <1>3a DEF AnswerInv, Submitted
<1>5. row[r] \notin Active
  BY <1>1, <1>4 DEF LifeInv, HandleIsLive
<1> QED BY <1>1, <1>4, <1>5 DEF IInv, TypeInv, TypeOK

(* What an answer to message i means for the messages that are answered. *)
LEMMA AnsweredBefore ==
  ASSUME NEW a \in Nat, NEW b \in Nat, NEW i \in Nat, NEW n \in Nat,
         i <= a + 1, b \in {a, i}, n <= b
  PROVE  n <= a \/ n = i
OBVIOUS

LEMMA CalmNext ==
  ASSUME IInv, IInv', LifeInv, AnswerInv, CalmInv, [Next]_vars
  PROVE  CalmInv'
<1> SUFFICES ASSUME Calm'
             PROVE  /\ \A p \in Procs : task'[p].pc # "failed"
                    /\ \A r \in Runs : \A n \in 1..Len(log'[r]) :
                         (n <= acked'[r] \/ n <= lastSeq'[r]) /\ log'[r][n] \in Terminal
                         => Ended(r)'
  BY DEF CalmInv
<1>i. TypeInv /\ TypeInv' /\ CoreInv
  BY DEF IInv
<1>t. /\ \A r \in Runs : Len(log[r]) \in Nat /\ acked[r] \in Nat /\ lastSeq[r] \in Nat
      /\ task \in [Procs -> Task] /\ acked \in [Runs -> Nat] /\ lastSeq \in [Runs -> Nat]
      /\ \A q \in Procs : task[q].i \in Nat
      /\ faults \in Nat /\ faults' \in Nat /\ crashes \in Nat /\ completed \subseteq Runs
  BY <1>i, AnswerTypes DEF TypeInv, TypeOK
<1>f. \A r \in Runs : row[r] \in Terminal => row'[r] \in Terminal
  BY RowsForward DEF Forward
<1>a. \A q \in Procs : LaneTask(q)
  BY DEF AnswerInv
<1>1. ASSUME NEW p \in Procs, AnswerStep(p)
      PROVE  CalmInv'
  <2>1. Calm
    BY <1>1, <1>t DEF AnswerStep, Calm
  <2>2. /\ \A q \in Procs : task[q].pc # "failed"
        /\ \A r \in Runs : \A n \in 1..Len(log[r]) :
             (n <= acked[r] \/ n <= lastSeq[r]) /\ log[r][n] \in Terminal => Ended(r)
    BY <2>1 DEF CalmInv
  <2>3. \A r \in Runs : Ended(r) => Ended(r)'
    BY <1>1, <1>f DEF AnswerStep, Ended, Calm
  <2>4. \A q \in Procs : task'[q].pc # "failed"
    BY <1>1, <2>2 DEF AnswerStep, OnlyTask, Calm
  <2>5. ASSUME NEW r \in Runs, NEW n \in 1..Len(log'[r]),
               n <= acked'[r] \/ n <= lastSeq'[r], log'[r][n] \in Terminal
        PROVE  Ended(r)'
    <3>1. log' = log /\ acked' = acked /\ lastSeq'[r] \in {lastSeq[r], 0}
      BY <1>1 DEF AnswerStep
    <3>2. n <= acked[r] \/ n <= lastSeq[r]
      BY <2>5, <3>1, <1>t
    <3> QED BY <2>2, <2>3, <2>5, <3>1, <3>2
  <2> QED BY <2>4, <2>5 DEF CalmInv
<1>2. ASSUME NEW p \in Procs, Deliver(p)
      PROVE  CalmInv'
  <2> DEFINE r == p[2]
  <2>1. PICK i, m : Taken(p, i, m)
    BY <1>2, <1>i, DeliverTakes
  <2>2. /\ r \in Runs /\ task[p].pc = "idle" /\ phase = "up"
        /\ i \in Nat /\ i >= 1 /\ i \in {acked[r], acked[r] + 1}
        /\ IF Passes(r, i) THEN Accept(p, r, m, i) ELSE Skip(p, r, m, i)
        /\ m \in WorkerMsgs
    BY <2>1 DEF Taken
  <2>3. /\ \A s \in Runs \ {r} : log'[s] = log[s]
        /\ Len(log'[r]) \in Nat
        /\ \A n \in 1..Len(log[r]) : log'[r][n] = log[r][n]
        /\ log'[r][i] = m
        /\ Len(log'[r]) = Len(log[r]) \/ (Len(log'[r]) = i /\ i = Len(log[r]) + 1)
    BY <2>1, <1>i, TakenLog
  <2>4. row' = row /\ Calm
    BY <1>2 DEF Deliver, Calm, bounds
  <2>5. /\ \A q \in Procs : task[q].pc # "failed"
        /\ \A s \in Runs : \A n \in 1..Len(log[s]) :
             (n <= acked[s] \/ n <= lastSeq[s]) /\ log[s][n] \in Terminal => Ended(s)
    BY <2>4 DEF CalmInv
  <2>6. /\ \A s \in Runs \ {r} : acked'[s] = acked[s] /\ lastSeq'[s] = lastSeq[s]
        /\ acked'[r] \in {acked[r], i} /\ lastSeq'[r] \in {lastSeq[r], i}
        /\ finalizing \subseteq finalizing'
        /\ \A q \in Procs : task'[q].pc # "failed"
    <3>1. CASE Skip(p, r, m, i)
      BY <3>1, <2>2, <2>5, <1>t DEF Skip, Ack
    <3>2. CASE Accept(p, r, m, i)
      <4>1. acked' = acked /\ lastSeq' = [lastSeq EXCEPT ![r] = i]
        BY <3>2 DEF Accept
      <4>2. finalizing \subseteq finalizing' /\ task'[p].pc # "failed" /\ OnlyTask(p)
        BY <3>2, <2>2, <1>t DEF Accept, StartApply, OnlyTask
      <4> QED BY <4>1, <4>2, <2>2, <2>5, <1>t DEF OnlyTask
    <3> QED BY <2>2, <3>1, <3>2
  <2>7. \A s \in Runs : Ended(s) => Ended(s)'
    BY <2>4, <2>6 DEF Ended
  <2>8. m \in Terminal => Ended(r)'
    <3>0. SUFFICES ASSUME m \in Terminal PROVE Ended(r)'
      OBVIOUS
    <3>1. CASE Passes(r, i)
      <4>1. m # "agui"
        BY <3>0 DEF Terminal
      <4> QED BY <3>0, <3>1, <4>1, <2>2 DEF Accept, StartApply, Ended
    <3>2. CASE r \notin handles
      BY <3>2, <2>1, <2>4, NoHandleIsOver DEF Ended
    <3>3. CASE ~Decide(r)
      <4>1. Ended(r)
        BY <3>3, <1>i DEF Decide, Ended, CoreInv, CompletedIsDurable
      <4> QED BY <4>1, <2>7, <2>2
    <3>4. CASE i <= lastSeq[r]
      <4>1. lastSeq[r] <= Len(log[r])
        BY <2>2 DEF AnswerInv, Gate
      <4>2. i \in 1..Len(log[r])
        BY <3>4, <4>1, <2>2, <1>t
      <4>3. log[r][i] = m
        BY <4>2, <2>3
      <4> QED BY <3>0, <3>4, <4>2, <4>3, <2>2, <2>5, <2>7
    <3>5. i <= lastSeq[r] \/ i > lastSeq[r]
      BY <2>2, <1>t
    <3> QED BY <3>1, <3>2, <3>3, <3>4, <3>5 DEF Passes
  <2>9. ASSUME NEW s \in Runs, NEW n \in 1..Len(log'[s]),
               n <= acked'[s] \/ n <= lastSeq'[s], log'[s][n] \in Terminal
        PROVE  Ended(s)'
    <3>1. CASE s # r
      BY <3>1, <2>3, <2>5, <2>6, <2>7, <2>9
    <3>2. CASE s = r
      <4>1. n <= acked[r] \/ n <= lastSeq[r] \/ n = i
        BY <3>2, <2>2, <2>6, <2>9, <1>t, AnsweredBefore
      <4>2. CASE n = i
        BY <4>2, <3>2, <2>3, <2>8, <2>9
      <4>3. CASE n # i
        <5>1. n \in 1..Len(log[r])
          BY <4>3, <3>2, <2>3, <2>9, <2>2, <1>t
        <5> QED BY <5>1, <4>1, <4>3, <3>2, <2>3, <2>5, <2>7, <2>9
      <4> QED BY <4>2, <4>3
    <3> QED BY <3>1, <3>2
  <2> QED BY <2>6, <2>9 DEF CalmInv
<1>3. ASSUME NEW p \in Procs, UpstreamReturn(p)
      PROVE  CalmInv'
  <2> DEFINE r == p[2]
             i == task[p].i
  <2>1. r \in Runs /\ Kind(p) \in LaneKinds /\ task[p].pc = "return"
    BY <1>3, LaneOfRun DEF UpstreamReturn
  <2>2. /\ task[p].run = r /\ i \in 1..Len(log[r]) /\ i <= acked[r] + 1
        /\ log[r][i] \in Terminal => row[r] \in Terminal
    BY <2>1, <1>a DEF LaneTask, Terminal
  <2>3. /\ Calm /\ log' = log /\ row' = row /\ lastSeq' = lastSeq /\ finalizing' = finalizing
        /\ Ack(r, i)
        /\ \A q \in Procs : task'[q].pc \in {task[q].pc, "idle"}
    BY <1>3, <2>2, <1>t DEF UpstreamReturn, Calm, bounds, db, guard, IdleTask
  <2>4. /\ \A s \in Runs \ {r} : acked'[s] = acked[s]
        /\ acked'[r] \in {acked[r], i}
    BY <2>1, <2>3, <1>t DEF Ack
  <2>5. /\ \A q \in Procs : task[q].pc # "failed"
        /\ \A s \in Runs : \A n \in 1..Len(log[s]) :
             (n <= acked[s] \/ n <= lastSeq[s]) /\ log[s][n] \in Terminal => Ended(s)
    BY <2>3 DEF CalmInv
  <2>6. ASSUME NEW s \in Runs, NEW n \in 1..Len(log[s]),
               n <= acked'[s] \/ n <= lastSeq[s], log[s][n] \in Terminal
        PROVE  Ended(s)
    <3>1. CASE s # r
      BY <3>1, <2>4, <2>5, <2>6
    <3>2. CASE s = r
      <4>1. n <= acked[r] \/ n <= lastSeq[r] \/ n = i
        BY <3>2, <2>1, <2>2, <2>4, <2>6, <1>t, AnsweredBefore
      <4> QED BY <4>1, <3>2, <2>2, <2>5, <2>6 DEF Ended
    <3> QED BY <3>1, <3>2
  <2>7. \A s \in Runs : Ended(s) => Ended(s)'
    BY <2>3 DEF Ended
  <2> QED BY <2>3, <2>5, <2>6, <2>7 DEF CalmInv
<1>4. ASSUME NEW p \in Procs, UpstreamFailed(p)
      PROVE  CalmInv'
  BY <1>4 DEF UpstreamFailed, CalmInv, Calm, bounds
<1>5. CASE Crash
  BY <1>5, <1>t DEF Crash, Calm
<1> QED BY <1>1, <1>2, <1>3, <1>4, <1>5, <1>i, AnswerFrame DEF CalmInv

(* A terminal status is answered, and dropped by its Host, only when the run is
   over or being ended: with the built-in Host and a registered one, whatever is
   posted twice, skipped, reported by the Host, timed out or stopped, as long as
   no database call has failed and the server has not crashed. *)
THEOREM AnsweredIsKeptInCalm == Spec => [](Calm => AnsweredTerminalIsKept)
<1>1. Init => CalmInv
  <2> SUFFICES ASSUME Init PROVE CalmInv
    OBVIOUS
  <2>1. /\ \A p \in Procs : task[p] = IdleTask
        /\ \A r \in Runs : log[r] = << >>
    BY DEF Init
  <2> QED BY <2>1 DEF CalmInv, IdleTask
<1>2. IInv /\ IInv' /\ LifeInv /\ AnswerInv /\ CalmInv /\ [Next]_vars => CalmInv'
  BY CalmNext
<1>3. IInv /\ AnswerInv /\ CalmInv => (Calm => AnsweredTerminalIsKept)
  <2> SUFFICES ASSUME IInv, AnswerInv, CalmInv, Calm, NEW r \in Runs, NEW n \in 1..acked[r],
                      log[r][n] \in Terminal
               PROVE  row[r] \in Terminal \/ r \in finalizing
    BY DEF AnsweredTerminalIsKept
  <2>1. acked[r] \in Nat /\ Len(log[r]) \in Nat /\ acked[r] <= Len(log[r])
    BY AnswerTypes DEF IInv, AnswerInv, Gate
  <2>2. n \in 1..Len(log[r]) /\ n <= acked[r]
    BY <2>1
  <2> QED BY <2>2 DEF CalmInv, Ended
<1> QED BY <1>1, <1>2, <1>3, IInvCorrect, LifeCorrect, AnswerCorrect, PTL DEF Spec

-----------------------------------------------------------------------------
(* A terminal status that was answered is durable, in any circumstances, or its run
   has no timer any more: for a registered Host, until one is reaped, when nobody
   stops a run before its registration. *)

Alone == Env \cap {"builtin", "early"} = {}

(* Where the other finalizers are when a worker posts: there is one lane, the
   Host orders its reports with it, a recovery runs only while the server starts,
   a stop finalizes only runs that are over, and a timer that has fired is gone. *)
AloneInv ==
  /\ \A p \in Procs : Kind(p) = "repost" => task[p].pc = "idle"
  /\ phase = "up" /\ reaps = 0 => task[Recovery].pc = "idle"
  /\ \A p \in Procs : Kind(p) = "timeout" /\ task[p].pc # "idle" =>
       task[p].run = p[2] /\ p[2] \notin timers
  /\ \A p \in Procs : Kind(p) = "notify" /\ task[p].pc # "idle" =>
       task[p].run = p[2] /\ task[<<"upstream", p[2]>>].pc = "idle"
  /\ \A p \in Procs, r \in Runs :
       Kind(p) \in {"stop", "launch"} /\ Finalizes(p, r) => row[r] \in Terminal

(* A run that is over, or whose timer has fired. *)
Settled(r) == row[r] \in Terminal \/ r \notin timers

(* The sequence gate is ahead of the answers only by the message at work, and a
   terminal status is answered only when the run is settled. *)
DurableInv ==
  reaps = 0 =>
    \A r \in Runs :
      LET t == task[<<"upstream", r>>] IN
      /\ t.pc # "idle" => t.prev <= acked[r]
      /\ lastSeq[r] <= acked[r] \/ (t.pc # "idle" /\ lastSeq[r] = t.i)
      /\ \A n \in 1..acked[r] : log[r][n] \in Terminal => Settled(r)

(* A timer is armed only for a run that nobody works on and nobody has posted for. *)
TimersStep ==
  /\ reaps' = 0 => reaps = 0
  /\ \A r \in timers' \ timers : acked[r] = 0 /\ \A q \in Procs : task[q].run # r

LEMMA TimersNext ==
  ASSUME IInv, ClaimInv, AnswerInv, [Next]_vars
  PROVE  TimersStep
<1> USE DEF vars, db, live, guard, host, bounds
<1>t. reaps \in Nat /\ TypeInv /\ timers \subseteq Runs
  BY DEF IInv, TypeInv, TypeOK
<1>1. ASSUME NEW p \in Procs, Apply(p) \/ ApplyFail(p) \/ AguiEnd(p)
      PROVE  TimersStep
  <2>1. timers' \subseteq timers /\ reaps' = reaps
    BY <1>1 DEF Apply, ApplyPersist, ApplyPartial, ApplyPending, ApplyProject, ApplySave,
       ApplyFinish, ApplyFail, AguiEnd
  <2> QED BY <2>1 DEF TimersStep
<1>2. ASSUME NEW p \in Procs, \/ UpstreamReturn(p) \/ UpstreamFailed(p) \/ Deliver(p)
                              \/ Notify(p) \/ NotifyEnd(p) \/ TimeoutForce(p) \/ TimeoutEnd(p)
                              \/ TimeoutFire(p)
      PROVE  TimersStep
  <2>1. timers' \subseteq timers /\ reaps' = reaps
    BY <1>2 DEF UpstreamReturn, UpstreamFailed, Deliver, Notify, NotifyEnd, TimeoutForce,
       TimeoutEnd, TimeoutFire
  <2> QED BY <2>1 DEF TimersStep
<1>3. ASSUME NEW p \in Procs, Stop(p) \/ StopFind(p) \/ StopFail(p)
      PROVE  TimersStep
  <2>1. timers' = timers /\ reaps' = reaps
    BY <1>3 DEF Stop, StopFind, StopFail, StopFound, StopCancelling, StopCommand,
       StopEndResponse, StopReconcile, StopEnd
  <2> QED BY <2>1 DEF TimersStep
<1>4. ASSUME NEW p \in Procs, \/ LaunchClaim(p) \/ LaunchStopped(p) \/ LaunchHandoff(p)
                              \/ LaunchReclaim(p) \/ LaunchCreate(p) \/ LaunchFailClaim(p)
                              \/ LaunchSubmit(p) \/ LaunchEnd(p)
      PROVE  TimersStep
  <2>1. timers' = timers /\ reaps' = reaps
    BY <1>4 DEF LaunchClaim, LaunchStopped, LaunchHandoff, LaunchReclaim, LaunchCreate,
       LaunchFailClaim, LaunchSubmit, LaunchEnd
  <2> QED BY <2>1 DEF TimersStep
<1>5. ASSUME NEW p \in Procs, LaunchRegister(p)
      PROVE  TimersStep
  <2> DEFINE r == p[2]
  <2>1. /\ r \in Runs /\ p = <<"launch", r>> /\ task[p].pc = "register"
        /\ timers' = timers \cup {r} /\ reaps' = reaps
    BY <1>5, ProcOfRun DEF LaunchRegister, ArmTimer
  <2>2. \A q \in Procs : task[q].run # r
    BY <2>1 DEF ClaimInv, Registering, Untouched
  <2>3. acked[r] = 0
    <3>1. log[r] = << >> /\ acked[r] <= Len(log[r]) /\ acked[r] \in Nat
      BY <2>1, <1>t, AnswerTypes DEF AnswerInv, Submitted, Gate
    <3>2. Len(<< >>) = 0
      OBVIOUS
    <3> QED BY <3>1, <3>2
  <2> QED BY <2>1, <2>2, <2>3 DEF TimersStep
<1>6. ASSUME NEW p \in Procs, RecoveryStart(p) \/ Recover(p)
      PROVE  TimersStep
  <2>1. timers' = timers /\ reaps' \in {reaps, reaps + 1}
    BY <1>6 DEF RecoveryStart, Recover, RecoveryNext, RecoveryReturn, RecoveryEnd
  <2> QED BY <2>1, <1>t DEF TimersStep
<1>7. ASSUME Crash \/ (\E r \in Runs : Expire(r)) \/ UNCHANGED vars
      PROVE  TimersStep
  <2>1. timers' \subseteq timers /\ reaps' = reaps
    BY <1>7 DEF Crash, Expire
  <2> QED BY <2>1 DEF TimersStep
<1> QED BY <1>1, <1>2, <1>3, <1>4, <1>5, <1>6, <1>7 DEF Next, Continue, Begin, Launch

(* What no step of p does in such an environment. *)
AloneStep(p) ==
  /\ OnlyTask(p)
  /\ Kind(p) = "timeout" /\ task'[p].pc # "idle" =>
       \/ task[p].pc # "idle" /\ task'[p].run = task[p].run
       \/ task'[p].run = p[2] /\ p[2] \notin timers'
  /\ Kind(p) = "repost" => task[p].pc # "idle" \/ task'[p].pc = "idle"
  /\ Kind(p) = "recovery" /\ phase = "up" /\ reaps' = 0 =>
       task[p].pc # "idle" \/ task'[p].pc = "idle"
  /\ phase' = phase \/ (p = Recovery /\ task'[p].pc = "idle")
  /\ Kind(p) = "notify" /\ task'[p].pc # "idle" =>
       \/ task[p].pc # "idle" /\ task'[p].run = task[p].run
       \/ task'[p].run = p[2] /\ task[<<"upstream", p[2]>>].pc = "idle"
  /\ Kind(p) = "upstream" /\ task'[p].pc # "idle" =>
       \/ task[p].pc # "idle"
       \/ task[<<"notify", p[2]>>].pc = "idle"
  /\ Kind(p) \in {"stop", "launch"} =>
       \A r \in Runs : Finalizes(p, r)' => Finalizes(p, r) \/ row[r] \in Terminal

LEMMA AloneFrame ==
  ASSUME Alone, IInv, IInv', LifeInv, ClaimInv, AnswerInv, AloneInv, [Next]_vars
  PROVE  (\E p \in Procs : AloneStep(p)) \/ Crash
<1> USE DEF vars, db, live, guard, host, bounds
<1>i. TypeInv /\ TypeInv' /\ CoreInv
  BY DEF IInv
<1>t. /\ task \in [Procs -> Task] /\ row \in [Runs -> {"absent"} \cup Active \cup Terminal]
      /\ \A q \in Procs : task[q].run \in Runs \cup {None} /\ task[q].st \in Applied
      /\ None \notin Runs /\ reaps \in Nat
  BY <1>i, ConstantsAssumption DEF TypeInv, TypeOK, Task
<1>c. \A q \in Procs : TaskInv(q)
  BY <1>i DEF CoreInv
<1>n. Recovery \in Procs /\ Recovery[1] = "recovery"
  BY DEF Recovery, Procs
<1>1. ASSUME NEW p \in Procs,
             \/ ApplyPersist(p) \/ ApplyPartial(p) \/ ApplyPending(p) \/ ApplyProject(p)
             \/ ApplySave(p) \/ ApplyFinish(p) \/ ApplyFail(p) \/ AguiEnd(p)
      PROVE  AloneStep(p)
  <2>1. PICK c \in ApplyPcs \cup {"return", "failed"} : Goto(p, c)
    BY <1>1 DEF ApplyPersist, ApplyPartial, ApplyPending, ApplyProject, ApplySave,
       ApplyFinish, ApplyFail, AguiEnd, AfterPersist, ApplyPcs
  <2>2. /\ UNCHANGED phase
        /\ task[p].pc \in ApplyPcs \/ (task[p].pc = "agui" /\ c \notin ApplyPcs)
    BY <1>1, <2>1, <1>i, GotoFacts DEF ApplyPersist, ApplyPartial, ApplyPending, ApplyProject,
       ApplySave, ApplyFinish, ApplyFail, AguiEnd, ApplyPcs
  <2>3. /\ OnlyTask(p) /\ task'[p].pc = c
        /\ task'[p].run = task[p].run /\ task'[p].st = task[p].st
    BY <2>1, <1>i, GotoFacts
  <2> QED BY <2>2, <2>3 DEF AloneStep, Finalizes, ApplyPcs
<1>2. ASSUME NEW p \in Procs, UpstreamReturn(p) \/ UpstreamFailed(p) \/ NotifyEnd(p) \/ TimeoutEnd(p)
      PROVE  AloneStep(p)
  <2>1. OnlyTask(p) /\ task'[p].pc = "idle" /\ UNCHANGED phase
    BY <1>2, <1>t DEF UpstreamReturn, UpstreamFailed, NotifyEnd, TimeoutEnd, OnlyTask, IdleTask
  <2> QED BY <2>1 DEF AloneStep, Finalizes, ApplyPcs
<1>3. ASSUME NEW p \in Procs, Deliver(p)
      PROVE  AloneStep(p)
  <2>1. PICK i, m : Taken(p, i, m)
    BY <1>3, <1>i, DeliverTakes
  <2>2. OnlyTask(p) /\ UNCHANGED phase
    BY <1>3, <2>1, <1>t DEF Deliver, Taken, Accept, Skip, StartApply, OnlyTask
  <2>3. Kind(p) = "upstream" /\ task[<<"notify", p[2]>>].pc = "idle"
    BY <1>3 DEF Deliver, Lanes, Alone, Kind
  <2> QED BY <2>2, <2>3 DEF AloneStep
<1>4. ASSUME NEW p \in Procs, Notify(p)
      PROVE  AloneStep(p)
  <2>1. /\ Kind(p) = "notify" /\ UNCHANGED phase
        /\ task[<<"upstream", p[2]>>].pc = "idle"
        /\ \E s \in Terminal : StartApply(p, p[2], s, 0, 0)
    BY <1>4 DEF Notify, Alone, Terminal
  <2>2. OnlyTask(p) /\ task'[p].run = p[2]
    BY <2>1, <1>t DEF StartApply, OnlyTask
  <2> QED BY <2>1, <2>2 DEF AloneStep
<1>5. ASSUME NEW p \in Procs, TimeoutFire(p) \/ TimeoutForce(p)
      PROVE  AloneStep(p)
  <2>1. Kind(p) = "timeout" /\ UNCHANGED phase
    BY <1>5 DEF TimeoutFire, TimeoutForce
  <2>2. CASE TimeoutFire(p)
    <3>1. p[2] \notin timers'
      BY <2>2 DEF TimeoutFire
    <3>2. \/ UNCHANGED task
          \/ task' = [task EXCEPT ![p] = [IdleTask EXCEPT !.pc = "force", !.run = p[2]]]
      BY <2>2 DEF TimeoutFire
    <3>3. OnlyTask(p) /\ (task'[p] = task[p] \/ task'[p].run = p[2])
      BY ZenonT(40), <3>2, <1>t DEF OnlyTask, IdleTask
    <3> QED BY <2>1, <3>1, <3>3, <1>n DEF AloneStep, Kind
  <2>3. CASE TimeoutForce(p)
    <3>1. task[p].pc = "force"
      BY <2>3 DEF TimeoutForce
    <3>2. OnlyTask(p) /\ task'[p].run = task[p].run
      <4>1. CASE StartApply(p, task[p].run, "error", 0, 0)
        BY <4>1, <1>t DEF StartApply, OnlyTask
      <4>2. CASE Goto(p, "return")
        BY <4>2, <1>i, GotoFacts
      <4> QED BY <2>3, <4>1, <4>2 DEF TimeoutForce
    <3> QED BY <2>1, <3>1, <3>2, <1>n DEF AloneStep, Kind
  <2> QED BY <1>5, <2>2, <2>3
<1>6. ASSUME NEW p \in Procs,
             \/ StopFind(p) \/ StopCancelling(p) \/ StopCommand(p)
             \/ StopEndResponse(p) \/ StopReconcile(p) \/ StopFail(p) \/ StopEnd(p)
      PROVE  AloneStep(p)
  <2>1. Kind(p) \in {"stop", "launch"}
    BY <1>6, <1>c DEF StopFind, StopCancelling, StopCommand,
       StopEndResponse, StopReconcile, StopFail, StopEnd, TaskInv, KindInv, StopPcs
  <2>2. UNCHANGED phase
    BY <1>6 DEF StopFind, StopCancelling, StopCommand,
       StopEndResponse, StopReconcile, StopFail, StopEnd
  <2>3. OnlyTask(p) /\ task'[p].pc \notin ApplyPcs
    <3>1. CASE StopFind(p) \/ StopEnd(p)
      BY ZenonT(40), <3>1, <1>t DEF StopFind, StopEnd, IdleTask, OnlyTask, ApplyPcs
    <3>2. CASE \/ StopCancelling(p) \/ StopCommand(p) \/ StopEndResponse(p)
               \/ StopReconcile(p) \/ StopFail(p)
      BY <3>2, <1>i, GotoFacts DEF StopCancelling, StopCommand, StopEndResponse,
         StopReconcile, StopFail, ApplyPcs
    <3> QED BY <1>6, <3>1, <3>2
  <2> QED BY <2>1, <2>2, <2>3, <1>n DEF AloneStep, Finalizes, Kind
<1>7. ASSUME NEW p \in Procs, StopFound(p)
      PROVE  AloneStep(p)
  <2> DEFINE r == task[p].run
  <2>1. Kind(p) \in {"stop", "launch"} /\ task[p].pc = "found" /\ UNCHANGED phase
    BY <1>7, <1>c DEF StopFound, TaskInv, KindInv, StopPcs
  <2>2. \/ \E c \in {"cancelling", "reconcile", "return"} : Goto(p, c)
        \/ /\ StartApply(p, r, "cancelled", 0, 0) /\ r \in Runs \ handles
    BY <1>7 DEF StopFound
  <2>3. CASE \E c \in {"cancelling", "reconcile", "return"} : Goto(p, c)
    <3>1. OnlyTask(p) /\ task'[p].pc \notin ApplyPcs
      BY <2>3, <1>i, GotoFacts DEF ApplyPcs
    <3> QED BY <2>1, <3>1, <1>n DEF AloneStep, Finalizes, Kind
  <2>4. CASE StartApply(p, r, "cancelled", 0, 0) /\ r \in Runs \ handles
    <3>1. phase = "up"
      BY <2>1, <1>n, <1>i DEF LifeInv, LifeTask, Kind, TypeInv, TypeOK
    <3>2. ~Launching(r)
      BY <2>1, <2>4 DEF ClaimInv, Looking
    <3>3. row[r] \notin Active
      BY <2>4, <3>1, <3>2 DEF LifeInv, HandleIsLive, Launching
    <3>4. row[r] # "absent"
      BY <2>1, <2>4, <1>c, <1>t DEF TaskInv, RowInv
    <3>5. row[r] \in Terminal
      BY <2>4, <3>3, <3>4, <1>t
    <3>6. OnlyTask(p) /\ task'[p].run = r
      BY <2>4, <1>t DEF StartApply, OnlyTask
    <3> QED BY <2>1, <3>5, <3>6, <1>n DEF AloneStep, Finalizes, Kind
  <2> QED BY <2>2, <2>3, <2>4
<1>8. ASSUME NEW p \in Procs,
             \/ LaunchClaim(p) \/ LaunchStopped(p) \/ LaunchHandoff(p) \/ LaunchReclaim(p)
             \/ LaunchCreate(p) \/ LaunchFailClaim(p) \/ LaunchRegister(p)
             \/ LaunchSubmit(p) \/ LaunchEnd(p)
      PROVE  AloneStep(p)
  <2>1. Kind(p) = "launch" /\ UNCHANGED phase
    BY <1>8 DEF LaunchClaim, LaunchStopped, LaunchHandoff, LaunchReclaim,
       LaunchCreate, LaunchFailClaim, LaunchRegister, LaunchSubmit, LaunchEnd
  <2>2. LaunchDone(p) \/ \E c \in LaunchPcs \cup {"find"} : Goto(p, c)
    BY <1>8 DEF LaunchClaim, LaunchStopped, LaunchHandoff, LaunchReclaim, LaunchPcs,
       LaunchCreate, LaunchFailClaim, LaunchRegister, LaunchSubmit, LaunchEnd, Alone
  <2>3. OnlyTask(p) /\ task'[p].pc \notin ApplyPcs
    BY <2>2, <1>i, GotoFacts, IdleFacts DEF LaunchDone, LaunchPcs, ApplyPcs
  <2> QED BY <2>1, <2>3, <1>n DEF AloneStep, Finalizes, Kind
<1>9. ASSUME NEW p \in Procs,
             RecoveryStart(p) \/ RecoveryNext(p) \/ RecoveryReturn(p) \/ RecoveryEnd(p)
      PROVE  AloneStep(p)
  <2>1. p = Recovery /\ Kind(p) = "recovery"
    BY <1>9, <1>n DEF RecoveryStart, RecoveryNext, RecoveryReturn, RecoveryEnd, Kind
  <2>2. OnlyTask(p)
    BY <1>9, <1>t DEF RecoveryStart, RecoveryNext, RecoveryReturn, RecoveryEnd, Goto,
       OnlyTask, StartApply
  <2>3. phase = "up" /\ reaps' = 0 => task[p].pc # "idle"
    BY <1>9, <1>t DEF RecoveryStart, RecoveryNext, RecoveryReturn, RecoveryEnd
  <2>4. phase' = phase \/ task'[p].pc = "idle"
    BY <1>9, <1>t DEF RecoveryStart, RecoveryNext, RecoveryReturn, RecoveryEnd, IdleTask
  <2> QED BY <2>1, <2>2, <2>3, <2>4 DEF AloneStep
<1>10. ASSUME (\E r \in Runs : Expire(r)) \/ UNCHANGED vars
       PROVE  AloneStep(Recovery)
  BY <1>10, <1>n DEF Expire, AloneStep, OnlyTask, Kind, Finalizes
<1> QED BY <1>1, <1>2, <1>3, <1>4, <1>5, <1>6, <1>7, <1>8, <1>9, <1>10, <1>n DEF Next,
     Continue, Begin, Apply, Stop, Launch, Recover

LEMMA AloneNext ==
  ASSUME Alone, IInv, IInv', LifeInv, ClaimInv, AnswerInv, AloneInv, [Next]_vars
  PROVE  AloneInv'
<1>n. Recovery \in Procs /\ Kind(Recovery) = "recovery"
  BY DEF Recovery, Procs, Kind
<1>r. \A r \in Runs : row[r] \in Terminal => row'[r] \in Terminal
  BY RowsForward DEF Forward
<1>s. TimersStep
  BY TimersNext
<1>1. ASSUME NEW p \in Procs, AloneStep(p)
      PROVE  AloneInv'
  <2>1. ASSUME NEW q \in Procs, Kind(q) = "repost"
        PROVE  task'[q].pc = "idle"
    BY <1>1, <2>1 DEF AloneStep, AloneInv, OnlyTask
  <2>2. phase' = "up" /\ reaps' = 0 => task'[Recovery].pc = "idle"
    BY <1>1, <1>n, <1>s DEF AloneStep, AloneInv, OnlyTask, TimersStep
  <2>5. ASSUME NEW q \in Procs, Kind(q) = "timeout", task'[q].pc # "idle"
        PROVE  task'[q].run = q[2] /\ q[2] \notin timers'
    <3>1. CASE task[q].pc # "idle" /\ task'[q].run = task[q].run
      <4>1. task[q].run = q[2] /\ q[2] \notin timers
        BY <2>5, <3>1 DEF AloneInv
      <4> QED BY <3>1, <4>1, <1>s DEF TimersStep
    <3>2. CASE task'[q].run = q[2] /\ q[2] \notin timers'
      BY <3>2
    <3> QED BY <1>1, <2>5, <3>1, <3>2 DEF AloneStep, OnlyTask
  <2>3. ASSUME NEW q \in Procs, Kind(q) = "notify", task'[q].pc # "idle"
        PROVE  task'[q].run = q[2] /\ task'[<<"upstream", q[2]>>].pc = "idle"
    <3> DEFINE u == <<"upstream", q[2]>>
    <3>1. q[2] \in Runs /\ q = <<"notify", q[2]>> /\ u \in Procs /\ Kind(u) = "upstream"
          /\ u[2] = q[2] /\ u # q
      BY <2>3, ProcOfRun DEF Procs, Kind
    <3> HIDE DEF u
    <3>2. CASE p = q
      <4>1. task'[q].run = q[2] /\ task[<<"upstream", q[2]>>].pc = "idle"
        BY <1>1, <2>3, <3>2 DEF AloneStep, AloneInv
      <4> QED BY <4>1, <1>1, <3>1, <3>2 DEF AloneStep, OnlyTask, u
    <3>3. CASE p # q
      <4>1. task'[q] = task[q]
        BY <1>1, <3>3 DEF AloneStep, OnlyTask
      <4>2. task[q].run = q[2] /\ task[<<"upstream", q[2]>>].pc = "idle"
        BY <4>1, <2>3 DEF AloneInv
      <4>3. CASE p = u
        BY <1>1, <2>3, <3>1, <4>1, <4>2, <4>3 DEF AloneStep, u
      <4>4. CASE p # u
        BY <1>1, <3>1, <4>1, <4>2, <4>4 DEF AloneStep, OnlyTask, u
      <4> QED BY <4>3, <4>4
    <3> QED BY <3>2, <3>3
  <2>4. ASSUME NEW q \in Procs, NEW r \in Runs, Kind(q) \in {"stop", "launch"}, Finalizes(q, r)'
        PROVE  row'[r] \in Terminal
    <3>1. Finalizes(q, r) \/ row[r] \in Terminal
      BY <1>1, <2>4 DEF AloneStep, OnlyTask, Finalizes
    <3> QED BY <3>1, <2>4, <1>r DEF AloneInv
  <2> QED BY <2>1, <2>2, <2>3, <2>4, <2>5 DEF AloneInv
<1>2. CASE Crash
  <2>1. /\ \A q \in Procs : task'[q].pc \in {"idle", "done"}
        /\ \A q \in Procs : Kind(q) \notin {"launch", "stop"} => task'[q].pc = "idle"
    BY <1>2 DEF Crash, IdleTask
  <2> QED BY <2>1, <1>n DEF AloneInv, Finalizes, ApplyPcs
<1> QED BY <1>1, <1>2, AloneFrame

(* With an idle lane a run in the guard is over, or its timer has fired. *)
LEMMA GuardedIsOver ==
  ASSUME Alone, IInv, LifeInv, AnswerInv, AloneInv, NEW p \in Procs, Deliver(p),
         p[2] \in finalizing, reaps = 0
  PROVE  Settled(p[2])
<1> DEFINE r == p[2]
<1>1. /\ Kind(p) = "upstream" /\ p = <<"upstream", r>> /\ r \in Runs
      /\ task[p].pc = "idle" /\ task[<<"notify", r>>].pc = "idle" /\ phase = "up"
  BY DEF Deliver, Lanes, Alone, Kind, Procs
<1>2. PICK q \in Procs : Finalizes(q, r)
  BY DEF LifeInv, GuardIsHeld
<1>3. task[q].pc \in ApplyPcs /\ task[q].run = r /\ task[q].pc # "idle"
  BY <1>2 DEF Finalizes, ApplyPcs
<1>4. CASE Kind(q) = "upstream"
  <2>1. q = p
    BY <1>1, <1>3, <1>4, ProcOfRun DEF AnswerInv, LaneTask, LaneKinds
  <2> QED BY <2>1, <1>1, <1>3
<1>5. CASE Kind(q) = "notify"
  <2>1. q = <<"notify", r>>
    BY <1>3, <1>5, ProcOfRun DEF AloneInv
  <2> QED BY <2>1, <1>1, <1>3
<1>6. CASE Kind(q) \in {"repost", "timeout"}
  BY <1>3, <1>6 DEF AloneInv, Settled
<1>7. CASE Kind(q) = "recovery"
  <2>1. q = Recovery
    BY <1>7 DEF Procs, Kind, Recovery
  <2> QED BY <2>1, <1>1, <1>3 DEF AloneInv
<1>8. CASE Kind(q) \in {"stop", "launch"}
  BY <1>1, <1>2, <1>8 DEF AloneInv, Settled
<1> QED BY <1>4, <1>5, <1>6, <1>7, <1>8, ProcKinds

LEMMA DurableNext ==
  ASSUME Alone, IInv, IInv', LifeInv, ClaimInv, AnswerInv, AloneInv, DurableInv, [Next]_vars
  PROVE  DurableInv'
<1> SUFFICES ASSUME reaps' = 0 PROVE DurableInv'
  BY DEF DurableInv
<1>s. reaps = 0 /\ TimersStep
  BY TimersNext DEF TimersStep
<1>i. TypeInv /\ TypeInv' /\ CoreInv
  BY DEF IInv
<1>t. /\ \A r \in Runs : Len(log[r]) \in Nat /\ acked[r] \in Nat /\ lastSeq[r] \in Nat
      /\ task \in [Procs -> Task] /\ acked \in [Runs -> Nat] /\ lastSeq \in [Runs -> Nat]
      /\ \A q \in Procs : task[q].i \in Nat /\ task[q].prev \in Nat
      /\ completed \subseteq Runs
  BY <1>i, AnswerTypes DEF TypeInv, TypeOK
<1>r. \A r \in Runs : row[r] \in Terminal => row'[r] \in Terminal
  BY RowsForward DEF Forward
<1>u. \A r \in Runs : /\ <<"upstream", r>> \in Procs /\ Kind(<<"upstream", r>>) = "upstream"
                      /\ <<"upstream", r>>[2] = r
  BY DEF Procs, Kind
<1>d. ASSUME NEW r \in Runs
      PROVE  LET t == task[<<"upstream", r>>] IN
             /\ t.pc # "idle" => t.prev <= acked[r]
             /\ lastSeq[r] <= acked[r] \/ (t.pc # "idle" /\ lastSeq[r] = t.i)
             /\ \A n \in 1..acked[r] : log[r][n] \in Terminal => Settled(r)
  BY <1>s DEF DurableInv
<1>1. ASSUME NEW p \in Procs, AnswerStep(p)
      PROVE  DurableInv'
  <2> SUFFICES ASSUME NEW r \in Runs
               PROVE  LET t == task'[<<"upstream", r>>] IN
                      /\ t.pc # "idle" => t.prev <= acked'[r]
                      /\ lastSeq'[r] <= acked'[r] \/ (t.pc # "idle" /\ lastSeq'[r] = t.i)
                      /\ \A n \in 1..acked'[r] : log'[r][n] \in Terminal => Settled(r)'
    BY DEF DurableInv
  <2> DEFINE u == <<"upstream", r>>
  <2>1. log' = log /\ acked' = acked /\ lastSeq'[r] \in {lastSeq[r], 0}
    BY <1>1 DEF AnswerStep
  <2>2. \/ task'[u] = task[u]
        \/ /\ task[u].pc # "idle" /\ task'[u].pc # "idle"
           /\ task'[u].i = task[u].i /\ task'[u].prev = task[u].prev
    BY <1>1, <1>u DEF AnswerStep, OnlyTask, LaneStep, LaneKinds, ApplyPcs
  <2> HIDE DEF u
  <2>3. /\ task[u].pc # "idle" => task[u].prev <= acked[r]
        /\ lastSeq[r] <= acked[r] \/ (task[u].pc # "idle" /\ lastSeq[r] = task[u].i)
    BY <1>d DEF u
  <2>4. acked[r] \in Nat
    BY <1>t
  <2>5. /\ task'[u].pc # "idle" => task'[u].prev <= acked'[r]
        /\ lastSeq'[r] <= acked'[r] \/ (task'[u].pc # "idle" /\ lastSeq'[r] = task'[u].i)
    BY <2>1, <2>2, <2>3, <2>4
  <2>6. \A n \in 1..acked'[r] : log'[r][n] \in Terminal => Settled(r)'
    <3>1. r \in timers' => r \in timers \/ acked[r] = 0
      BY <1>s DEF TimersStep
    <3>2. SUFFICES ASSUME NEW n \in 1..acked[r], log[r][n] \in Terminal PROVE Settled(r)'
      BY <2>1
    <3>3. Settled(r)
      BY <3>2, <1>d
    <3>4. acked[r] # 0
      BY <3>2, <2>4
    <3> QED BY <3>1, <3>3, <3>4, <1>r DEF Settled
  <2> QED BY <2>5, <2>6 DEF u
<1>2. ASSUME NEW p \in Procs, Deliver(p)
      PROVE  DurableInv'
  <2> DEFINE r == p[2]
  <2>1. PICK i, m : Taken(p, i, m)
    BY <1>2, <1>i, DeliverTakes
  <2>2. /\ r \in Runs /\ task[p].pc = "idle" /\ phase = "up"
        /\ i \in Nat /\ i >= 1 /\ i \in {acked[r], acked[r] + 1}
        /\ IF Passes(r, i) THEN Accept(p, r, m, i) ELSE Skip(p, r, m, i)
        /\ m \in WorkerMsgs
    BY <2>1 DEF Taken
  <2>3. /\ \A s \in Runs \ {r} : log'[s] = log[s]
        /\ \A n \in 1..Len(log[r]) : log'[r][n] = log[r][n]
        /\ log'[r][i] = m
    BY <2>1, <1>i, TakenLog
  <2>4. p = <<"upstream", r>> /\ \A s \in Runs : Settled(s)' = Settled(s)
    BY <1>2 DEF Deliver, Lanes, Alone, Procs, Settled
  <2>5. /\ lastSeq[r] <= acked[r]
        /\ \A n \in 1..acked[r] : log[r][n] \in Terminal => Settled(r)
    BY <2>2, <2>4, <1>d
  <2>5a. acked[r] <= Len(log[r])
    BY <2>2 DEF AnswerInv, Gate
  <2>6. ASSUME NEW s \in Runs, s # r
        PROVE  /\ task'[<<"upstream", s>>] = task[<<"upstream", s>>]
               /\ acked'[s] = acked[s] /\ lastSeq'[s] = lastSeq[s] /\ log'[s] = log[s]
    <3>1. CASE Skip(p, r, m, i)
      BY <3>1, <2>2, <2>3, <2>6, <1>t DEF Skip, Ack
    <3>2. CASE Accept(p, r, m, i)
      <4>1. acked' = acked /\ lastSeq' = [lastSeq EXCEPT ![r] = i] /\ OnlyTask(p)
        BY <3>2, <1>t DEF Accept, StartApply, OnlyTask
      <4>2. <<"upstream", s>> # p
        BY <2>4, <2>6
      <4> QED BY <4>1, <4>2, <2>3, <2>6, <1>t, <1>u DEF OnlyTask
    <3> QED BY <2>2, <3>1, <3>2
  <2>7. CASE Skip(p, r, m, i)
    <3>1. task' = task /\ lastSeq' = lastSeq /\ acked'[r] \in {acked[r], i} /\ acked'[r] >= acked[r]
      BY <2>7, <2>2, <1>t DEF Skip, Ack
    <3>2. m \in Terminal => Settled(r)
      <4>0. SUFFICES ASSUME m \in Terminal PROVE Settled(r)
        OBVIOUS
      <4>1. CASE Passes(r, i)
        <5>1. m # "agui"
          BY <4>0 DEF Terminal
        <5>2. Accept(p, r, m, i)
          BY <4>1, <2>2
        <5>3. acked' = acked /\ lastSeq'[r] = i
          BY <5>2, <2>2, <1>t DEF Accept
        <5>4. i = lastSeq[r]
          BY <5>3, <3>1
        <5> QED BY <4>1, <5>4, <2>2, <1>t DEF Passes
      <4>2. CASE r \notin handles
        BY <4>2, <2>1, NoHandleIsOver DEF Settled
      <4>3. CASE ~Decide(r)
        <5>1. r \in finalizing => Settled(r)
          BY <1>2, <1>s, GuardedIsOver
        <5> QED BY <4>3, <5>1, <1>i DEF Decide, CoreInv, CompletedIsDurable, Settled
      <4>4. CASE i <= lastSeq[r]
        <5>1. i \in 1..acked[r] /\ i \in 1..Len(log[r])
          BY <4>4, <2>2, <2>5, <2>5a, <1>t
        <5>2. log[r][i] = m
          BY <5>1, <2>3
        <5> QED BY <4>0, <5>1, <5>2, <2>5
      <4>5. i <= lastSeq[r] \/ i > lastSeq[r]
        BY <2>2, <1>t
      <4> QED BY <4>1, <4>2, <4>3, <4>4, <4>5 DEF Passes
    <3>3. ASSUME NEW n \in 1..acked'[r], log'[r][n] \in Terminal
          PROVE  Settled(r)
      <4>1. n \in 1..acked[r] \/ n = i
        BY <3>1, <2>2, <1>t
      <4>2. CASE n = i
        BY <4>2, <3>2, <3>3, <2>3
      <4>3. CASE n \in 1..acked[r]
        <5>1. n \in 1..Len(log[r])
          BY <4>3, <2>2, <2>5a, <1>t
        <5> QED BY <4>3, <5>1, <3>3, <2>3, <2>5
      <4> QED BY <4>1, <4>2, <4>3
    <3>4. lastSeq[r] <= acked'[r]
      BY <3>1, <2>2, <2>5, <1>t
    <3>5. task'[<<"upstream", r>>].pc = "idle"
      BY <3>1, <2>2, <2>4
    <3> QED BY <3>1, <3>3, <3>4, <3>5, <2>4, <2>6, <1>d DEF DurableInv
  <2>8. CASE Accept(p, r, m, i)
    <3>1. /\ acked' = acked /\ lastSeq'[r] = i
          /\ task'[p].pc # "idle" /\ task'[p].i = i /\ task'[p].prev = lastSeq[r]
      BY <2>8, <2>2, <1>t DEF Accept, StartApply
    <3>2. ASSUME NEW n \in 1..acked[r], log'[r][n] \in Terminal
          PROVE  Settled(r)
      <4>1. n \in 1..Len(log[r])
        BY <2>2, <2>5a, <1>t
      <4> QED BY <4>1, <3>2, <2>3, <2>5
    <3> QED BY ZenonT(40), <3>1, <3>2, <2>4, <2>5, <2>6, <1>d DEF DurableInv
  <2> QED BY <2>2, <2>7, <2>8
<1>3. ASSUME NEW p \in Procs, UpstreamReturn(p) \/ UpstreamFailed(p)
      PROVE  DurableInv'
  <2> DEFINE r == p[2]
  <2>1. /\ r \in Runs /\ p = <<"upstream", r>> /\ Kind(p) \in LaneKinds
        /\ task[p].pc \in {"return", "failed"}
    BY <1>3 DEF UpstreamReturn, UpstreamFailed, Lanes, Alone, LaneKinds, Kind, Procs
  <2>2. /\ task[p].run = r /\ task[p].i \in 1..Len(log[r]) /\ task[p].i <= acked[r] + 1
        /\ task[p].pc = "return" /\ log[r][task[p].i] \in Terminal => Settled(r)
    BY <2>1 DEF AnswerInv, LaneTask, Terminal, Settled
  <2>3. /\ task'[p].pc = "idle" /\ OnlyTask(p) /\ log' = log
        /\ \A s \in Runs : Settled(s)' = Settled(s)
    BY <1>3, <1>t DEF UpstreamReturn, UpstreamFailed, IdleTask, OnlyTask, db, live, Settled
  <2>4. \/ /\ task[p].pc = "return" /\ Ack(r, task[p].i) /\ lastSeq' = lastSeq
        \/ /\ acked' = acked /\ Rollback(r, task[p].i, task[p].prev)
    BY <1>3, <2>2 DEF UpstreamReturn, UpstreamFailed, guard, Alone
  <2>5. \A s \in Runs \ {r} : /\ acked'[s] = acked[s] /\ lastSeq'[s] = lastSeq[s]
                              /\ task'[<<"upstream", s>>] = task[<<"upstream", s>>]
    BY <2>1, <2>3, <2>4, <1>t, <1>u DEF Ack, Rollback, OnlyTask
  <2>6. /\ task[p].prev <= acked[r]
        /\ lastSeq[r] <= acked[r] \/ lastSeq[r] = task[p].i
        /\ \A n \in 1..acked[r] : log[r][n] \in Terminal => Settled(r)
    BY <2>1, <1>d
  <2>7. /\ lastSeq'[r] <= acked'[r]
        /\ \A n \in 1..acked'[r] : log[r][n] \in Terminal => Settled(r)
    <3> DEFINE i == task[p].i
    <3>t. acked[r] \in Nat /\ lastSeq[r] \in Nat /\ i \in Nat /\ task[p].prev \in Nat
      BY <2>1, <1>t
    <3>1. CASE task[p].pc = "return" /\ Ack(r, i) /\ lastSeq' = lastSeq
      <4>1. acked'[r] = IF i > acked[r] THEN i ELSE acked[r]
        BY <3>1, <2>1, <1>t DEF Ack
      <4> HIDE DEF i, r
      <4>2. lastSeq'[r] <= acked'[r]
        BY <3>1, <4>1, <3>t, <2>6 DEF i
      <4>3. ASSUME NEW n \in 1..acked'[r], log[r][n] \in Terminal PROVE Settled(r)
        <5>1. n \in 1..acked[r] \/ n = i
          BY <4>1, <3>t, <2>2 DEF i
        <5> QED BY <5>1, <4>3, <3>1, <2>2, <2>6 DEF i
      <4> QED BY <4>2, <4>3
    <3>2. CASE acked' = acked /\ Rollback(r, i, task[p].prev)
      <4>1. lastSeq'[r] = IF lastSeq[r] = i THEN task[p].prev ELSE lastSeq[r]
        BY <3>2, <2>1, <1>t DEF Rollback
      <4> QED BY <4>1, <3>2, <3>t, <2>6
    <3> QED BY <2>4, <3>1, <3>2
  <2> QED BY <2>1, <2>3, <2>5, <2>7, <1>d DEF DurableInv
<1>4. CASE Crash
  <2>1. /\ \A r \in Runs : lastSeq'[r] = 0 /\ task'[<<"upstream", r>>].pc = "idle"
        /\ UNCHANGED <<log, acked>> /\ timers' = {}
    BY <1>4, <1>u DEF Crash, IdleTask, host
  <2>2. \A r \in Runs : acked[r] \in Nat
    BY <1>t
  <2>3. \A r \in Runs : Settled(r)'
    BY <2>1 DEF Settled
  <2>4. ASSUME NEW r \in Runs
        PROVE  /\ task'[<<"upstream", r>>].pc = "idle"
               /\ lastSeq'[r] <= acked'[r]
               /\ \A n \in 1..acked'[r] : log'[r][n] \in Terminal => Settled(r)'
    BY <2>1, <2>2, <2>3
  <2> QED BY <2>4 DEF DurableInv
<1> QED BY <1>1, <1>2, <1>3, <1>4, <1>i, AnswerFrame

(* A terminal status is answered, and dropped by its Host, only when the row of
   the run is terminal, or a routine is still applying a terminal status to it, or
   its timer has fired and its handle is left in memory: however many database calls
   fail, however often the server dies, whatever is posted again, for a registered
   Host, until one is reaped, when nobody stops a run that is not registered yet. *)
THEOREM AnsweredIsKept == ASSUME Alone PROVE Spec => []LostOnlyToTimer
<1>1. Init => AloneInv /\ DurableInv
  <2> SUFFICES ASSUME Init PROVE AloneInv /\ DurableInv
    OBVIOUS
  <2>1. /\ \A p \in Procs : task[p] = IdleTask
        /\ \A r \in Runs : lastSeq[r] = 0 /\ acked[r] = 0
    BY DEF Init
  <2>2. Recovery \in Procs /\ \A r \in Runs : <<"upstream", r>> \in Procs
    BY DEF Recovery, Procs
  <2> QED BY <2>1, <2>2 DEF AloneInv, DurableInv, IdleTask, Finalizes, ApplyPcs
<1>2. IInv /\ IInv' /\ LifeInv /\ ClaimInv /\ AnswerInv /\ AloneInv /\ DurableInv /\ [Next]_vars
        => AloneInv' /\ DurableInv'
  BY AloneNext, DurableNext
<1>3. IInv /\ LifeInv /\ AnswerInv /\ DurableInv => LostOnlyToTimer
  <2> SUFFICES ASSUME IInv, LifeInv, AnswerInv, DurableInv, reaps = 0, phase = "up",
                      NEW r \in Runs, NEW n \in 1..acked[r], log[r][n] \in Terminal,
                      row[r] \notin Terminal
               PROVE  r \in handles \ timers
    BY DEF LostOnlyToTimer
  <2>1. r \notin timers
    BY DEF DurableInv, Settled
  <2>2. log[r] # << >>
    <3>1. acked[r] <= Len(log[r]) /\ acked[r] \in Nat
      BY AnswerTypes DEF IInv, AnswerInv, Gate
    <3>2. Len(<< >>) = 0
      OBVIOUS
    <3> QED BY <3>1, <3>2
  <2>3. row[r] # "absent" /\ task[<<"launch", r>>].pc = "done"
    BY <2>2 DEF AnswerInv, Submitted
  <2>4. row[r] \in Active
    BY <2>3 DEF IInv, TypeInv, TypeOK
  <2> QED BY <2>1, <2>3, <2>4 DEF LifeInv, HandleIsLive
<1>4. Spec => []ClaimInv
  BY ClaimCorrect DEF Alone
<1> QED BY <1>1, <1>2, <1>3, <1>4, IInvCorrect, LifeCorrect, AnswerCorrect, PTL DEF Spec

-----------------------------------------------------------------------------
(* The message that is stored last.  What follows is about runs stopped after their
   registration: before it, two runs may be active at once. *)

(* The finalizer of a run has captured its handle if there was one; it found an
   active row then, and closes the message before it lets the handle go. *)
Finishing(p, r) ==
  /\ r \in handles <=> task[p].live
  /\ task[p].live /\ task[p].pc = "persist" => row[r] \in Active
  /\ task[p].live /\ task[p].pc # "persist" => row[r] = task[p].st
  /\ task[p].live /\ task[p].pc = "finish" => Closed(r, task[p].st)

(* Only a run that has asked is saved as partial, and only a response that another
   launch cuts off is ended by one. *)
FinalTask(p) ==
  /\ task[p].pc = "partial" => Asked(task[p].run)
  /\ task[p].pc = "endresponse" => Followed(task[p].run)
  /\ Kind(p) = "launch" /\ task[p].pc \in StopPcs \ {"find"} => task[p].run # p[2]
  /\ task[p].pc = "save" => task[p].live /\ task[p].st \in Terminal
  /\ \A r \in Runs : Finalizes(p, r) => Finishing(p, r)

(* A run with a handle that nobody finalizes is active; one without a handle that
   has ended has its last message, or what may be stored over it. *)
FinalRun(r) ==
  /\ msg[r] # "none" => r \in parts
  /\ r \in handles => r \in finalizing \/ row[r] \in Active
  /\ r \notin handles /\ row[r] \in Terminal => Closed(r, row[r])
  /\ r \in completed => r \notin handles

FinalInv ==
  Calm => /\ phase = "up"
          /\ \A p \in Procs : FinalTask(p)
          /\ \A r \in Runs : FinalRun(r)

(* What a status does to a row. *)
LEMMA MarkFacts ==
  ASSUME NEW m \in Applied \cup {"cancelling"}, NEW old
  PROVE  /\ old \in Active /\ m \in Terminal => Mark(old, m) = m
         /\ old \in Active /\ m \notin Terminal => Mark(old, m) \in Active
         /\ old \notin Active => Mark(old, m) = old
BY DEF Mark, StatusOf, Active, RunningMutable, Terminal, Applied, WorkerMsgs

(* A question stays asked, and a launch that has begun stays begun, until a crash. *)
Grows == \A r \in Runs : (Asked(r) => Asked(r)') /\ (Followed(r) => Followed(r)')

LEMMA LaunchGoesOn ==
  ASSUME TypeInv, [Next]_vars, ~Crash, NEW q \in Procs, Kind(q) = "launch",
         task[q].pc # "idle"
  PROVE  task'[q].pc # "idle"
<1>t. task \in [Procs -> Task]
  BY DEF TypeInv, TypeOK
<1>1. ASSUME NEW p \in Procs, Apply(p) \/ ApplyFail(p) \/ AguiEnd(p) \/ StopFail(p)
      PROVE  task'[q].pc # "idle"
  <2>1. \E c \in ApplyPcs \cup {"return", "failed"} : Goto(p, c)
    BY <1>1 DEF Apply, ApplyPersist, ApplyPartial, ApplyPending, ApplyProject, ApplySave,
       ApplyFinish, ApplyFail, AguiEnd, StopFail, AfterPersist, ApplyPcs
  <2> QED BY <2>1, GotoFacts DEF OnlyTask, ApplyPcs
<1>2. ASSUME NEW p \in Procs, p # q, OnlyTask(p)
      PROVE  task'[q].pc # "idle"
  BY <1>2 DEF OnlyTask
<1>3. ASSUME NEW p \in Procs, UpstreamReturn(p) \/ UpstreamFailed(p) \/ Deliver(p)
      PROVE  task'[q].pc # "idle"
  <2>1. p # q
    BY <1>3, LaneOfRun DEF UpstreamReturn, UpstreamFailed, Deliver, LaneKinds
  <2>2. OnlyTask(p)
    BY <1>3, <1>t DEF UpstreamReturn, UpstreamFailed, Deliver, OnlyTask, Skip, Accept, StartApply
  <2> QED BY <1>2, <2>1, <2>2
<1>4. ASSUME NEW p \in Procs,
             Notify(p) \/ NotifyEnd(p) \/ TimeoutFire(p) \/ TimeoutForce(p) \/ TimeoutEnd(p)
      PROVE  task'[q].pc # "idle"
  <2>1. p # q
    BY <1>4 DEF Notify, NotifyEnd, TimeoutFire, TimeoutForce, TimeoutEnd
  <2>2. OnlyTask(p)
    BY <1>4, <1>t DEF Notify, NotifyEnd, TimeoutFire, TimeoutForce, TimeoutEnd, OnlyTask, Goto,
       StartApply
  <2> QED BY <1>2, <2>1, <2>2
<1>5. ASSUME NEW p \in Procs, RecoveryStart(p) \/ Recover(p)
      PROVE  task'[q].pc # "idle"
  <2>1. p # q
    BY <1>5 DEF Recover, RecoveryStart, RecoveryNext, RecoveryReturn, RecoveryEnd, Recovery, Kind
  <2>2. OnlyTask(p)
    BY <1>5, <1>t DEF Recover, RecoveryStart, RecoveryNext, RecoveryReturn, RecoveryEnd, OnlyTask,
       Goto, StartApply
  <2> QED BY <1>2, <2>1, <2>2
<1>6. ASSUME NEW p \in Procs, Stop(p) \/ StopFind(p)
      PROVE  task'[q].pc # "idle"
  <2>1. OnlyTask(p) /\ task'[p].pc # "idle"
    <3>1. CASE \E c \in {"cancelling", "reconcile", "return", "command", "endresponse"} : Goto(p, c)
      BY <3>1, GotoFacts
    <3>2. CASE \E r, i, prev : StartApply(p, r, "cancelled", i, prev)
      BY <3>2, <1>t DEF StartApply, OnlyTask
    <3>3. CASE StopFind(p) \/ StopEnd(p)
      BY ZenonT(40), <3>3, <1>t DEF StopFind, StopEnd, OnlyTask, IdleTask
    <3> QED BY <1>6, <3>1, <3>2, <3>3 DEF Stop, StopFound, StopCancelling, StopCommand,
         StopEndResponse, StopReconcile
  <2> QED BY <1>2, <2>1
<1>7. ASSUME NEW p \in Procs, Launch(p) \/ LaunchClaim(p)
      PROVE  task'[q].pc # "idle"
  <2>1. OnlyTask(p) /\ task'[p].pc # "idle"
    <3>1. CASE \E c \in LaunchPcs \cup {"find"} : Goto(p, c)
      BY <3>1, GotoFacts DEF LaunchPcs
    <3>2. CASE \E r, i, prev : StartApply(p, r, "error", i, prev)
      BY <3>2, <1>t DEF StartApply, OnlyTask
    <3>3. CASE LaunchDone(p)
      BY <3>3, <1>t DEF LaunchDone, OnlyTask
    <3> QED BY <1>7, <3>1, <3>2, <3>3 DEF Launch, LaunchClaim, LaunchStopped, LaunchHandoff,
         LaunchReclaim, LaunchPcs, LaunchCreate, LaunchFailClaim, LaunchRegister, LaunchSubmit,
         LaunchEnd
  <2> QED BY <1>2, <2>1
<1>8. ASSUME (\E r \in Runs : Expire(r)) \/ UNCHANGED vars
      PROVE  task'[q].pc # "idle"
  BY <1>8 DEF Expire, vars
<1> QED BY <1>1, <1>3, <1>4, <1>5, <1>6, <1>7, <1>8 DEF Next, Continue, Begin

LEMMA GrowsAlways ==
  ASSUME IInv, IInv', LifeInv, AnswerInv, [Next]_vars, ~Crash
  PROVE  Grows
<1>i. TypeInv /\ TypeInv' /\ CoreInv
  BY DEF IInv
<1>t. \A r \in Runs : /\ DOMAIN log[r] = 1..Len(log[r])
                      /\ DOMAIN log'[r] = 1..Len(log'[r])
                      /\ Len(log[r]) \in Nat
  <2>1. \A r \in Runs : log[r] \in Seq(WorkerMsgs) /\ log'[r] \in Seq(WorkerMsgs)
    BY <1>i DEF TypeInv, TypeOK
  <2> QED BY <2>1
<1>1. ASSUME NEW r \in Runs, NEW n \in 1..Len(log[r])
      PROVE  n \in 1..Len(log'[r]) /\ log'[r][n] = log[r][n]
  <2>1. CASE log' = log
    BY <2>1, <1>1
  <2>2. ASSUME NEW p \in Procs, Deliver(p)
        PROVE  n \in 1..Len(log'[r]) /\ log'[r][n] = log[r][n]
    <3>1. PICK i, m : Taken(p, i, m)
      BY <2>2, <1>i, DeliverTakes
    <3>2. CASE r # p[2]
      BY <3>1, <3>2, <1>i, <1>1, TakenLog
    <3>3. CASE r = p[2]
      <4>1. /\ Len(log'[r]) >= Len(log[r]) /\ Len(log'[r]) \in Nat
            /\ \A k \in 1..Len(log[r]) : log'[r][k] = log[r][k]
        BY <3>1, <3>3, <1>i, TakenLog
      <4> QED BY <4>1, <1>1, <1>t
    <3> QED BY <3>2, <3>3
  <2>3. ASSUME NEW p \in Procs, UpstreamReturn(p) \/ UpstreamFailed(p) \/ AnswerStep(p)
        PROVE  log' = log
    BY <2>3 DEF UpstreamReturn, UpstreamFailed, AnswerStep
  <2> QED BY <2>1, <2>2, <2>3, <1>i, AnswerFrame
<1>2. ASSUME NEW r \in Runs, Asked(r) PROVE Asked(r)'
  <2>1. PICK n \in 1..Len(log[r]) : log[r][n] = "ask"
    BY <1>2, <1>t DEF Asked
  <2>2. n \in DOMAIN log'[r] /\ log'[r][n] = "ask"
    BY <2>1, <1>1, <1>t
  <2> QED BY <2>2 DEF Asked
<1>3. ASSUME NEW r \in Runs, Followed(r) PROVE Followed(r)'
  <2>1. PICK s \in Runs \ {r} : task[<<"launch", s>>].pc # "idle"
    BY <1>3 DEF Followed
  <2>2. <<"launch", s>> \in Procs /\ Kind(<<"launch", s>>) = "launch"
    BY DEF Procs, Kind
  <2> QED BY <2>1, <2>2, <1>i, LaunchGoesOn DEF Followed
<1> QED BY <1>2, <1>3 DEF Grows

(* A step of p, while nothing has failed, keeps what others finalize. *)
LEMMA FinalKeeps ==
  ASSUME IInv, IInv', FinalInv, Calm, [Next]_vars, Grows, NEW p \in Procs, OnlyTask(p),
         phase' = "up", FinalTask(p)', \A r \in Runs : FinalRun(r)',
         \A r \in finalizing : ~Finalizes(p, r) =>
           /\ r \in handles' <=> r \in handles
           /\ msg'[r] = msg[r] \/ \A s \in Terminal : Closed(r, s)'
           /\ row[r] \in Active => row'[r] \in Active
  PROVE  FinalInv'
<1>t. \A q \in Procs : task[q].pc \in RunPcs => task[q].run \in Runs
  BY DEF IInv, TypeInv, TaskHasRun
<1>1. ASSUME NEW q \in Procs, q # p PROVE FinalTask(q)'
  <2>1. FinalTask(q) /\ task'[q] = task[q]
    BY <1>1 DEF FinalInv, OnlyTask
  <2>2. ASSUME NEW r \in Runs, Finalizes(q, r)' PROVE Finishing(q, r)'
    <3>1. Finalizes(q, r) /\ Finishing(q, r)
      BY <2>1, <2>2 DEF Finalizes, FinalTask
    <3>2. r \in finalizing /\ ~Finalizes(p, r)
      BY <1>1, <3>1 DEF IInv, CoreInv, TaskInv, GuardInv, SingleFinalizer
    <3>3. row[r] \in Terminal => row'[r] = row[r]
      BY RowsForward DEF Forward
    <3>4. task[q].st \in Terminal
      BY <3>1 DEF Finalizes
    <3>5. Closed(r, task[q].st) => Closed(r, task[q].st)'
      BY <2>2, <3>2, <3>4, <2>1 DEF Grows, Closed
    <3> QED BY <2>1, <3>1, <3>2, <3>3, <3>4, <3>5 DEF Finishing
  <2>3. /\ task[q].pc = "partial" => Asked(task[q].run)'
        /\ task[q].pc = "endresponse" => Followed(task[q].run)'
    BY <2>1, <1>t DEF FinalTask, Grows, RunPcs, ApplyPcs
  <2> QED BY <2>1, <2>2, <2>3 DEF FinalTask
<1> QED BY <1>1 DEF FinalInv

LEMMA FinalQuiet ==
  ASSUME IInv, IInv', FinalInv, Calm, [Next]_vars, Grows, NEW p \in Procs, OnlyTask(p),
         phase' = "up", FinalTask(p)',
         UNCHANGED <<row, msg, handles, parts, finalizing, completed>>
  PROVE  FinalInv'
<1>1. \A r \in Runs : FinalRun(r)'
  BY DEF FinalInv, FinalRun, Closed, Grows
<1> QED BY <1>1, FinalKeeps

LEMMA FinalStartApply ==
  ASSUME IInv, IInv', FinalInv, Calm, [Next]_vars, Grows, NEW p \in Procs,
         NEW r \in Runs, NEW m \in Applied, NEW i \in Nat, NEW prev \in Nat,
         StartApply(p, r, m, i, prev), r \notin finalizing, phase' = "up",
         UNCHANGED <<row, msg, handles, parts, completed>>
  PROVE  FinalInv'
<1>t. task \in [Procs -> Task] /\ finalizing \subseteq Runs
  BY DEF IInv, TypeInv, TypeOK
<1>1. /\ OnlyTask(p)
      /\ task'[p].pc = "persist" /\ task'[p].run = r /\ task'[p].st = m
      /\ task'[p].live = (r \in handles)
      /\ finalizing \subseteq finalizing'
  BY <1>t DEF StartApply, OnlyTask
<1>2. FinalRun(r)
  BY DEF FinalInv
<1>3. Finishing(p, r)'
  BY <1>1, <1>2 DEF Finishing, FinalRun
<1>4. FinalTask(p)'
  BY <1>1, <1>3 DEF FinalTask, Finalizes, StopPcs
<1>5. \A s \in Runs : FinalRun(s)'
  BY <1>1 DEF FinalInv, FinalRun, Closed, Grows
<1> QED BY <1>1, <1>4, <1>5, FinalKeeps

LEMMA CalmBefore ==
  ASSUME IInv, IInv', LifeInv, AnswerInv, [Next]_vars, Calm'
  PROVE  Calm /\ ~Crash
<1>t. faults \in Nat /\ crashes \in Nat /\ faults' \in Nat
  BY DEF IInv, TypeInv, TypeOK
<1>1. ~Crash
  BY <1>t DEF Crash, Calm
<1>2. ASSUME NEW p \in Procs, AnswerStep(p) PROVE Calm
  BY <1>2, <1>t DEF AnswerStep, Calm
<1>3. ASSUME NEW p \in Procs, Deliver(p) \/ UpstreamReturn(p) \/ UpstreamFailed(p) PROVE Calm
  BY <1>3 DEF Deliver, UpstreamReturn, UpstreamFailed, Calm, bounds
<1> QED BY <1>1, <1>2, <1>3, AnswerFrame DEF IInv

LEMMA FinalNext ==
  ASSUME IInv, IInv', LifeInv, ClaimInv, AnswerInv, FinalInv, [Next]_vars
  PROVE  FinalInv'
<1> SUFFICES ASSUME Calm' PROVE FinalInv'
  BY DEF FinalInv
<1>d. Calm /\ ~Crash
  BY CalmBefore
<1> USE DEF vars, db, live, guard, host, bounds
<1>i. TypeInv /\ TypeInv' /\ CoreInv
  BY DEF IInv
<1>t. /\ task \in [Procs -> Task] /\ row \in [Runs -> {"absent"} \cup Active \cup Terminal]
      /\ \A q \in Procs : task[q].run \in Runs \cup {None} /\ task[q].st \in Applied
      /\ \A q \in Procs : task[q].pc \in RunPcs => task[q].run \in Runs
      /\ None \notin Runs /\ completed \subseteq Runs /\ handles \subseteq Runs
      /\ todo \subseteq Runs /\ finalizing \subseteq Runs /\ faults \in Nat
      /\ msg \in [Runs -> MsgLevels] /\ parts \subseteq Runs
  BY <1>i, ConstantsAssumption DEF TypeInv, TypeOK, TaskHasRun, Task
<1>c. /\ \A q \in Procs : TaskInv(q)
      /\ KnownRuns /\ SingleFinalizer /\ CompletedIsDurable
  BY <1>i DEF CoreInv
<1>l. \A q \in Procs : LifeTask(q) /\ LaneTask(q)
  BY DEF LifeInv, AnswerInv
<1>k. /\ phase = "up"
      /\ \A q \in Procs : FinalTask(q)
      /\ \A r \in Runs : FinalRun(r)
  BY <1>d DEF FinalInv
<1>f. \A r \in Runs : row[r] \in Terminal => row'[r] = row[r]
  BY RowsForward DEF Forward
<1>g. Grows
  BY <1>d, GrowsAlways
<1>1. ASSUME NEW p \in Procs,
             UpstreamReturn(p) \/ UpstreamFailed(p) \/ NotifyEnd(p) \/ TimeoutEnd(p)
             \/ StopEnd(p) \/ LaunchEnd(p)
      PROVE  FinalInv'
  <2>1. /\ OnlyTask(p) /\ task'[p].pc \in {"idle", "done"}
        /\ UNCHANGED <<row, msg, handles, parts, finalizing, completed, phase>>
    BY <1>1, <1>t DEF UpstreamReturn, UpstreamFailed, NotifyEnd, TimeoutEnd, StopEnd,
       LaunchEnd, LaunchDone, OnlyTask, IdleTask
  <2>2. FinalTask(p)'
    BY <2>1 DEF FinalTask, Finalizes, ApplyPcs, StopPcs
  <2> QED BY <2>1, <2>2, <1>d, <1>k, <1>g, FinalQuiet
<1>2. ASSUME NEW p \in Procs,
             \/ StopReconcile(p) \/ AguiEnd(p) \/ LaunchHandoff(p)
             \/ LaunchReclaim(p) \/ LaunchStopped(p) \/ LaunchClaim(p)
             \/ LaunchFailClaim(p)
      PROVE  FinalInv'
  <2>1. \/ LaunchDone(p)
        \/ \E c \in {"return", "failed", "create", "reclaim", "handoff", "find"} : Goto(p, c)
    <3>2. CASE StopReconcile(p) \/ AguiEnd(p)
      BY <3>2 DEF StopReconcile, AguiEnd
    <3>3. CASE LaunchHandoff(p) \/ LaunchReclaim(p) \/ LaunchStopped(p) \/ LaunchFailClaim(p)
      BY <3>3 DEF LaunchHandoff, LaunchReclaim, LaunchStopped, LaunchFailClaim
    <3>4. CASE LaunchClaim(p)
      BY <3>4 DEF LaunchClaim
    <3> QED BY <1>2, <3>2, <3>3, <3>4
  <2>2. UNCHANGED <<row, msg, handles, parts, finalizing, completed, phase>>
    BY <1>2 DEF StopReconcile, AguiEnd, LaunchHandoff,
       LaunchReclaim, LaunchStopped, LaunchClaim, LaunchFailClaim
  <2>3. OnlyTask(p) /\ task'[p].pc \in {"return", "failed", "create", "reclaim", "handoff", "find",
                                        "idle", "done", "next"}
    BY <2>1, <1>i, GotoFacts, IdleFacts DEF LaunchDone
  <2>4. FinalTask(p)'
    BY <2>3 DEF FinalTask, Finalizes, ApplyPcs, StopPcs
  <2> QED BY <2>2, <2>3, <2>4, <1>d, <1>k, <1>g, FinalQuiet
<1>3. ASSUME NEW p \in Procs, ApplyFail(p) \/ StopFail(p)
      PROVE  FinalInv'
  BY <1>3, <1>t, <1>d DEF ApplyFail, StopFail, Calm
<1>21. ASSUME NEW p \in Procs, StopCommand(p)
       PROVE  FinalInv'
  <2>1. /\ UNCHANGED <<row, msg, handles, parts, finalizing, completed, phase>>
        /\ task[p].pc = "command" /\ task[p].run \in Runs
        /\ Goto(p, IF Kind(p) = "launch" THEN "endresponse" ELSE "return")
    BY <1>21, <1>t DEF StopCommand, RunPcs
  <2>2. /\ OnlyTask(p) /\ task'[p].run = task[p].run
        /\ task'[p].pc = IF Kind(p) = "launch" THEN "endresponse" ELSE "return"
    BY <2>1, <1>i, GotoFacts
  <2>3. Kind(p) = "launch" => task[p].run # p[2]
    BY <2>1, <1>k DEF FinalTask, StopPcs
  <2>4. Kind(p) = "launch" => Followed(task[p].run)'
    BY <2>2, <2>3, ProcOfRun DEF Followed
  <2>5. FinalTask(p)'
    BY <2>2, <2>3, <2>4 DEF FinalTask, Finalizes, ApplyPcs, StopPcs
  <2> QED BY <2>1, <2>2, <2>5, <1>d, <1>k, <1>g, FinalQuiet
<1>22. ASSUME NEW p \in Procs, ApplyPending(p)
       PROVE  FinalInv'
  <2>1. /\ UNCHANGED <<row, msg, handles, parts, finalizing, completed, phase>>
        /\ Goto(p, "return")
    BY <1>22 DEF ApplyPending
  <2>2. OnlyTask(p) /\ task'[p].pc = "return"
    BY <2>1, <1>i, GotoFacts
  <2>3. FinalTask(p)'
    BY <2>2 DEF FinalTask, Finalizes, ApplyPcs, StopPcs
  <2> QED BY <2>1, <2>2, <2>3, <1>d, <1>k, <1>g, FinalQuiet
<1>23. ASSUME NEW p \in Procs, ApplyPartial(p) \/ StopEndResponse(p)
       PROVE  FinalInv'
  <2>0. PICK r \in Runs : r = task[p].run
    BY <1>23, <1>t DEF ApplyPartial, StopEndResponse, RunPcs, ApplyPcs
  <2>1. /\ UNCHANGED <<row, handles, parts, finalizing, completed, phase>>
        /\ \E l \in MsgLevels : SaveMsg(r, l)
    BY <1>23, <2>0 DEF ApplyPartial, StopEndResponse, MsgLevels
  <2>2. \E c \in {"pending", "return"} : Goto(p, c)
    BY <1>23 DEF ApplyPartial, StopEndResponse
  <2>3. OnlyTask(p) /\ task'[p].pc \in {"pending", "return"}
        /\ task'[p].run = r /\ task'[p].st = task[p].st
    BY <2>0, <2>2, <1>i, GotoFacts
  <2>4. /\ \A s \in Runs \ {r} : msg'[s] = msg[s]
        /\ r \notin parts => msg'[r] = msg[r]
    BY <2>1, <1>t DEF SaveMsg
  <2>5. msg'[r] = msg[r] \/ \A s \in Terminal : Closed(r, s)'
    <3>1. CASE ApplyPartial(p)
      <4>1. SaveMsg(r, "partial") /\ Asked(r)
        BY <2>0, <3>1, <1>k DEF ApplyPartial, FinalTask
      <4>2. Asked(r)' /\ msg'[r] \in {"partial", msg[r]}
        BY <4>1, <2>1, <1>g, <1>t DEF Grows, SaveMsg
      <4> QED BY <4>2 DEF Closed
    <3>2. CASE StopEndResponse(p)
      <4>1. SaveMsg(r, "incomplete") /\ Followed(r)
        BY <2>0, <3>2, <1>k DEF StopEndResponse, FinalTask
      <4>2. Followed(r)' /\ msg'[r] \in {"incomplete", msg[r]}
        BY <4>1, <2>1, <1>g, <1>t DEF Grows, SaveMsg
      <4> QED BY <4>2 DEF Closed
    <3> QED BY <1>23, <3>1, <3>2
  <2>6. FinalTask(p)'
    <3>1. task[p].st \notin Terminal \/ task'[p].pc = "return"
      <4>1. CASE ApplyPartial(p)
        BY <4>1, <1>l DEF ApplyPartial, LifeTask
      <4>2. CASE StopEndResponse(p)
        BY <4>2, <1>i, GotoFacts DEF StopEndResponse
      <4> QED BY <1>23, <4>1, <4>2
    <3> QED BY <2>3, <3>1 DEF FinalTask, Finalizes, ApplyPcs, StopPcs
  <2>7. ASSUME NEW s \in Runs PROVE FinalRun(s)'
    <3>1. FinalRun(s)
      BY <1>k
    <3>2. CASE msg'[s] = msg[s]
      BY <3>1, <3>2, <2>1, <1>g DEF FinalRun, Closed, Grows
    <3>3. CASE s = r /\ r \in parts /\ \A l \in Terminal : Closed(r, l)'
      BY <3>1, <3>3, <2>1 DEF FinalRun
    <3> QED BY <3>2, <3>3, <2>4, <2>5
  <2>8. phase' = "up"
    BY <2>1, <1>k
  <2>9. \A s \in Runs : msg'[s] = msg[s] \/ \A l \in Terminal : Closed(s, l)'
    BY <2>4, <2>5
  <2>10. \A s \in finalizing : ~Finalizes(p, s) =>
           /\ s \in handles' <=> s \in handles
           /\ msg'[s] = msg[s] \/ \A l \in Terminal : Closed(s, l)'
           /\ row[s] \in Active => row'[s] \in Active
    BY <2>1, <2>9, <1>t
  <2> QED BY <2>3, <2>6, <2>7, <2>8, <2>10, <1>d, <1>g, FinalKeeps
<1>4. ASSUME NEW p \in Procs, StopFind(p)
      PROVE  FinalInv'
  <2>1. PICK r \in FindActive :
          task' = [task EXCEPT ![p] = [IdleTask EXCEPT !.pc = "found", !.run = r]]
    BY <1>4 DEF StopFind
  <2>2. UNCHANGED <<row, msg, handles, parts, finalizing, completed, phase>>
    BY <1>4 DEF StopFind
  <2>3. OnlyTask(p) /\ task'[p].pc = "found" /\ task'[p].run = r
    BY <2>1, <1>t DEF OnlyTask, IdleTask
  <2>3a. Kind(p) = "launch" => r # p[2]
    <3>1. r = None \/ (r \in Runs /\ row[r] \in Active)
      BY <1>i, FindActiveRow DEF TypeInv, TypeOK
    <3>2. Kind(p) = "launch" => row[p[2]] = "absent" /\ p[2] \in Runs
      BY <1>4, <1>c, ProcOfRun DEF StopFind, TaskInv, LaunchInv, BeforeCreate
    <3> QED BY <3>1, <3>2, <1>t DEF Active, RunningMutable
  <2>4. FinalTask(p)'
    BY <2>3, <2>3a DEF FinalTask, Finalizes, ApplyPcs
  <2> QED BY <2>2, <2>3, <2>4, <1>d, <1>k, <1>g, FinalQuiet
<1>5. ASSUME NEW p \in Procs, TimeoutFire(p)
      PROVE  FinalInv'
  <2>1. UNCHANGED <<row, msg, handles, parts, finalizing, completed, phase>> /\ Kind(p) = "timeout"
    BY <1>5 DEF TimeoutFire
  <2>2. \/ UNCHANGED task
        \/ task' = [task EXCEPT ![p] = [IdleTask EXCEPT !.pc = "force", !.run = p[2]]]
    BY <1>5 DEF TimeoutFire
  <2>3. OnlyTask(p) /\ task'[p].pc \in {"idle", "force"}
    <3>1. task[p].pc = "idle"
      BY <1>5 DEF TimeoutFire
    <3> QED BY ZenonT(40), <2>2, <3>1, <1>t DEF OnlyTask, IdleTask
  <2>4. FinalTask(p)'
    BY <2>1, <2>3 DEF FinalTask, Finalizes, ApplyPcs
  <2> QED BY <2>1, <2>3, <2>4, <1>d, <1>k, <1>g, FinalQuiet
<1>6. ASSUME NEW p \in Procs,
             RecoveryStart(p) \/ RecoveryReturn(p) \/ RecoveryEnd(p)
      PROVE  FinalInv'
  <2>1. UNCHANGED <<row, msg, handles, parts, finalizing, completed>> /\ phase' = "up"
    BY <1>6, <1>k DEF RecoveryStart, RecoveryReturn, RecoveryEnd
  <2>2. OnlyTask(p) /\ task'[p].pc \in {"idle", "next", "done"}
    <3>1. CASE RecoveryStart(p)
      BY <3>1, <1>i, GotoFacts DEF RecoveryStart
    <3>2. CASE RecoveryReturn(p) \/ RecoveryEnd(p)
      BY <3>2, <1>i, IdleFacts DEF RecoveryReturn, RecoveryEnd
    <3> QED BY <1>6, <3>1, <3>2
  <2>3. FinalTask(p)'
    BY <2>2 DEF FinalTask, Finalizes, ApplyPcs, StopPcs
  <2> QED BY <2>1, <2>2, <2>3, <1>d, <1>g, FinalQuiet
<1>7. ASSUME NEW p \in Procs, TimeoutForce(p)
      PROVE  FinalInv'
  <2>1. UNCHANGED <<row, msg, handles, parts, completed, phase>>
    BY <1>7 DEF TimeoutForce
  <2>2. CASE Decide(task[p].run)
    <3>1. StartApply(p, task[p].run, "error", 0, 0) /\ task[p].run \notin finalizing
      BY <1>7, <2>2 DEF TimeoutForce, Decide
    <3>2. task[p].run \in Runs /\ "error" \in Applied
      BY <1>7, <1>t DEF TimeoutForce, RunPcs, Applied, WorkerMsgs, Terminal
    <3> QED BY <2>1, <3>1, <3>2, <1>d, <1>k, <1>g, FinalStartApply
  <2>3. CASE ~Decide(task[p].run)
    <3>1. Goto(p, "return") /\ UNCHANGED finalizing
      BY <1>7, <2>3 DEF TimeoutForce
    <3>2. OnlyTask(p) /\ task'[p].pc = "return"
      BY <3>1, <1>i, GotoFacts
    <3>3. FinalTask(p)'
      BY <3>2 DEF FinalTask, Finalizes, ApplyPcs, StopPcs
    <3> QED BY <2>1, <3>1, <3>2, <3>3, <1>d, <1>k, <1>g, FinalQuiet
  <2> QED BY <2>2, <2>3
<1>8. ASSUME NEW p \in Procs, Notify(p)
      PROVE  FinalInv'
  <2>1. UNCHANGED <<row, msg, handles, parts, completed, phase>> /\ p[2] \in Runs
        /\ p[2] \notin finalizing
    BY <1>8, ProcOfRun DEF Notify, Decide
  <2>2. \E s \in Applied : StartApply(p, p[2], s, 0, 0)
    BY <1>8 DEF Notify, Applied, WorkerMsgs, Terminal
  <2> QED BY <2>1, <2>2, <1>d, <1>k, <1>g, FinalStartApply
<1>9. ASSUME NEW p \in Procs, StopFound(p)
      PROVE  FinalInv'
  <2>1. /\ UNCHANGED <<row, msg, handles, parts, completed, phase>>
        /\ Kind(p) = "launch" => task[p].run # p[2]
    BY <1>9, <1>k DEF StopFound, FinalTask, StopPcs
  <2>2. \/ (\E c \in {"cancelling", "reconcile", "return"} : Goto(p, c)) /\ UNCHANGED finalizing
        \/ /\ task[p].run \in Runs /\ task[p].run \notin finalizing
           /\ StartApply(p, task[p].run, "cancelled", 0, 0)
    BY <1>9 DEF StopFound, Decide
  <2>3. CASE (\E c \in {"cancelling", "reconcile", "return"} : Goto(p, c)) /\ UNCHANGED finalizing
    <3>1. OnlyTask(p) /\ task'[p].pc \in {"cancelling", "reconcile", "return"}
          /\ task'[p].run = task[p].run
      BY <2>3, <1>i, GotoFacts
    <3>2. FinalTask(p)'
      BY <2>1, <3>1 DEF FinalTask, Finalizes, ApplyPcs
    <3> QED BY <2>1, <2>3, <3>1, <3>2, <1>d, <1>k, <1>g, FinalQuiet
  <2>4. CASE /\ task[p].run \in Runs /\ task[p].run \notin finalizing
             /\ StartApply(p, task[p].run, "cancelled", 0, 0)
    <3>1. "cancelled" \in Applied
      BY DEF Applied, WorkerMsgs, Terminal
    <3> QED BY <2>1, <2>4, <3>1, <1>d, <1>k, <1>g, FinalStartApply
  <2> QED BY <2>2, <2>3, <2>4
<1>10. ASSUME NEW p \in Procs, LaunchSubmit(p)
      PROVE  FinalInv'
  <2>1. UNCHANGED <<row, msg, handles, parts, completed, phase>> /\ p[2] \in Runs
    BY <1>10, ProcOfRun DEF LaunchSubmit
  <2>2. \/ LaunchDone(p) /\ UNCHANGED finalizing
        \/ StartApply(p, p[2], "error", 0, 0) /\ p[2] \notin finalizing
    BY <1>10 DEF LaunchSubmit, Decide
  <2>3. CASE LaunchDone(p) /\ UNCHANGED finalizing
    <3>1. OnlyTask(p) /\ task'[p].pc \in {"done", "idle", "next"}
      BY <2>3, <1>i, IdleFacts DEF LaunchDone
    <3>2. FinalTask(p)'
      BY <3>1 DEF FinalTask, Finalizes, ApplyPcs, StopPcs
    <3> QED BY <2>1, <2>3, <3>1, <3>2, <1>d, <1>k, <1>g, FinalQuiet
  <2>4. CASE StartApply(p, p[2], "error", 0, 0) /\ p[2] \notin finalizing
    <3>1. "error" \in Applied
      BY DEF Applied, WorkerMsgs, Terminal
    <3> QED BY <2>1, <2>4, <3>1, <1>d, <1>k, <1>g, FinalStartApply
  <2> QED BY <2>2, <2>3, <2>4
<1>11. ASSUME NEW p \in Procs, RecoveryNext(p)
      PROVE  FinalInv'
  <2>1. UNCHANGED <<row, msg, handles, parts, completed, phase>>
    BY <1>11 DEF RecoveryNext
  <2>2. \/ UNCHANGED <<task, finalizing>>
        \/ \E r \in Runs : StartApply(p, r, "error", 0, 0) /\ r \notin finalizing
    BY <1>11, <1>t DEF RecoveryNext, Decide
  <2>3. CASE UNCHANGED <<task, finalizing>>
    <3>1. OnlyTask(p)
      BY <2>3 DEF OnlyTask
    <3>2. FinalTask(p)'
      <4>1. FinalTask(p) /\ task[p].pc = "next" /\ task'[p] = task[p]
        BY <1>11, <2>3, <1>k DEF RecoveryNext
      <4> QED BY <4>1 DEF FinalTask, Finalizes, ApplyPcs, StopPcs
    <3> QED BY <2>1, <2>3, <3>1, <3>2, <1>d, <1>k, <1>g, FinalQuiet
  <2>4. CASE \E r \in Runs : StartApply(p, r, "error", 0, 0) /\ r \notin finalizing
    <3>1. "error" \in Applied
      BY DEF Applied, WorkerMsgs, Terminal
    <3> QED BY <2>1, <2>4, <3>1, <1>d, <1>k, <1>g, FinalStartApply
  <2> QED BY <2>2, <2>3, <2>4
<1>12. ASSUME NEW p \in Procs, ApplyPersist(p)
      PROVE  FinalInv'
  <2> DEFINE r == task[p].run
             m == task[p].st
  <2>1. /\ r \in Runs /\ m \in Applied /\ task[p].pc = "persist"
        /\ UNCHANGED <<msg, handles, parts, finalizing, completed, phase>>
        /\ row' = [row EXCEPT ![r] = Mark(@, m)]
        /\ Goto(p, AfterPersist(m, task[p].live))
    BY <1>12, <1>t DEF ApplyPersist, RunPcs, ApplyPcs
  <2>2. m = "ask" => Asked(r)
    <3>1. CASE Kind(p) \in LaneKinds
      <4>1. /\ p[2] \in Runs /\ r = p[2] /\ task[p].i \in 1..Len(log[r])
            /\ log[r][task[p].i] = m \/ m = "running"
        BY <2>1, <3>1, <1>l, ProcOfRun DEF LaneTask, LaneKinds
      <4>2. DOMAIN log[r] = 1..Len(log[r])
        <5>1. log[r] \in Seq(WorkerMsgs)
          BY <2>1, <1>i DEF TypeInv, TypeOK
        <5> QED BY <5>1
      <4> QED BY <4>1, <4>2 DEF Asked
    <3>2. CASE Kind(p) \notin LaneKinds
      BY <2>1, <3>2, <1>l DEF LifeTask, LaneKinds, ApplyPcs, Terminal
    <3> QED BY <3>1, <3>2
  <2>3. /\ OnlyTask(p)
        /\ m \in Terminal => task'[p].pc = "project"
        /\ m \notin Terminal => task'[p].pc \in {"partial", "pending", "return"}
        /\ task'[p].pc = "partial" => m = "ask"
        /\ task'[p].run = r /\ task'[p].st = m /\ task'[p].live = task[p].live
    BY <2>1, <1>i, GotoFacts DEF AfterPersist, Terminal
  <2>3a. task'[p].pc = "partial" => Asked(r)'
    BY <2>1, <2>2, <2>3, <1>g DEF Grows
  <2>4. /\ row[r] \in Active /\ m \in Terminal => row'[r] = m
        /\ row[r] \in Active /\ m \notin Terminal => row'[r] \in Active
        /\ row[r] \notin Active => row'[r] = row[r]
        /\ \A s \in Runs \ {r} : row'[s] = row[s]
    BY <2>1, <1>t, MarkFacts
  <2>5. m \in Terminal => Finalizes(p, r) /\ Finishing(p, r) /\ r \in finalizing
    BY <2>1, <1>k, <1>c DEF Finalizes, FinalTask, ApplyPcs, TaskInv, GuardInv
  <2>6. FinalTask(p)'
    <3>1. CASE m \in Terminal
      <4>1. Finishing(p, r)'
        BY <2>1, <2>3, <2>4, <2>5, <3>1 DEF Finishing
      <4> QED BY <3>1, <4>1, <2>3 DEF FinalTask, Finalizes, StopPcs
    <3>2. CASE m \notin Terminal
      BY <3>2, <2>3, <2>3a DEF FinalTask, Finalizes, StopPcs, ApplyPcs
    <3> QED BY <3>1, <3>2
  <2>7. ASSUME NEW s \in Runs PROVE FinalRun(s)'
    <3>1. FinalRun(s)
      BY <1>k
    <3>2. CASE s # r \/ row'[r] = row[r]
      BY <3>1, <3>2, <2>1, <2>4, <1>g DEF FinalRun, Closed, Grows
    <3>3. CASE s = r /\ row[r] \in Active /\ m \notin Terminal
      <4>1. row'[r] \in Active /\ row'[r] \notin Terminal
        BY <2>4, <3>3 DEF Active, RunningMutable, Terminal
      <4> QED BY <3>1, <3>3, <4>1, <2>1 DEF FinalRun
    <3>4. CASE s = r /\ row[r] \in Active /\ m \in Terminal
      <4>1. r \in handles
        <5>1. ~Registering(r)
          BY <2>1 DEF ClaimInv, Untouched
        <5> QED BY <5>1, <3>4, <1>k DEF LifeInv, HandleIsLive, Registering
      <4> QED BY <3>1, <3>4, <4>1, <2>1, <2>5 DEF FinalRun
    <3> QED BY <3>2, <3>3, <3>4, <2>4
  <2>8. \A s \in finalizing : ~Finalizes(p, s) =>
          /\ s \in handles' <=> s \in handles
          /\ msg'[s] = msg[s]
          /\ row[s] \in Active => row'[s] \in Active
    <3>1. ASSUME NEW s \in finalizing, ~Finalizes(p, s), row[s] \in Active
          PROVE  row'[s] \in Active
      BY <3>1, <2>4, <2>5, <1>t
    <3> QED BY <2>1, <3>1
  <2>9. phase' = "up"
    BY <2>1, <1>k
  <2> QED BY <2>3, <2>6, <2>7, <2>8, <2>9, <1>d, <1>g, FinalKeeps
<1>13. ASSUME NEW p \in Procs, ApplyProject(p)
      PROVE  FinalInv'
  <2>1. /\ UNCHANGED <<row, msg, handles, parts, finalizing, completed, phase>>
        /\ Goto(p, IF task[p].live THEN "save" ELSE "finish")
        /\ task[p].pc = "project"
    BY <1>13 DEF ApplyProject
  <2>2. /\ OnlyTask(p)
        /\ task'[p].pc = IF task[p].live THEN "save" ELSE "finish"
        /\ task'[p].run = task[p].run /\ task'[p].st = task[p].st /\ task'[p].live = task[p].live
    BY <2>1, <1>i, GotoFacts
  <2>3. task[p].st \in Terminal /\ FinalTask(p)
    BY <2>1, <1>c, <1>k DEF TaskInv, EndedInv
  <2>4. FinalTask(p)'
    BY <2>1, <2>2, <2>3 DEF FinalTask, Finalizes, Finishing, ApplyPcs, StopPcs
  <2> QED BY <2>1, <2>2, <2>4, <1>d, <1>k, <1>g, FinalQuiet
<1>14. ASSUME NEW p \in Procs, ApplySave(p)
      PROVE  FinalInv'
  <2> DEFINE r == task[p].run
  <2>1. /\ r \in Runs /\ task[p].pc = "save"
        /\ UNCHANGED <<row, handles, parts, finalizing, completed, phase>>
        /\ SaveMsg(r, Level(task[p].st))
        /\ Goto(p, "finish")
    BY <1>14, <1>t DEF ApplySave, RunPcs, ApplyPcs, Level
  <2>2. /\ OnlyTask(p) /\ task'[p].pc = "finish"
        /\ task'[p].run = r /\ task'[p].st = task[p].st /\ task'[p].live = task[p].live
    BY <2>1, <1>i, GotoFacts
  <2>3. task[p].live /\ task[p].st \in Terminal /\ Finalizes(p, r) /\ Finishing(p, r)
    BY <2>1, <1>k DEF FinalTask, Finalizes, ApplyPcs
  <2>4. /\ \A s \in Runs \ {r} : msg'[s] = msg[s]
        /\ r \in parts => msg'[r] = Level(task[p].st)
        /\ r \notin parts => msg'[r] = msg[r]
    BY <2>1, <1>t DEF SaveMsg
  <2>5. r \notin parts => msg[r] = "none"
    BY <2>1, <1>k DEF FinalRun
  <2>6. Finishing(p, r)'
    BY <2>1, <2>2, <2>3, <2>4, <2>5 DEF Finishing, Closed
  <2>7. FinalTask(p)'
    BY <2>2, <2>6 DEF FinalTask, Finalizes, StopPcs
  <2>8. ASSUME NEW s \in Runs PROVE FinalRun(s)'
    <3>1. FinalRun(s)
      BY <1>k
    <3>2. s = r => s \in handles
      BY <2>3 DEF Finishing
    <3> QED BY <3>1, <3>2, <2>1, <2>4, <2>5, <1>g DEF FinalRun, Closed, Grows
  <2>9. phase' = "up"
    BY <2>1, <1>k
  <2>10. \A s \in finalizing : ~Finalizes(p, s) => msg'[s] = msg[s]
    BY <2>3, <2>4, <1>t
  <2> QED BY <2>1, <2>2, <2>7, <2>8, <2>9, <2>10, <1>d, <1>g, FinalKeeps
<1>15. ASSUME NEW p \in Procs, ApplyFinish(p)
      PROVE  FinalInv'
  <2> DEFINE r == task[p].run
  <2>1. /\ r \in Runs /\ task[p].pc = "finish"
        /\ UNCHANGED <<row, msg, parts, phase>>
        /\ handles' = handles \ (IF task[p].live THEN {r} ELSE {})
        /\ completed' = completed \cup {r}
        /\ finalizing' = finalizing \ {r}
        /\ Goto(p, "return")
    BY <1>15, <1>t DEF ApplyFinish, RunPcs, ApplyPcs
  <2>2. OnlyTask(p) /\ task'[p].pc = "return"
    BY <2>1, <1>i, GotoFacts
  <2>3. Finalizes(p, r) /\ Finishing(p, r)
    BY <2>1, <1>c, <1>k DEF FinalTask, Finalizes, ApplyPcs, TaskInv, EndedInv
  <2>4. FinalTask(p)'
    BY <2>2 DEF FinalTask, Finalizes, ApplyPcs, StopPcs
  <2>5. ASSUME NEW s \in Runs PROVE FinalRun(s)'
    <3>1. FinalRun(s)
      BY <1>k
    <3>2. CASE s # r
      BY <3>1, <3>2, <2>1, <1>g DEF FinalRun, Closed, Grows
    <3>3. CASE s = r
      <4>1. r \notin handles'
        BY <2>1, <2>3 DEF Finishing
      <4>2. r \in handles => row[r] = task[p].st /\ Closed(r, task[p].st)
        BY <2>1, <2>3 DEF Finishing
      <4> QED BY <3>1, <3>3, <4>1, <4>2, <2>1, <1>g DEF FinalRun, Closed, Grows
    <3> QED BY <3>2, <3>3
  <2>6. phase' = "up"
    BY <2>1, <1>k
  <2>7. \A s \in finalizing : ~Finalizes(p, s) => (s \in handles' <=> s \in handles)
    BY <2>1, <2>3
  <2> QED BY <2>1, <2>2, <2>4, <2>5, <2>6, <2>7, <1>d, <1>g, FinalKeeps
<1>16. ASSUME NEW p \in Procs, StopCancelling(p)
      PROVE  FinalInv'
  <2> DEFINE r == task[p].run
  <2>1. /\ r \in Runs /\ task[p].pc = "cancelling"
        /\ UNCHANGED <<msg, handles, parts, finalizing, completed, phase>>
        /\ row' = [row EXCEPT ![r] = Mark(@, "cancelling")]
        /\ Goto(p, "command")
    BY <1>16, <1>t DEF StopCancelling, RunPcs
  <2>2. OnlyTask(p) /\ task'[p].pc = "command" /\ task'[p].run = task[p].run
    BY <2>1, <1>i, GotoFacts
  <2>3. /\ row[r] \in Active => row'[r] \in Active
        /\ row[r] \notin Active => row'[r] = row[r]
        /\ \A s \in Runs \ {r} : row'[s] = row[s]
    BY <2>1, <1>t, MarkFacts DEF Terminal
  <2>4. FinalTask(p)'
    BY <2>1, <2>2, <1>k DEF FinalTask, Finalizes, ApplyPcs, StopPcs
  <2>5. ASSUME NEW s \in Runs PROVE FinalRun(s)'
    <3>1. FinalRun(s) /\ (row'[s] \in Active => row'[s] \notin Terminal)
      BY <1>k DEF Active, RunningMutable, Terminal
    <3> QED BY <3>1, <2>1, <2>3, <1>g DEF FinalRun, Closed, Grows
  <2>6. phase' = "up"
    BY <2>1, <1>k
  <2>7. \A s \in finalizing : row[s] \in Active => row'[s] \in Active
    BY <2>3, <1>t
  <2> QED BY <2>1, <2>2, <2>4, <2>5, <2>6, <2>7, <1>d, <1>g, FinalKeeps
<1>17. ASSUME NEW p \in Procs, LaunchCreate(p)
      PROVE  FinalInv'
  <2> DEFINE r == p[2]
  <2>1. /\ r \in Runs /\ Kind(p) = "launch" /\ task[p].pc = "create" /\ row[r] = "absent"
        /\ UNCHANGED <<msg, handles, parts, finalizing, completed, phase>>
        /\ row' = [row EXCEPT ![r] = "queued"] \/ UNCHANGED row
        /\ Goto(p, "register") \/ Goto(p, "failclaim")
    BY <1>17, <1>c, ProcOfRun DEF LaunchCreate, TaskInv, LaunchInv, BeforeCreate
  <2>2. OnlyTask(p) /\ task'[p].pc \in {"register", "failclaim"}
    BY <2>1, <1>i, GotoFacts
  <2>3. FinalTask(p)'
    BY <2>2 DEF FinalTask, Finalizes, ApplyPcs, StopPcs
  <2>4. \A s \in Runs : row'[s] = row[s] \/ (s = r /\ row'[s] = "queued")
    BY <2>1, <1>t
  <2>5. ASSUME NEW s \in Runs PROVE FinalRun(s)'
    <3>1. FinalRun(s) /\ "queued" \in Active /\ "queued" \notin Terminal
      BY <1>k DEF Active, RunningMutable, Terminal
    <3> QED BY <3>1, <2>1, <2>4, <1>g DEF FinalRun, Closed, Grows
  <2>6. phase' = "up"
    BY <2>1, <1>k
  <2>7. \A s \in finalizing : row[s] \in Active => row'[s] \in Active
    BY <2>4, <1>t DEF Active, RunningMutable
  <2> QED BY <2>1, <2>2, <2>3, <2>5, <2>6, <2>7, <1>d, <1>g, FinalKeeps
<1>18. ASSUME NEW p \in Procs, LaunchRegister(p)
      PROVE  FinalInv'
  <2> DEFINE r == p[2]
  <2>1. /\ r \in Runs /\ p = <<"launch", r>> /\ task[p].pc = "register"
        /\ UNCHANGED <<row, msg, parts, finalizing, completed, phase>>
        /\ handles' = handles \cup {r}
        /\ Goto(p, "submit")
    BY <1>18, ProcOfRun DEF LaunchRegister
  <2>2. OnlyTask(p) /\ task'[p].pc = "submit"
    BY <2>1, <1>i, GotoFacts
  <2>3. row[r] = "queued" /\ r \notin finalizing
    BY <2>1 DEF ClaimInv, Registering, Untouched
  <2>4. r \notin completed /\ row[r] \in Active
    BY <2>3, <1>c DEF CompletedIsDurable, Active, RunningMutable, Terminal
  <2>5. FinalTask(p)'
    BY <2>2 DEF FinalTask, Finalizes, ApplyPcs, StopPcs
  <2>6. \A s \in Runs : FinalRun(s)'
    BY <2>1, <2>4, <1>k, <1>g DEF FinalRun, Closed, Grows
  <2>7. phase' = "up"
    BY <2>1, <1>k
  <2>8. \A s \in finalizing : s \in handles' <=> s \in handles
    BY <2>1, <2>3
  <2> QED BY <2>1, <2>2, <2>5, <2>6, <2>7, <2>8, <1>d, <1>g, FinalKeeps
<1>19. ASSUME NEW p \in Procs, Deliver(p)
      PROVE  FinalInv'
  <2> DEFINE r == p[2]
  <2>1. PICK i, m : Taken(p, i, m)
    BY <1>19, <1>i, DeliverTakes
  <2>2. /\ r \in Runs /\ Kind(p) \in LaneKinds /\ i \in Nat /\ lastSeq[r] \in Nat
        /\ IF Passes(r, i) THEN Accept(p, r, m, i) ELSE Skip(p, r, m, i)
        /\ m \in WorkerMsgs
    BY <2>1, <1>i, AnswerTypes DEF Taken
  <2>3. UNCHANGED <<row, handles, completed, phase>>
    BY <1>19 DEF Deliver
  <2>4. CASE Skip(p, r, m, i)
    <3>1. UNCHANGED <<task, finalizing, parts, msg>>
      BY <2>4 DEF Skip
    <3>2. FinalTask(p)' /\ OnlyTask(p)
      <4>1. FinalTask(p) /\ (task[p].pc = "idle" => task'[p].pc = "idle")
        BY <3>1, <1>k
      <4> QED BY <2>1, <4>1, <3>1 DEF FinalTask, Finalizes, OnlyTask, Taken, ApplyPcs, StopPcs
    <3> QED BY <2>3, <3>1, <3>2, <1>d, <1>k, <1>g, FinalQuiet
  <2>5. CASE Passes(r, i) /\ Accept(p, r, m, i) /\ m # "agui"
    <3>1. StartApply(p, r, m, i, lastSeq[r]) /\ UNCHANGED <<parts, msg>> /\ r \notin finalizing
      BY <2>5 DEF Accept, Passes, Decide
    <3>2. m \in Applied
      BY <2>5, <2>2 DEF Applied
    <3> QED BY <2>2, <2>3, <3>1, <3>2, <1>d, <1>k, <1>g, FinalStartApply
  <2>6. CASE Passes(r, i) /\ Accept(p, r, m, i) /\ m = "agui"
    <3>1. /\ parts' = parts \cup {r} /\ msg' = [msg EXCEPT ![r] = "partial"]
          /\ UNCHANGED finalizing /\ r \in handles /\ r \notin finalizing
      BY <2>6 DEF Accept, Passes, Decide
    <3>2. OnlyTask(p) /\ task'[p].pc = "agui"
      BY <2>6, <1>t DEF Accept, OnlyTask
    <3>3. FinalTask(p)'
      BY <2>2, <3>2 DEF FinalTask, Finalizes, ApplyPcs, StopPcs, LaneKinds
    <3>4. ASSUME NEW s \in Runs PROVE FinalRun(s)'
      BY <2>3, <3>1, <1>k, <1>t, <1>g DEF FinalRun, Closed, Grows
    <3>5. \A s \in finalizing : msg'[s] = msg[s]
      BY <3>1, <1>t
    <3> QED BY <2>3, <3>1, <3>2, <3>3, <3>4, <3>5, <1>d, <1>k, <1>g, FinalKeeps
  <2> QED BY <2>2, <2>4, <2>5, <2>6
<1>20. ASSUME (\E r \in Runs : Expire(r)) \/ UNCHANGED vars
       PROVE  FinalInv'
  <2>1. /\ UNCHANGED <<row, msg, handles, parts, finalizing, phase, task>>
        /\ completed' \subseteq completed
    BY <1>20 DEF Expire
  <2>1a. log' = log
    BY <1>20 DEF Expire
  <2>2. \A q \in Procs : FinalTask(q)'
    BY <2>1, <2>1a, <1>k DEF FinalTask, Finalizes, Finishing, Closed, Asked, Followed
  <2>3. \A r \in Runs : FinalRun(r)'
    BY <2>1, <2>1a, <1>k DEF FinalRun, Closed, Asked, Followed
  <2> QED BY <2>1, <2>2, <2>3, <1>k DEF FinalInv
<1> QED
  BY <1>1, <1>2, <1>3, <1>4, <1>5, <1>6, <1>7, <1>8, <1>9, <1>10, <1>11, <1>12, <1>13,
     <1>14, <1>15, <1>16, <1>17, <1>18, <1>19, <1>20, <1>21, <1>22, <1>23, <1>d DEF Next, Continue, Begin, Apply,
     Stop, Launch, Recover

(* The message of a completed run is the one that says how it ended, as long as
   nothing has failed, unless the snapshot of a question the worker asked, or the
   end of a response that another launch cut off, was stored after it: with the
   built-in Host and a registered one, with timers, reports, reaps and stops at any
   moment after the registration, with questions and with steering. *)
THEOREM FinalMessageIsKept == ASSUME "early" \notin Env PROVE Spec => []FinalMessageStands
<1>1. Init => FinalInv
  <2> SUFFICES ASSUME Init PROVE FinalInv
    OBVIOUS
  <2>1. /\ \A p \in Procs : task[p] = IdleTask
        /\ \A r \in Runs : msg[r] = "none" /\ row[r] = "absent"
        /\ handles = {} /\ completed = {} /\ phase = "up"
    BY DEF Init
  <2> QED BY <2>1 DEF FinalInv, FinalTask, FinalRun, IdleTask, Finalizes, ApplyPcs, StopPcs,
       Terminal
<1>2. IInv /\ IInv' /\ LifeInv /\ ClaimInv /\ AnswerInv /\ FinalInv /\ [Next]_vars => FinalInv'
  BY FinalNext
<1>3. IInv /\ FinalInv => FinalMessageStands
  <2> SUFFICES ASSUME IInv, FinalInv, NEW r \in completed, faults = 0, crashes = 0
               PROVE  Closed(r, row[r])
    BY DEF FinalMessageStands
  <2>1. r \in Runs /\ row[r] \in Terminal
    BY DEF IInv, CoreInv, CompletedIsDurable, TypeInv, TypeOK
  <2>2. FinalRun(r)
    BY <2>1 DEF FinalInv, Calm
  <2> QED BY <2>1, <2>2 DEF FinalRun
<1> QED BY <1>1, <1>2, <1>3, IInvCorrect, LifeCorrect, ClaimCorrect, AnswerCorrect, PTL DEF Spec
=============================================================================
