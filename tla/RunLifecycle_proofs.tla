------------------------ MODULE RunLifecycle_proofs ------------------------
(***************************************************************************)
(* Proofs about RunLifecycle, for any set of runs and stop requests, any   *)
(* environment and any bounds.                                             *)
(***************************************************************************)
EXTENDS RunLifecycle, TLAPS

(* The program counters at which a task works on a run. *)
RunPcs == ApplyPcs \cup {"force", "agui", "cancelling", "command", "endresponse"}

(* A task that works on a run names one. *)
TaskHasRun == \A p \in Procs : task[p].pc \in RunPcs => task[p].run \in Runs

TypeInv == TypeOK /\ TaskHasRun

(* A process of a run is a pair of its kind and that run. *)
LEMMA ProcOfRun ==
  ASSUME NEW p \in Procs, Kind(p) \in {"launch", "upstream", "repost", "timeout", "notify"}
  PROVE  p[2] \in Runs /\ p = <<Kind(p), p[2]>>
BY DEF Procs, Kind

(* The query for the active run finds none, or a run whose row is active. *)
LEMMA FindActiveRow ==
  ASSUME created \in Seq(Runs), NEW r \in FindActive
  PROVE  r = None \/ (r \in Runs /\ row[r] \in Active)
BY DEF FindActive, ActiveAt

(* Moving a task to another program counter, or to an apply, keeps the types. *)
LEMMA GotoType ==
  ASSUME TypeInv, NEW p \in Procs, NEW c \in Pcs, Goto(p, c),
         c \in RunPcs => task[p].run \in Runs
  PROVE  task' \in [Procs -> Task] /\ TaskHasRun'
<1>1. task \in [Procs -> Task] /\ TaskHasRun
  BY DEF TypeInv, TypeOK
<1>2. [task[p] EXCEPT !.pc = c] \in Task
  BY <1>1 DEF Task
<1> QED BY <1>1, <1>2 DEF TaskHasRun, Goto, Task

(* So does giving it any well-typed task. *)
LEMMA SetTaskType ==
  ASSUME TypeInv, NEW p \in Procs, NEW t \in Task, t.pc \in RunPcs => t.run \in Runs,
         task' = [task EXCEPT ![p] = t]
  PROVE  task' \in [Procs -> Task] /\ TaskHasRun'
<1>1. task \in [Procs -> Task] /\ TaskHasRun
  BY DEF TypeInv, TypeOK
<1> QED BY <1>1 DEF TaskHasRun

(* So does the beginning of an apply. *)
LEMMA StartApplyType ==
  ASSUME TypeInv, NEW p \in Procs, NEW r \in Runs, NEW m \in Applied,
         NEW i \in Nat, NEW prev \in Nat, StartApply(p, r, m, i, prev)
  PROVE  /\ task' \in [Procs -> Task]
         /\ TaskHasRun'
         /\ finalizing' \subseteq Runs
<1> DEFINE t == [pc |-> "persist", run |-> r, st |-> m, live |-> r \in handles,
                 i |-> i, prev |-> prev]
<1>1. t \in Task
  BY DEF Task, Pcs, ApplyPcs
<1>2. task' = [task EXCEPT ![p] = t]
  BY DEF StartApply
<1>2a. t.pc \in RunPcs => t.run \in Runs
  OBVIOUS
<1>3. task' \in [Procs -> Task] /\ TaskHasRun'
  BY <1>1, <1>2, <1>2a, SetTaskType
<1>4. finalizing' \subseteq Runs
  BY DEF StartApply, TypeInv, TypeOK
<1> QED BY <1>3, <1>4

(* The task of a process at rest is well typed. *)
LEMMA IdleTaskType == IdleTask \in Task
BY DEF IdleTask, Task, Pcs, Applied, WorkerMsgs, Terminal

-----------------------------------------------------------------------------
(* Every action keeps the types: one step for each. *)
LEMMA TypeStep == TypeInv /\ [Next]_vars => TypeInv'
<1> SUFFICES ASSUME TypeInv, [Next]_vars PROVE TypeInv'
  OBVIOUS
<1> USE DEF vars, db, live, guard, host, bounds
<1>t. /\ task \in [Procs -> Task] /\ TaskHasRun /\ TypeOK
      /\ \A p \in Procs : /\ task[p].run \in Runs \cup {None} /\ task[p].st \in Applied
                          /\ task[p].i \in Nat /\ task[p].prev \in Nat
  BY DEF TypeInv, TypeOK, Task
<1>i. IdleTask \in Task /\ IdleTask.pc = "idle" /\ IdleTask.run = None
  BY IdleTaskType DEF IdleTask
<1>1. ASSUME NEW p \in Procs, ApplyPersist(p) PROVE TypeInv'
  <2>1. AfterPersist(task[p].st, task[p].live) \in Pcs
        /\ (AfterPersist(task[p].st, task[p].live) \in RunPcs => task[p].run \in Runs)
    BY <1>1, <1>t DEF ApplyPersist, TaskHasRun, Pcs, ApplyPcs, LaunchPcs, StopPcs,
         RunPcs, AfterPersist
  <2>2. task' \in [Procs -> Task] /\ TaskHasRun'
    BY <1>1, <2>1, GotoType DEF ApplyPersist
  <2> QED BY <1>1, <2>2, <1>t DEF ApplyPersist, TypeInv, TypeOK, TaskHasRun, RunPcs,
       ApplyPcs, Mark, StatusOf, Applied, WorkerMsgs, Active, RunningMutable,
       Terminal
<1>2. ASSUME NEW p \in Procs, ApplyPartial(p) PROVE TypeInv'
  <2>1. "pending" \in Pcs
        /\ ("pending" \in RunPcs => task[p].run \in Runs)
    BY <1>2, <1>t DEF ApplyPartial, TaskHasRun, Pcs, ApplyPcs, LaunchPcs, StopPcs,
         RunPcs
  <2>2. task' \in [Procs -> Task] /\ TaskHasRun'
    BY <1>2, <2>1, GotoType DEF ApplyPartial
  <2> QED BY <1>2, <2>2, <1>t DEF ApplyPartial, TypeInv, TypeOK, SaveMsg, MsgLevels
<1>3. ASSUME NEW p \in Procs, ApplyPending(p) PROVE TypeInv'
  <2>1. "return" \in Pcs
        /\ ("return" \in RunPcs => task[p].run \in Runs)
    BY <1>3, <1>t DEF ApplyPending, TaskHasRun, Pcs, ApplyPcs, LaunchPcs, StopPcs,
         RunPcs
  <2>2. task' \in [Procs -> Task] /\ TaskHasRun'
    BY <1>3, <2>1, GotoType DEF ApplyPending
  <2> QED BY <1>3, <2>2, <1>t DEF ApplyPending, TypeInv, TypeOK, TaskHasRun, RunPcs,
       ApplyPcs, WriteIfOwner, Released, ConvRecord, ClaimedBy
<1>4. ASSUME NEW p \in Procs, ApplyProject(p) PROVE TypeInv'
  <2>1. (IF task[p].live THEN "save" ELSE "finish") \in Pcs
        /\ ((IF task[p].live THEN "save" ELSE "finish") \in RunPcs => task[p].run \in Runs)
    BY <1>4, <1>t DEF ApplyProject, TaskHasRun, Pcs, ApplyPcs, LaunchPcs, StopPcs,
         RunPcs
  <2>2. task' \in [Procs -> Task] /\ TaskHasRun'
    BY <1>4, <2>1, GotoType DEF ApplyProject
  <2> QED BY <1>4, <2>2, <1>t DEF ApplyProject, TypeInv, TypeOK, WriteIfOwner,
       Released, ConvRecord, ClaimedBy
<1>5. ASSUME NEW p \in Procs, ApplySave(p) PROVE TypeInv'
  <2>1. "finish" \in Pcs
        /\ ("finish" \in RunPcs => task[p].run \in Runs)
    BY <1>5, <1>t DEF ApplySave, TaskHasRun, Pcs, ApplyPcs, LaunchPcs, StopPcs, RunPcs
  <2>2. task' \in [Procs -> Task] /\ TaskHasRun'
    BY <1>5, <2>1, GotoType DEF ApplySave
  <2> QED BY <1>5, <2>2, <1>t DEF ApplySave, TypeInv, TypeOK, SaveMsg, MsgLevels
<1>6. ASSUME NEW p \in Procs, ApplyFinish(p) PROVE TypeInv'
  <2>1. "return" \in Pcs
        /\ ("return" \in RunPcs => task[p].run \in Runs)
    BY <1>6, <1>t DEF ApplyFinish, TaskHasRun, Pcs, ApplyPcs, LaunchPcs, StopPcs,
         RunPcs
  <2>2. task' \in [Procs -> Task] /\ TaskHasRun'
    BY <1>6, <2>1, GotoType DEF ApplyFinish
  <2> QED BY <1>6, <2>2, <1>t DEF ApplyFinish, TypeInv, TypeOK, TaskHasRun, RunPcs,
       ApplyPcs
<1>7. ASSUME NEW p \in Procs, ApplyFail(p) PROVE TypeInv'
  <2>1. "failed" \in Pcs
        /\ ("failed" \in RunPcs => task[p].run \in Runs)
    BY <1>7, <1>t DEF ApplyFail, TaskHasRun, Pcs, ApplyPcs, LaunchPcs, StopPcs, RunPcs
  <2>2. task' \in [Procs -> Task] /\ TaskHasRun'
    BY <1>7, <2>1, GotoType DEF ApplyFail
  <2> QED BY <1>7, <2>2, <1>t DEF ApplyFail, TypeInv, TypeOK
<1>8. ASSUME NEW p \in Procs, Deliver(p) PROVE TypeInv'
  <2> DEFINE r == p[2]
  <2>1. r \in Runs
    BY <1>8 DEF Deliver, Lanes, Procs
  <2>2. PICK i \in {acked[r], acked[r] + 1} \ {0} :
          \E m \in (IF i <= Len(log[r]) THEN {log[r][i]}
                    ELSE IF hosted[r] = "yes" THEN NextMsgs(r) ELSE {}) :
            /\ log' = IF i <= Len(log[r]) THEN log ELSE [log EXCEPT ![r] = Append(@, m)]
            /\ IF Passes(r, i) THEN Accept(p, r, m, i) ELSE Skip(p, r, m, i)
    BY <1>8 DEF Deliver
  <2>3. PICK m \in (IF i <= Len(log[r]) THEN {log[r][i]}
                    ELSE IF hosted[r] = "yes" THEN NextMsgs(r) ELSE {}) :
            /\ log' = IF i <= Len(log[r]) THEN log ELSE [log EXCEPT ![r] = Append(@, m)]
            /\ IF Passes(r, i) THEN Accept(p, r, m, i) ELSE Skip(p, r, m, i)
    BY <2>2
  <2>4. i \in Nat /\ i > 0 /\ log[r] \in Seq(WorkerMsgs) /\ lastSeq[r] \in Nat
    BY <2>1, <1>t DEF TypeOK
  <2>5. m \in WorkerMsgs
    <3>1. NextMsgs(r) \subseteq WorkerMsgs
      BY DEF NextMsgs, WorkerMsgs, Terminal
    <3> QED BY <2>3, <2>4, <3>1
  <2>6. log' \in [Runs -> Seq(WorkerMsgs)]
    BY <2>1, <2>3, <2>4, <2>5, <1>t DEF TypeOK
  <2>7. UNCHANGED <<row, created, conv, handles, timers, stopReq, completed, todo,
                    phase, bounds>>
    BY <1>8 DEF Deliver
  <2>8. CASE Skip(p, r, m, i)
    BY <2>1, <2>4, <2>6, <2>7, <2>8, <1>t DEF Skip, Ack, Release, TypeInv, TypeOK,
       TaskHasRun
  <2>9. CASE Accept(p, r, m, i) /\ m = "agui"
    <3> DEFINE t == [pc |-> "agui", run |-> r, st |-> "running", live |-> TRUE,
                     i |-> i, prev |-> lastSeq[r]]
    <3>1. t \in Task /\ (t.pc \in RunPcs => t.run \in Runs)
      BY <2>1, <2>4 DEF Task, Pcs, Applied, WorkerMsgs, Terminal
    <3>2. task' \in [Procs -> Task] /\ TaskHasRun'
      BY <2>9, <3>1, SetTaskType DEF Accept
    <3>3. /\ msg' \in [Runs -> MsgLevels] /\ parts' \subseteq Runs
          /\ lastSeq' \in [Runs -> Nat]
          /\ UNCHANGED <<acked, hosted, finalizing>>
      <4>1. /\ msg' = [msg EXCEPT ![r] = "partial"] /\ parts' = parts \cup {r}
            /\ lastSeq' = [lastSeq EXCEPT ![r] = i]
            /\ UNCHANGED <<acked, hosted, finalizing>>
        BY <2>9 DEF Accept
      <4>2. msg \in [Runs -> MsgLevels] /\ parts \subseteq Runs /\ lastSeq \in [Runs -> Nat]
        BY <1>t DEF TypeOK
      <4>3. "partial" \in MsgLevels
        BY DEF MsgLevels
      <4> HIDE DEF r
      <4> QED BY <2>1, <2>4, <4>1, <4>2, <4>3
    <3> QED BY <2>6, <2>7, <3>2, <3>3, <1>t DEF TypeInv, TypeOK
  <2>10. CASE Accept(p, r, m, i) /\ m # "agui"
    <3>1. m \in Applied
      BY <2>5, <2>10 DEF Applied
    <3>2. StartApply(p, r, m, i, lastSeq[r])
      BY <2>10 DEF Accept
    <3>3. task' \in [Procs -> Task] /\ TaskHasRun' /\ finalizing' \subseteq Runs
      BY <2>1, <2>4, <3>1, <3>2, StartApplyType
    <3> QED BY <2>1, <2>4, <2>6, <2>7, <2>10, <3>3, <1>t DEF Accept, TypeInv, TypeOK
  <2> QED BY <2>3, <2>8, <2>9, <2>10
<1>9. ASSUME NEW p \in Procs, AguiEnd(p) PROVE TypeInv'
  <2>1. "return" \in Pcs \ RunPcs /\ "failed" \in Pcs \ RunPcs
    BY DEF Pcs, RunPcs, ApplyPcs, LaunchPcs, StopPcs
  <2>2. task' \in [Procs -> Task] /\ TaskHasRun'
    BY <1>9, <2>1, GotoType DEF AguiEnd
  <2> QED BY <1>9, <2>2, <1>t DEF AguiEnd, TypeInv, TypeOK
<1>10. ASSUME NEW p \in Procs, UpstreamReturn(p) PROVE TypeInv'
  <2>2. task' \in [Procs -> Task] /\ TaskHasRun'
    BY <1>10, <1>i, SetTaskType DEF UpstreamReturn, RunPcs, ApplyPcs
  <2> QED BY <1>10, <2>2, <1>t DEF UpstreamReturn, TypeInv, TypeOK, Ack, Release
<1>11. ASSUME NEW p \in Procs, UpstreamFailed(p) PROVE TypeInv'
  <2>2. task' \in [Procs -> Task] /\ TaskHasRun'
    BY <1>11, <1>i, SetTaskType DEF UpstreamFailed, RunPcs, ApplyPcs
  <2> QED BY <1>11, <2>2, <1>t DEF UpstreamFailed, TypeInv, TypeOK, Ack, Rollback
<1>12. ASSUME NEW p \in Procs, Notify(p) PROVE TypeInv'
  <2>1. p[2] \in Runs
    BY <1>12, ProcOfRun DEF Notify
  <2>2. task' \in [Procs -> Task] /\ TaskHasRun' /\ finalizing' \subseteq Runs
    BY <1>12, <2>1, StartApplyType DEF Notify, Applied, WorkerMsgs, Terminal
  <2> QED BY <1>12, <2>2, <1>t DEF Notify, TypeInv, TypeOK
<1>13. ASSUME NEW p \in Procs, NotifyEnd(p) PROVE TypeInv'
  <2>2. task' \in [Procs -> Task] /\ TaskHasRun'
    BY <1>13, <1>i, SetTaskType DEF NotifyEnd, RunPcs, ApplyPcs
  <2> QED BY <1>13, <2>2, <1>t DEF NotifyEnd, TypeInv, TypeOK, Release
<1>14. ASSUME NEW p \in Procs, TimeoutFire(p) PROVE TypeInv'
  <2>1. p[2] \in Runs
    BY <1>14, ProcOfRun DEF TimeoutFire
  <2>2. [IdleTask EXCEPT !.pc = "force", !.run = p[2]] \in Task
    BY <2>1, <1>i DEF IdleTask, Task, Pcs
  <2>3. task' \in [Procs -> Task] /\ TaskHasRun'
    <3>1. CASE p[2] \in handles
      BY <1>14, <2>1, <2>2, <3>1, SetTaskType DEF TimeoutFire, IdleTask
    <3>2. CASE p[2] \notin handles
      BY <1>14, <3>2, <1>t DEF TimeoutFire, TaskHasRun
    <3> QED BY <3>1, <3>2
  <2> QED BY <1>14, <2>3, <1>t DEF TimeoutFire, TypeInv, TypeOK
<1>15. ASSUME NEW p \in Procs, TimeoutForce(p) PROVE TypeInv'
  <2>1. task[p].run \in Runs
    BY <1>15, <1>t DEF TimeoutForce, TaskHasRun, RunPcs
  <2>2. task' \in [Procs -> Task] /\ TaskHasRun' /\ finalizing' \subseteq Runs
    <3>1. CASE Decide(task[p].run)
      BY <1>15, <2>1, <3>1, StartApplyType DEF TimeoutForce, Applied, WorkerMsgs, Terminal
    <3>2. CASE ~Decide(task[p].run)
      BY <1>15, <2>1, <3>2, <1>t, GotoType DEF TimeoutForce, Pcs, TypeOK
    <3> QED BY <3>1, <3>2
  <2> QED BY <1>15, <2>2, <1>t DEF TimeoutForce, TypeInv, TypeOK
<1>16. ASSUME NEW p \in Procs, TimeoutEnd(p) PROVE TypeInv'
  <2>2. task' \in [Procs -> Task] /\ TaskHasRun'
    BY <1>16, <1>i, SetTaskType DEF TimeoutEnd, RunPcs, ApplyPcs
  <2> QED BY <1>16, <2>2, <1>t DEF TimeoutEnd, TypeInv, TypeOK, Release
<1>17. ASSUME NEW p \in Procs, StopFind(p) PROVE TypeInv'
  <2>1. PICK r \in FindActive :
          task' = [task EXCEPT ![p] = [IdleTask EXCEPT !.pc = "found", !.run = r]]
    BY <1>17 DEF StopFind
  <2>2. r \in Runs \cup {None}
    BY <2>1, FindActiveRow, <1>t DEF TypeOK
  <2>3. [IdleTask EXCEPT !.pc = "found", !.run = r] \in Task
    BY <2>2, <1>i DEF IdleTask, Task, Pcs, StopPcs
  <2>4. task' \in [Procs -> Task] /\ TaskHasRun'
    BY <2>1, <2>3, SetTaskType DEF IdleTask, RunPcs, ApplyPcs
  <2> QED BY <1>17, <2>4, <1>t DEF StopFind, TypeInv, TypeOK
<1>18. ASSUME NEW p \in Procs, StopFound(p) PROVE TypeInv'
  <2> DEFINE r == task[p].run
  <2>1. CASE r \in handles /\ Goto(p, "cancelling")
             /\ stopReq' = stopReq \cup {r} /\ UNCHANGED finalizing
    <3>1. r \in Runs
      BY <2>1, <1>t DEF TypeOK
    <3>2. task' \in [Procs -> Task] /\ TaskHasRun'
      BY <2>1, <3>1, GotoType DEF Pcs, StopPcs
    <3> QED BY <1>18, <2>1, <3>1, <3>2, <1>t DEF StopFound, TypeInv, TypeOK
  <2>2. CASE Goto(p, "reconcile") /\ UNCHANGED <<stopReq, finalizing>>
    <3>1. task' \in [Procs -> Task] /\ TaskHasRun'
      BY <2>2, GotoType DEF Pcs, StopPcs, RunPcs, ApplyPcs
    <3> QED BY <1>18, <2>2, <3>1, <1>t DEF StopFound, TypeInv, TypeOK
  <2>3. CASE r \in Runs /\ StartApply(p, r, "cancelled", 0, 0) /\ UNCHANGED stopReq
    <3>1. task' \in [Procs -> Task] /\ TaskHasRun' /\ finalizing' \subseteq Runs
      BY <2>3, StartApplyType DEF Applied, WorkerMsgs, Terminal
    <3> QED BY <1>18, <2>3, <3>1, <1>t DEF StopFound, TypeInv, TypeOK
  <2>4. CASE Goto(p, "return") /\ UNCHANGED <<stopReq, finalizing>>
    <3>1. task' \in [Procs -> Task] /\ TaskHasRun'
      BY <2>4, GotoType DEF Pcs, RunPcs, ApplyPcs
    <3> QED BY <1>18, <2>4, <3>1, <1>t DEF StopFound, TypeInv, TypeOK
  <2> QED BY <1>18, <2>1, <2>2, <2>3, <2>4 DEF StopFound
<1>19. ASSUME NEW p \in Procs, StopCancelling(p) PROVE TypeInv'
  <2>1. "command" \in Pcs
        /\ ("command" \in RunPcs => task[p].run \in Runs)
    BY <1>19, <1>t DEF StopCancelling, TaskHasRun, Pcs, ApplyPcs, LaunchPcs, StopPcs,
         RunPcs
  <2>2. task' \in [Procs -> Task] /\ TaskHasRun'
    BY <1>19, <2>1, GotoType DEF StopCancelling
  <2> QED BY <1>19, <2>2, <1>t DEF StopCancelling, TypeInv, TypeOK, TaskHasRun, RunPcs,
       ApplyPcs, Mark, StatusOf, Active, RunningMutable
<1>20. ASSUME NEW p \in Procs, StopCommand(p) PROVE TypeInv'
  <2>1. task[p].run \in Runs
    BY <1>20, <1>t DEF StopCommand, TaskHasRun, RunPcs
  <2>2. task' \in [Procs -> Task] /\ TaskHasRun'
    BY <1>20, <2>1, GotoType DEF StopCommand, Pcs, StopPcs
  <2> QED BY <1>20, <2>2, <1>t DEF StopCommand, TypeInv, TypeOK
<1>21. ASSUME NEW p \in Procs, StopEndResponse(p) PROVE TypeInv'
  <2>1. "return" \in Pcs
        /\ ("return" \in RunPcs => task[p].run \in Runs)
    BY <1>21, <1>t DEF StopEndResponse, TaskHasRun, Pcs, ApplyPcs, LaunchPcs, StopPcs,
         RunPcs
  <2>2. task' \in [Procs -> Task] /\ TaskHasRun'
    BY <1>21, <2>1, GotoType DEF StopEndResponse
  <2> QED BY <1>21, <2>2, <1>t DEF StopEndResponse, TypeInv, TypeOK, SaveMsg, MsgLevels
<1>22. ASSUME NEW p \in Procs, StopReconcile(p) PROVE TypeInv'
  <2>1. "return" \in Pcs
        /\ ("return" \in RunPcs => task[p].run \in Runs)
    BY <1>22, <1>t DEF StopReconcile, TaskHasRun, Pcs, ApplyPcs, LaunchPcs, StopPcs,
         RunPcs
  <2>2. task' \in [Procs -> Task] /\ TaskHasRun'
    BY <1>22, <2>1, GotoType DEF StopReconcile
  <2> QED BY <1>22, <2>2, <1>t DEF StopReconcile, TypeInv, TypeOK, WriteIfOwner,
       Released, ConvRecord, ClaimedBy
<1>23. ASSUME NEW p \in Procs, StopFail(p) PROVE TypeInv'
  <2>1. "failed" \in Pcs
        /\ ("failed" \in RunPcs => task[p].run \in Runs)
    BY <1>23, <1>t DEF StopFail, TaskHasRun, Pcs, ApplyPcs, LaunchPcs, StopPcs, RunPcs
  <2>2. task' \in [Procs -> Task] /\ TaskHasRun'
    BY <1>23, <2>1, GotoType DEF StopFail
  <2> QED BY <1>23, <2>2, <1>t DEF StopFail, TypeInv, TypeOK
<1>24. ASSUME NEW p \in Procs, StopEnd(p) PROVE TypeInv'
  <2>1. [IdleTask EXCEPT !.pc = "done"] \in Task
    BY <1>i DEF IdleTask, Task, Pcs
  <2>2. task' \in [Procs -> Task] /\ TaskHasRun'
    BY <1>24, <1>i, <2>1, SetTaskType DEF StopEnd, LaunchDone, RunPcs, ApplyPcs,
         IdleTask
  <2> QED BY <1>24, <2>2, <1>t DEF StopEnd, TypeInv, TypeOK
<1>25. ASSUME NEW p \in Procs, LaunchClaim(p) PROVE TypeInv'
  <2>1. p[2] \in Runs
    BY <1>25, ProcOfRun DEF LaunchClaim
  <2>2. [IdleTask EXCEPT !.pc = "done"] \in Task
    BY <1>i DEF IdleTask, Task, Pcs
  <2>3. task' \in [Procs -> Task] /\ TaskHasRun'
    <3>1. CASE Goto(p, "create") \/ Goto(p, "find")
      BY <3>1, GotoType DEF Pcs, LaunchPcs, StopPcs, RunPcs, ApplyPcs
    <3>2. CASE LaunchDone(p)
      BY <3>2, <2>2, SetTaskType DEF LaunchDone, IdleTask, RunPcs, ApplyPcs
    <3> QED BY <1>25, <3>1, <3>2 DEF LaunchClaim
  <2>4. conv' \in ConvRecord
    BY <1>25, <2>1, <1>t DEF LaunchClaim, TypeOK, ConvRecord, ClaimedBy
  <2> QED BY <1>25, <2>3, <2>4, <1>t DEF LaunchClaim, TypeInv, TypeOK
<1>26. ASSUME NEW p \in Procs, LaunchStopped(p) PROVE TypeInv'
  <2>1. p[2] \in Runs
    BY <1>26, ProcOfRun DEF LaunchStopped
  <2>2. [IdleTask EXCEPT !.pc = "done"] \in Task
    BY <1>i DEF IdleTask, Task, Pcs
  <2>3. task' \in [Procs -> Task] /\ TaskHasRun'
    <3>1. CASE Goto(p, "reclaim") \/ Goto(p, "handoff")
      BY <3>1, GotoType DEF Pcs, LaunchPcs, StopPcs, RunPcs, ApplyPcs
    <3>2. CASE LaunchDone(p)
      BY <3>2, <2>2, SetTaskType DEF LaunchDone, IdleTask, RunPcs, ApplyPcs
    <3> QED BY <1>26, <3>1, <3>2 DEF LaunchStopped
  <2> QED BY <1>26, <2>1, <2>3, <1>t DEF LaunchStopped, TypeInv, TypeOK
<1>27. ASSUME NEW p \in Procs, LaunchHandoff(p) PROVE TypeInv'
  <2>1. p[2] \in Runs
    BY <1>27, ProcOfRun DEF LaunchHandoff
  <2>2. [IdleTask EXCEPT !.pc = "done"] \in Task
    BY <1>i DEF IdleTask, Task, Pcs
  <2>3. task' \in [Procs -> Task] /\ TaskHasRun'
    <3>1. CASE Goto(p, "create") \/ Goto(p, "reclaim")
      BY <3>1, GotoType DEF Pcs, LaunchPcs, StopPcs, RunPcs, ApplyPcs
    <3>2. CASE LaunchDone(p)
      BY <3>2, <2>2, SetTaskType DEF LaunchDone, IdleTask, RunPcs, ApplyPcs
    <3> QED BY <1>27, <3>1, <3>2 DEF LaunchHandoff
  <2>4. conv' \in ConvRecord
    BY <1>27, <2>1, <1>t DEF LaunchHandoff, TypeOK, ConvRecord, ClaimedBy
  <2> QED BY <1>27, <2>3, <2>4, <1>t DEF LaunchHandoff, TypeInv, TypeOK
<1>28. ASSUME NEW p \in Procs, LaunchReclaim(p) PROVE TypeInv'
  <2>1. p[2] \in Runs
    BY <1>28, ProcOfRun DEF LaunchReclaim
  <2>2. [IdleTask EXCEPT !.pc = "done"] \in Task
    BY <1>i DEF IdleTask, Task, Pcs
  <2>3. task' \in [Procs -> Task] /\ TaskHasRun'
    <3>1. CASE Goto(p, "create")
      BY <3>1, GotoType DEF Pcs, LaunchPcs, StopPcs, RunPcs, ApplyPcs
    <3>2. CASE LaunchDone(p)
      BY <3>2, <2>2, SetTaskType DEF LaunchDone, IdleTask, RunPcs, ApplyPcs
    <3> QED BY <1>28, <3>1, <3>2 DEF LaunchReclaim
  <2>4. conv' \in ConvRecord
    BY <1>28, <2>1, <1>t DEF LaunchReclaim, TypeOK, ConvRecord, ClaimedBy
  <2> QED BY <1>28, <2>3, <2>4, <1>t DEF LaunchReclaim, TypeInv, TypeOK
<1>29. ASSUME NEW p \in Procs, LaunchCreate(p) PROVE TypeInv'
  <2>1. p[2] \in Runs
    BY <1>29, ProcOfRun DEF LaunchCreate
  <2>3. task' \in [Procs -> Task] /\ TaskHasRun'
    <3>1. CASE Goto(p, "register") \/ Goto(p, "failclaim")
      BY <3>1, GotoType DEF Pcs, LaunchPcs, StopPcs, RunPcs, ApplyPcs
    <3> QED BY <1>29, <3>1 DEF LaunchCreate
  <2>4. row' \in [Runs -> {"absent"} \cup Active \cup Terminal]
    <3>1. row' = row \/ row' = [row EXCEPT ![p[2]] = "queued"]
      BY <1>29 DEF LaunchCreate
    <3>2. row \in [Runs -> {"absent"} \cup Active \cup Terminal] /\ "queued" \in Active
      BY <1>t DEF TypeOK, Active, RunningMutable
    <3> QED BY <2>1, <3>1, <3>2
  <2>5. created' \in Seq(Runs) /\ faults' \in Nat
    <3>1. (created' = created \/ created' = Append(created, p[2]))
          /\ (faults' = faults \/ faults' = faults + 1)
      BY <1>29 DEF LaunchCreate
    <3>2. created \in Seq(Runs) /\ faults \in Nat
      BY <1>t DEF TypeOK
    <3> QED BY <2>1, <3>1, <3>2
  <2> QED BY <1>29, <2>3, <2>4, <2>5, <1>t DEF LaunchCreate, TypeInv, TypeOK
<1>30. ASSUME NEW p \in Procs, LaunchFailClaim(p) PROVE TypeInv'
  <2>1. [IdleTask EXCEPT !.pc = "done"] \in Task
    BY <1>i DEF IdleTask, Task, Pcs
  <2>2. task' \in [Procs -> Task] /\ TaskHasRun'
    BY <1>30, <1>i, <2>1, SetTaskType DEF LaunchFailClaim, LaunchDone, RunPcs, ApplyPcs,
         IdleTask
  <2> QED BY SMTT(40), <1>30, <2>2, <1>t DEF LaunchFailClaim, TypeInv, TypeOK, WriteIfOwner,
       Released, ConvRecord, ClaimedBy
<1>31. ASSUME NEW p \in Procs, LaunchRegister(p) PROVE TypeInv'
  <2>1. p[2] \in Runs
    BY <1>31, ProcOfRun DEF LaunchRegister
  <2>3. task' \in [Procs -> Task] /\ TaskHasRun'
    <3>1. CASE Goto(p, "submit")
      BY <3>1, GotoType DEF Pcs, LaunchPcs, StopPcs, RunPcs, ApplyPcs
    <3> QED BY <1>31, <3>1 DEF LaunchRegister
  <2> QED BY <1>31, <2>1, <2>3, <1>t DEF LaunchRegister, TypeInv, TypeOK, ArmTimer
<1>32. ASSUME NEW p \in Procs, LaunchSubmit(p) PROVE TypeInv'
  <2>1. p[2] \in Runs
    BY <1>32, ProcOfRun DEF LaunchSubmit
  <2>2. [IdleTask EXCEPT !.pc = "done"] \in Task
    BY <1>i DEF IdleTask, Task, Pcs
  <2>3. task' \in [Procs -> Task] /\ TaskHasRun' /\ finalizing' \subseteq Runs
    <3>1. CASE LaunchDone(p) /\ UNCHANGED finalizing
      BY <3>1, <2>2, <1>t, SetTaskType DEF LaunchDone, IdleTask, RunPcs, ApplyPcs, TypeOK
    <3>2. CASE StartApply(p, p[2], "error", 0, 0)
      BY <3>2, <2>1, StartApplyType DEF Applied, WorkerMsgs, Terminal
    <3> QED BY <1>32, <3>1, <3>2 DEF LaunchSubmit
  <2> QED BY <1>32, <2>1, <2>3, <1>t DEF LaunchSubmit, TypeInv, TypeOK
<1>33. ASSUME NEW p \in Procs, LaunchEnd(p) PROVE TypeInv'
  <2>1. [IdleTask EXCEPT !.pc = "done"] \in Task
    BY <1>i DEF IdleTask, Task, Pcs
  <2>2. task' \in [Procs -> Task] /\ TaskHasRun'
    BY <1>33, <1>i, <2>1, SetTaskType DEF LaunchEnd, LaunchDone, RunPcs, ApplyPcs,
         IdleTask
  <2> QED BY <1>33, <2>2, <1>t DEF LaunchEnd, TypeInv, TypeOK
<1>34. ASSUME NEW p \in Procs, RecoveryStart(p) PROVE TypeInv'
  <2>2. task' \in [Procs -> Task] /\ TaskHasRun'
    BY <1>34, GotoType DEF RecoveryStart, Pcs, RunPcs, ApplyPcs
  <2> QED BY <1>34, <2>2, <1>t DEF RecoveryStart, TypeInv, TypeOK
<1>35. ASSUME NEW p \in Procs, RecoveryNext(p) PROVE TypeInv'
  <2>1. PICK r \in todo :
          \/ StartApply(p, r, "error", 0, 0) /\ UNCHANGED <<todo, hosted>>
          \/ todo' = todo \ {r} /\ Release(r) /\ UNCHANGED <<task, finalizing>>
    BY <1>35 DEF RecoveryNext
  <2>2. r \in Runs
    BY <2>1, <1>t DEF TypeOK
  <2>3. CASE StartApply(p, r, "error", 0, 0) /\ UNCHANGED <<todo, hosted>>
    <3>1. task' \in [Procs -> Task] /\ TaskHasRun' /\ finalizing' \subseteq Runs
      BY <2>2, <2>3, StartApplyType DEF Applied, WorkerMsgs, Terminal
    <3> QED BY <1>35, <2>3, <3>1, <1>t DEF RecoveryNext, TypeInv, TypeOK
  <2>4. CASE todo' = todo \ {r} /\ Release(r) /\ UNCHANGED <<task, finalizing>>
    BY <1>35, <2>2, <2>4, <1>t DEF RecoveryNext, TypeInv, TypeOK, TaskHasRun, Release
  <2> QED BY <2>1, <2>3, <2>4
<1>36. ASSUME NEW p \in Procs, RecoveryReturn(p) PROVE TypeInv'
  <2>1. [IdleTask EXCEPT !.pc = "next"] \in Task
    BY <1>i DEF IdleTask, Task, Pcs
  <2>2. task' \in [Procs -> Task] /\ TaskHasRun'
    BY <1>36, <2>1, <1>i, SetTaskType DEF RecoveryReturn, IdleTask, RunPcs, ApplyPcs
  <2> QED BY <1>36, <2>2, <1>t DEF RecoveryReturn, TypeInv, TypeOK, Release
<1>37. ASSUME NEW p \in Procs, RecoveryEnd(p) PROVE TypeInv'
  <2>2. task' \in [Procs -> Task] /\ TaskHasRun'
    BY <1>37, <1>i, SetTaskType DEF RecoveryEnd, RunPcs, ApplyPcs
  <2> QED BY <1>37, <2>2, <1>t DEF RecoveryEnd, TypeInv, TypeOK, WriteIfOwner, Released,
       ConvRecord, ClaimedBy
<1>38. CASE Crash
  <2>1. [IdleTask EXCEPT !.pc = "done"] \in Task
    BY <1>i DEF IdleTask, Task, Pcs
  <2>2. ASSUME NEW p \in Procs
        PROVE  task'[p] \in Task /\ task'[p].pc \notin RunPcs
    <3>1. task'[p] \in {IdleTask, [IdleTask EXCEPT !.pc = "done"]}
      BY <1>38 DEF Crash
    <3>2. [IdleTask EXCEPT !.pc = "done"].pc = "done" /\ "idle" \notin RunPcs
          /\ "done" \notin RunPcs
      BY DEF IdleTask, RunPcs, ApplyPcs
    <3> QED BY <3>1, <3>2, <2>1, <1>i
  <2>3. task' \in [Procs -> Task]
    <3>1. task' = [p \in Procs |-> task'[p]]
      BY <1>38 DEF Crash
    <3> QED BY <3>1, <2>2
  <2>4. TaskHasRun'
    BY <2>2 DEF TaskHasRun
  <2>5. /\ UNCHANGED <<row, created, conv, msg, hosted, log, acked, faults, reaps>>
        /\ handles' = {} /\ timers' = {} /\ stopReq' = {} /\ parts' = {}
        /\ finalizing' = {} /\ completed' = {} /\ todo' = {} /\ phase' = "boot"
        /\ lastSeq' = [r \in Runs |-> 0] /\ crashes' = crashes + 1
    BY <1>38 DEF Crash
  <2>6. lastSeq' \in [Runs -> Nat] /\ crashes' \in Nat
    BY <2>5, <1>t DEF TypeOK
  <2> QED BY <2>3, <2>4, <2>5, <2>6, <1>t DEF TypeInv, TypeOK
<1>39. ASSUME NEW r \in Runs, Expire(r) PROVE TypeInv'
  BY <1>39, <1>t DEF Expire, TypeInv, TypeOK, TaskHasRun
<1>40. CASE UNCHANGED vars
  BY <1>40, <1>t DEF TypeInv, TypeOK, TaskHasRun
<1> QED
  BY <1>1, <1>2, <1>3, <1>4, <1>5, <1>6, <1>7, <1>8, <1>9, <1>10, <1>11, <1>12,
       <1>13, <1>14, <1>15, <1>16, <1>17, <1>18, <1>19, <1>20, <1>21, <1>22, <1>23,
       <1>24, <1>25, <1>26, <1>27, <1>28, <1>29, <1>30, <1>31, <1>32, <1>33, <1>34,
       <1>35, <1>36, <1>37, <1>38, <1>39, <1>40 DEF Next, Continue, Begin, Apply,
       Stop, Launch, Recover

(* The initial state is well typed. *)
LEMMA TypeInit == Init => TypeInv
BY ConstantsAssumption, IdleTaskType
   DEF Init, TypeInv, TypeOK, TaskHasRun, IdleTask, RunPcs, ApplyPcs, ConvRecord,
       MsgLevels

(* Every reachable state is well typed, and a task at work on a run names it. *)
THEOREM TypeCorrect == Spec => []TypeOK
<1>1. TypeInv => TypeOK
  BY DEF TypeInv
<1> QED BY <1>1, TypeInit, TypeStep, PTL DEF Spec

-----------------------------------------------------------------------------
(***************************************************************************)
(* The inductive invariant of RunLifecycle, and the safety properties that *)
(* follow from it: a run has at most one finalizer, a completed run is     *)
(* durable, and rows only move forward.  Nothing is assumed of the         *)
(* environment: users may stop and Hosts may be reaped at any moment, any  *)
(* number of database calls may fail and the server may crash.             *)
(***************************************************************************)
(* Both durable outcomes of a terminal status are in the database. *)
Durable(r) == row[r] \in Terminal /\ conv.owner # r

(* A launch that has not created its row yet: it is at one of its own steps
   before createRun, or inside a stop of another run. *)
BeforeCreate(p) ==
  \/ task[p].pc \in {"idle", "find", "handoff", "reclaim", "create"}
  \/ /\ task[p].pc \notin {"register", "submit", "failclaim", "done"}
     /\ task[p].run # p[2]

(* A row exists exactly from createRun on. *)
LaunchInv(p) ==
  Kind(p) = "launch" =>
    /\ BeforeCreate(p) => row[p[2]] = "absent"
    /\ task[p].pc \in {"register", "submit"} => row[p[2]] # "absent"

(* Which processes stop runs, and which force an error. *)
KindInv(p) ==
  /\ task[p].pc \in StopPcs => Kind(p) \in {"launch", "stop"}
  /\ task[p].pc = "force" => Kind(p) = "timeout"

(* The run a task works on has a row. *)
RowInv(p) ==
  task[p].pc \in ApplyPcs \cup {"force", "found"} /\ task[p].run # None
    => row[task[p].run] # "absent"

(* How far an apply has come is in the database: its terminal row first, then
   the release of the conversation. *)
EndedInv(p) ==
  /\ task[p].pc \in {"project", "save", "finish"}
       => task[p].st \in Terminal /\ row[task[p].run] \in Terminal
  /\ task[p].pc \in {"save", "finish"} => conv.owner # task[p].run

(* Only a timeout can apply a status without a live handle and without knowing
   the conversation, and then the run has been finalized by someone else. *)
HandleInv(p) ==
  /\ Kind(p) \in {"upstream", "repost", "notify"} /\ task[p].pc \in ApplyPcs
       => task[p].live
  /\ Kind(p) = "timeout" /\ task[p].pc = "force"
       => task[p].run \in handles \/ Durable(task[p].run)
  /\ Kind(p) = "timeout" /\ task[p].pc \in ApplyPcs
       => task[p].live \/ Durable(task[p].run)

(* Who finalizes a run has entered it into finalizingRuns. *)
GuardInv(p) == \A r \in Runs : Finalizes(p, r) => r \in finalizing

TaskInv(p) ==
  /\ LaunchInv(p) /\ KindInv(p) /\ RowInv(p)
  /\ EndedInv(p) /\ HandleInv(p) /\ GuardInv(p)

(* Handles, and the runs of a recovery, have rows. *)
KnownRuns == \A r \in handles \cup todo : row[r] # "absent"

CoreInv ==
  /\ \A p \in Procs : TaskInv(p)
  /\ KnownRuns
  /\ SingleFinalizer
  /\ CompletedIsDurable

-----------------------------------------------------------------------------
(* What a step of process p may do to the rest of the state. *)

(* A row is created by its own launch, keeps existing, and stays terminal. *)
RowStep(p) ==
  \A r \in Runs :
    \/ row'[r] = row[r]
    \/ row[r] = "absent" /\ p = <<"launch", r>> /\ row'[r] # "absent"
    \/ /\ row[r] # "absent" /\ row'[r] # "absent"
       /\ row[r] \in Terminal => row'[r] \in Terminal

(* The conversation is released, or claimed by a run that has no row. *)
OwnerStep ==
  \/ conv'.owner \in {conv.owner, None}
  \/ conv'.owner \in Runs /\ row[conv'.owner] = "absent" /\ row' = row

(* A handle goes only after the run is durable; a known run has a row. *)
KnownStep ==
  /\ \A r \in handles : r \in handles' \/ Durable(r)'
  /\ \A r \in handles' \cup todo' : row'[r] # "absent"

CompletedStep == \A r \in completed' : r \in completed \/ Durable(r)'

(* p leaves the guard only for the run it finalizes, and begins to finalize only
   a run that nobody finalizes. *)
GuardStep(p) ==
  \A r \in Runs :
    /\ r \in finalizing => r \in finalizing' \/ Finalizes(p, r)
    /\ Finalizes(p, r)' => r \in finalizing' /\ (Finalizes(p, r) \/ r \notin finalizing)

(* A step that keeps to these rules and leaves its own task in order keeps the
   invariant of every other task. *)
LEMMA StepKeeps ==
  ASSUME TypeInv, CoreInv, TypeInv', NEW p \in Procs,
         \A q \in Procs : q # p => task'[q] = task[q],
         RowStep(p), OwnerStep, KnownStep, CompletedStep, GuardStep(p), TaskInv(p)'
  PROVE  CoreInv'
<1>t. /\ \A q \in Procs : task[q].run \in Runs \cup {None}
      /\ \A q \in Procs : task[q].pc \in RunPcs => task[q].run \in Runs
      /\ None \notin Runs /\ completed \subseteq Runs /\ handles \subseteq Runs
      /\ completed' \subseteq Runs
  BY ConstantsAssumption DEF TypeInv, TypeOK, TaskHasRun, Task
<1>a. "absent" \notin Terminal
  BY DEF Terminal
<1>1. \A r \in Runs : /\ row[r] \in Terminal => row'[r] \in Terminal
                      /\ row[r] # "absent" => row'[r] # "absent"
                      /\ row[r] \in Terminal /\ conv.owner # r => conv'.owner # r
  BY <1>t, <1>a DEF RowStep, OwnerStep
<1>2. \A r \in Runs : Durable(r) => Durable(r)'
  BY <1>1 DEF Durable
<1>3. ASSUME NEW q \in Procs, q # p PROVE TaskInv(q)'
  <2>t. TaskInv(q) /\ task'[q] = task[q]
    BY <1>3 DEF CoreInv
  <2>1. LaunchInv(q)'
    <3>1. Kind(q) = "launch" => q[2] \in Runs /\ q = <<"launch", q[2]>>
      BY ProcOfRun
    <3>2. Kind(q) = "launch" /\ row[q[2]] = "absent" => row'[q[2]] = "absent"
      BY <1>3, <3>1 DEF RowStep
    <3> QED BY <2>t, <1>1, <3>1, <3>2 DEF TaskInv, LaunchInv, BeforeCreate
  <2>2. KindInv(q)'
    BY <2>t DEF TaskInv, KindInv
  <2>3. RowInv(q)'
    BY <2>t, <1>1, <1>t DEF TaskInv, RowInv
  <2>4. EndedInv(q)'
    BY <2>t, <1>1, <1>t DEF TaskInv, EndedInv, RunPcs, ApplyPcs
  <2>5. HandleInv(q)'
    BY <2>t, <1>2, <1>t DEF TaskInv, HandleInv, KnownStep, RunPcs
  <2>6. GuardInv(q)'
    <3> SUFFICES ASSUME NEW r \in Runs, Finalizes(q, r)' PROVE r \in finalizing'
      BY DEF GuardInv
    <3>1. Finalizes(q, r)
      BY <2>t DEF Finalizes
    <3>2. r \in finalizing /\ ~Finalizes(p, r)
      BY <1>3, <2>t, <3>1 DEF TaskInv, GuardInv, CoreInv, SingleFinalizer
    <3> QED BY <3>2 DEF GuardStep
  <2> QED BY <2>1, <2>2, <2>3, <2>4, <2>5, <2>6 DEF TaskInv
<1>4. SingleFinalizer'
  <2> SUFFICES ASSUME NEW q \in Procs, NEW s \in Procs, NEW r \in Runs,
                      Finalizes(q, r)', Finalizes(s, r)'
               PROVE  q = s
    BY DEF SingleFinalizer
  <2>1. \A u \in Procs \ {p} : Finalizes(u, r)' => Finalizes(u, r) /\ r \in finalizing
    BY DEF Finalizes, CoreInv, TaskInv, GuardInv
  <2>2. (q = p /\ s # p) \/ (s = p /\ q # p) => Finalizes(p, r)
    BY <2>1 DEF GuardStep
  <2> QED BY <2>1, <2>2 DEF CoreInv, SingleFinalizer
<1>5. KnownRuns'
  BY DEF KnownStep, KnownRuns
<1>6. CompletedIsDurable'
  BY <1>2, <1>t DEF CompletedStep, CoreInv, CompletedIsDurable, Durable
<1> QED BY <1>3, <1>4, <1>5, <1>6 DEF CoreInv

(* A step that begins to apply a status m to a run r that nobody finalizes. *)
LEMMA StartApplyKeeps ==
  ASSUME TypeInv, CoreInv, TypeInv', NEW p \in Procs, NEW r \in Runs, NEW m \in Applied,
         NEW i \in Nat, NEW prev \in Nat, StartApply(p, r, m, i, prev), Decide(r),
         row[r] # "absent",
         Kind(p) \in {"upstream", "repost", "notify"} => r \in handles,
         Kind(p) = "timeout" => r \in handles \/ Durable(r),
         Kind(p) = "launch" => r = p[2] \/ row[p[2]] = "absent",
         UNCHANGED <<row, conv, handles, completed>>, todo' \subseteq todo
  PROVE  CoreInv'
<1>1. /\ task \in [Procs -> Task] /\ None \notin Runs
      /\ KnownRuns /\ CompletedIsDurable
  BY ConstantsAssumption DEF TypeInv, TypeOK, CoreInv
<1>2. /\ \A q \in Procs : q # p => task'[q] = task[q]
      /\ task'[p] = [pc |-> "persist", run |-> r, st |-> m, live |-> r \in handles,
                     i |-> i, prev |-> prev]
      /\ finalizing \subseteq finalizing' /\ (m \in Terminal => r \in finalizing')
  BY <1>1 DEF StartApply
<1>3. TaskInv(p)'
  <2>1. LaunchInv(p)' /\ KindInv(p)' /\ RowInv(p)'
    BY <1>2 DEF LaunchInv, KindInv, RowInv, BeforeCreate, Kind, StopPcs
  <2>2. EndedInv(p)' /\ GuardInv(p)'
    BY <1>2 DEF EndedInv, GuardInv, Finalizes
  <2>3. HandleInv(p)'
    <3>1. task'[p].pc = "persist" /\ task'[p].run = r
      BY <1>2
    <3>1a. ASSUME r \in handles PROVE task'[p].live
      <4>1. (r \in handles) = TRUE
        BY <3>1a
      <4>2. task'[p] = [pc |-> "persist", run |-> r, st |-> m, live |-> TRUE,
                        i |-> i, prev |-> prev]
        BY <1>2, <4>1, Zenon
      <4> QED BY <4>2
    <3>2. Durable(r) => Durable(r)'
      BY DEF Durable
    <3> QED BY <3>1, <3>1a, <3>2 DEF HandleInv, Kind
  <2> QED BY <2>1, <2>2, <2>3 DEF TaskInv
<1>4. RowStep(p) /\ OwnerStep /\ KnownStep /\ CompletedStep
  BY <1>1 DEF RowStep, OwnerStep, KnownStep, KnownRuns, CompletedStep
<1>5. GuardStep(p)
  BY <1>2 DEF GuardStep, Finalizes, Decide
<1> QED BY <1>2, <1>3, <1>4, <1>5, StepKeeps

(* The kinds of processes there are. *)
LEMMA ProcKinds ==
  ASSUME NEW p \in Procs
  PROVE  Kind(p) \in {"launch", "upstream", "repost", "timeout", "notify", "stop",
                      "recovery"}
BY DEF Procs, Kind

(* A step of a launch before createRun, which may claim the conversation. *)
LEMMA LaunchKeeps ==
  ASSUME TypeInv, CoreInv, TypeInv', NEW p \in Procs, p[2] \in Runs,
         Kind(p) = "launch", row[p[2]] = "absent",
         \A q \in Procs : q # p => task'[q] = task[q],
         task'[p].pc \in {"create", "find", "handoff", "reclaim", "done"},
         UNCHANGED <<row, handles, todo, finalizing, completed>>,
         conv'.owner \in {conv.owner, p[2]}
  PROVE  CoreInv'
<1>1. KnownRuns
  BY DEF CoreInv
<1>2. RowStep(p) /\ OwnerStep /\ KnownStep /\ CompletedStep
  BY <1>1 DEF RowStep, OwnerStep, KnownStep, KnownRuns, CompletedStep
<1>3. GuardStep(p)
  BY DEF GuardStep, Finalizes, ApplyPcs
<1>4. TaskInv(p)'
  BY DEF TaskInv, LaunchInv, KindInv, RowInv, EndedInv, HandleInv, GuardInv, Finalizes,
         ApplyPcs, StopPcs, Kind
<1> QED BY <1>2, <1>3, <1>4, StepKeeps

-----------------------------------------------------------------------------
(* Every action keeps the invariant: one step for each, which shows that its own
   task stays in order and that it keeps to the rules for the rest. *)
LEMMA CoreStep == TypeInv /\ TypeInv' /\ CoreInv /\ [Next]_vars => CoreInv'
<1> SUFFICES ASSUME TypeInv, TypeInv', CoreInv, [Next]_vars PROVE CoreInv'
  OBVIOUS
<1> USE DEF vars, db, live, guard, host, bounds, Kind, ApplyPcs, StopPcs, Durable,
            TaskInv, LaunchInv, KindInv, RowInv, EndedInv, HandleInv, GuardInv,
            BeforeCreate, Finalizes, KnownRuns,
            RowStep, OwnerStep, KnownStep, CompletedStep, GuardStep
<1>t. /\ task \in [Procs -> Task] /\ row \in [Runs -> {"absent"} \cup Active \cup Terminal]
      /\ \A q \in Procs : task[q].run \in Runs \cup {None} /\ task[q].st \in Applied
      /\ \A q \in Procs : task[q].pc \in RunPcs => task[q].run \in Runs
      /\ None \notin Runs /\ completed \subseteq Runs /\ handles \subseteq Runs
      /\ todo \subseteq Runs
  BY ConstantsAssumption DEF TypeInv, TypeOK, TaskHasRun, Task
<1>c. /\ \A q \in Procs : TaskInv(q)
      /\ KnownRuns /\ SingleFinalizer /\ CompletedIsDurable
  BY DEF CoreInv
<1>1. ASSUME NEW p \in Procs, ApplyPartial(p) PROVE CoreInv'
  <2>1. \A q \in Procs : q # p => task'[q] = task[q]
        BY <1>1, <1>t DEF ApplyPartial, Goto
  <2>2. TaskInv(p)'
        BY <1>1, <1>t, <1>c, ProcOfRun DEF ApplyPartial, Goto
  <2>3. RowStep(p) /\ OwnerStep /\ KnownStep /\ CompletedStep /\ GuardStep(p)
        BY <1>1, <1>t, <1>c, ProcOfRun DEF ApplyPartial, Goto
  <2> QED BY <2>1, <2>2, <2>3, StepKeeps
<1>2. ASSUME NEW p \in Procs, ApplyPending(p) PROVE CoreInv'
  <2>1. \A q \in Procs : q # p => task'[q] = task[q]
        BY <1>2, <1>t DEF ApplyPending, Goto
  <2>2. TaskInv(p)'
        BY <1>2, <1>t, <1>c, ProcOfRun DEF ApplyPending, Goto, WriteIfOwner
  <2>3. RowStep(p) /\ OwnerStep /\ KnownStep /\ CompletedStep /\ GuardStep(p)
        BY <1>2, <1>t, <1>c, ProcOfRun DEF ApplyPending, Goto, WriteIfOwner
  <2> QED BY <2>1, <2>2, <2>3, StepKeeps
<1>3. ASSUME NEW p \in Procs, ApplySave(p) PROVE CoreInv'
  <2>1. \A q \in Procs : q # p => task'[q] = task[q]
        BY <1>3, <1>t DEF ApplySave, Goto
  <2>2. TaskInv(p)'
        BY <1>3, <1>t, <1>c, ProcOfRun DEF ApplySave, Goto
  <2>3. RowStep(p) /\ OwnerStep /\ KnownStep /\ CompletedStep /\ GuardStep(p)
        BY <1>3, <1>t, <1>c, ProcOfRun DEF ApplySave, Goto
  <2> QED BY <2>1, <2>2, <2>3, StepKeeps
<1>4. ASSUME NEW p \in Procs, ApplyFinish(p) PROVE CoreInv'
  <2>1. \A q \in Procs : q # p => task'[q] = task[q]
        BY <1>4, <1>t DEF ApplyFinish, Goto
  <2>2. TaskInv(p)'
        BY <1>4, <1>t, <1>c, ProcOfRun DEF ApplyFinish, Goto
  <2>3. RowStep(p) /\ OwnerStep /\ KnownStep /\ CompletedStep /\ GuardStep(p)
        BY <1>4, <1>t, <1>c, ProcOfRun DEF ApplyFinish, Goto
  <2> QED BY <2>1, <2>2, <2>3, StepKeeps
<1>5. ASSUME NEW p \in Procs, ApplyFail(p) PROVE CoreInv'
  <2>1. \A q \in Procs : q # p => task'[q] = task[q]
        BY <1>5, <1>t DEF ApplyFail, Goto
  <2>2. TaskInv(p)'
        BY <1>5, <1>t, <1>c, ProcOfRun DEF ApplyFail, Goto
  <2>3. RowStep(p) /\ OwnerStep /\ KnownStep /\ CompletedStep /\ GuardStep(p)
        BY <1>5, <1>t, <1>c, ProcOfRun DEF ApplyFail, Goto
  <2> QED BY <2>1, <2>2, <2>3, StepKeeps
<1>6. ASSUME NEW p \in Procs, UpstreamReturn(p) PROVE CoreInv'
  <2>1. \A q \in Procs : q # p => task'[q] = task[q]
        BY <1>6, <1>t DEF UpstreamReturn, Goto, IdleTask
  <2>2. TaskInv(p)'
        BY <1>6, <1>t, <1>c, ProcOfRun DEF UpstreamReturn, Goto, IdleTask, Lanes
  <2>3. RowStep(p) /\ OwnerStep /\ KnownStep /\ CompletedStep /\ GuardStep(p)
        BY <1>6, <1>t, <1>c, ProcOfRun DEF UpstreamReturn, Goto, IdleTask, Lanes
  <2> QED BY <2>1, <2>2, <2>3, StepKeeps
<1>7. ASSUME NEW p \in Procs, UpstreamFailed(p) PROVE CoreInv'
  <2>1. \A q \in Procs : q # p => task'[q] = task[q]
        BY <1>7, <1>t DEF UpstreamFailed, Goto, IdleTask
  <2>2. TaskInv(p)'
        BY <1>7, <1>t, <1>c, ProcOfRun DEF UpstreamFailed, Goto, IdleTask, Lanes
  <2>3. RowStep(p) /\ OwnerStep /\ KnownStep /\ CompletedStep /\ GuardStep(p)
        BY <1>7, <1>t, <1>c, ProcOfRun DEF UpstreamFailed, Goto, IdleTask, Lanes
  <2> QED BY <2>1, <2>2, <2>3, StepKeeps
<1>8. ASSUME NEW p \in Procs, NotifyEnd(p) PROVE CoreInv'
  <2>1. \A q \in Procs : q # p => task'[q] = task[q]
        BY <1>8, <1>t DEF NotifyEnd, Goto, IdleTask
  <2>2. TaskInv(p)'
        BY <1>8, <1>t, <1>c, ProcOfRun DEF NotifyEnd, Goto, IdleTask
  <2>3. RowStep(p) /\ OwnerStep /\ KnownStep /\ CompletedStep /\ GuardStep(p)
        BY <1>8, <1>t, <1>c, ProcOfRun DEF NotifyEnd, Goto, IdleTask
  <2> QED BY <2>1, <2>2, <2>3, StepKeeps
<1>9. ASSUME NEW p \in Procs, TimeoutEnd(p) PROVE CoreInv'
  <2>1. \A q \in Procs : q # p => task'[q] = task[q]
        BY <1>9, <1>t DEF TimeoutEnd, Goto, IdleTask
  <2>2. TaskInv(p)'
        BY <1>9, <1>t, <1>c, ProcOfRun DEF TimeoutEnd, Goto, IdleTask
  <2>3. RowStep(p) /\ OwnerStep /\ KnownStep /\ CompletedStep /\ GuardStep(p)
        BY <1>9, <1>t, <1>c, ProcOfRun DEF TimeoutEnd, Goto, IdleTask
  <2> QED BY <2>1, <2>2, <2>3, StepKeeps
<1>10. ASSUME NEW p \in Procs, StopCancelling(p) PROVE CoreInv'
  <2>1. \A q \in Procs : q # p => task'[q] = task[q]
        BY <1>10, <1>t DEF StopCancelling, Goto
  <2>2. TaskInv(p)'
        BY <1>10, <1>t, <1>c, ProcOfRun DEF StopCancelling, Goto, Mark, StatusOf,
         Active, RunningMutable, Terminal
  <2>3. RowStep(p) /\ OwnerStep /\ KnownStep /\ CompletedStep /\ GuardStep(p)
        BY <1>10, <1>t, <1>c, ProcOfRun, SMTT(30) DEF StopCancelling, Goto, Mark, StatusOf,
         Active, RunningMutable, Terminal
  <2> QED BY <2>1, <2>2, <2>3, StepKeeps
<1>11. ASSUME NEW p \in Procs, StopCommand(p) PROVE CoreInv'
  <2>1. \A q \in Procs : q # p => task'[q] = task[q]
        BY <1>11, <1>t DEF StopCommand, Goto
  <2>2. TaskInv(p)'
        BY <1>11, <1>t, <1>c, ProcOfRun DEF StopCommand, Goto
  <2>3. RowStep(p) /\ OwnerStep /\ KnownStep /\ CompletedStep /\ GuardStep(p)
        BY <1>11, <1>t, <1>c, ProcOfRun DEF StopCommand, Goto
  <2> QED BY <2>1, <2>2, <2>3, StepKeeps
<1>12. ASSUME NEW p \in Procs, StopEndResponse(p) PROVE CoreInv'
  <2>1. \A q \in Procs : q # p => task'[q] = task[q]
        BY <1>12, <1>t DEF StopEndResponse, Goto
  <2>2. TaskInv(p)'
        BY <1>12, <1>t, <1>c, ProcOfRun DEF StopEndResponse, Goto
  <2>3. RowStep(p) /\ OwnerStep /\ KnownStep /\ CompletedStep /\ GuardStep(p)
        BY <1>12, <1>t, <1>c, ProcOfRun DEF StopEndResponse, Goto
  <2> QED BY <2>1, <2>2, <2>3, StepKeeps
<1>13. ASSUME NEW p \in Procs, StopReconcile(p) PROVE CoreInv'
  <2>1. \A q \in Procs : q # p => task'[q] = task[q]
        BY <1>13, <1>t DEF StopReconcile, Goto
  <2>2. TaskInv(p)'
        BY <1>13, <1>t, <1>c, ProcOfRun DEF StopReconcile, Goto, Released
  <2>3. RowStep(p) /\ OwnerStep /\ KnownStep /\ CompletedStep /\ GuardStep(p)
        BY <1>13, <1>t, <1>c, ProcOfRun DEF StopReconcile, Goto, Released
  <2> QED BY <2>1, <2>2, <2>3, StepKeeps
<1>14. ASSUME NEW p \in Procs, StopFail(p) PROVE CoreInv'
  <2>1. \A q \in Procs : q # p => task'[q] = task[q]
        BY <1>14, <1>t DEF StopFail, Goto
  <2>2. TaskInv(p)'
        BY <1>14, <1>t, <1>c, ProcOfRun DEF StopFail, Goto
  <2>3. RowStep(p) /\ OwnerStep /\ KnownStep /\ CompletedStep /\ GuardStep(p)
        BY <1>14, <1>t, <1>c, ProcOfRun DEF StopFail, Goto
  <2> QED BY <2>1, <2>2, <2>3, StepKeeps
<1>15. ASSUME NEW p \in Procs, StopEnd(p) PROVE CoreInv'
  <2>1. \A q \in Procs : q # p => task'[q] = task[q]
        BY <1>15, <1>t DEF StopEnd, Goto, IdleTask
  <2>2. TaskInv(p)'
        BY <1>15, <1>t, <1>c, ProcOfRun DEF StopEnd, Goto, IdleTask
  <2>3. RowStep(p) /\ OwnerStep /\ KnownStep /\ CompletedStep /\ GuardStep(p)
        BY <1>15, <1>t, <1>c, ProcOfRun DEF StopEnd, Goto, IdleTask
  <2> QED BY <2>1, <2>2, <2>3, StepKeeps
<1>16. ASSUME NEW p \in Procs, LaunchFailClaim(p) PROVE CoreInv'
  <2>1. \A q \in Procs : q # p => task'[q] = task[q]
        BY <1>16, <1>t DEF LaunchFailClaim, Goto, LaunchDone, IdleTask
  <2>2. TaskInv(p)'
        BY <1>16, <1>t, <1>c, ProcOfRun DEF LaunchFailClaim, Goto, LaunchDone,
         IdleTask, WriteIfOwner, Released
  <2>3. RowStep(p) /\ OwnerStep /\ KnownStep /\ CompletedStep /\ GuardStep(p)
        BY <1>16, <1>t, <1>c, ProcOfRun DEF LaunchFailClaim, Goto, LaunchDone,
         IdleTask, WriteIfOwner, Released
  <2> QED BY <2>1, <2>2, <2>3, StepKeeps
<1>17. ASSUME NEW p \in Procs, LaunchRegister(p) PROVE CoreInv'
  <2>1. \A q \in Procs : q # p => task'[q] = task[q]
        BY <1>17, <1>t DEF LaunchRegister, Goto
  <2>2. TaskInv(p)'
        BY <1>17, <1>t, <1>c, ProcOfRun DEF LaunchRegister, Goto
  <2>3. RowStep(p) /\ OwnerStep /\ KnownStep /\ CompletedStep /\ GuardStep(p)
        BY <1>17, <1>t, <1>c, ProcOfRun DEF LaunchRegister, Goto
  <2> QED BY <2>1, <2>2, <2>3, StepKeeps
<1>18. ASSUME NEW p \in Procs, LaunchEnd(p) PROVE CoreInv'
  <2>1. \A q \in Procs : q # p => task'[q] = task[q]
        BY <1>18, <1>t DEF LaunchEnd, Goto, LaunchDone, IdleTask
  <2>2. TaskInv(p)'
        BY <1>18, <1>t, <1>c, ProcOfRun DEF LaunchEnd, Goto, LaunchDone, IdleTask
  <2>3. RowStep(p) /\ OwnerStep /\ KnownStep /\ CompletedStep /\ GuardStep(p)
        BY <1>18, <1>t, <1>c, ProcOfRun DEF LaunchEnd, Goto, LaunchDone, IdleTask
  <2> QED BY <2>1, <2>2, <2>3, StepKeeps
<1>19. ASSUME NEW p \in Procs, RecoveryStart(p) PROVE CoreInv'
  <2>1. \A q \in Procs : q # p => task'[q] = task[q]
        BY <1>19, <1>t DEF RecoveryStart, Goto
  <2>2. TaskInv(p)'
        BY <1>19, <1>t, <1>c, ProcOfRun DEF RecoveryStart, Goto, Active,
         RunningMutable
  <2>3. RowStep(p) /\ OwnerStep /\ KnownStep /\ CompletedStep /\ GuardStep(p)
        BY <1>19, <1>t, <1>c, ProcOfRun DEF RecoveryStart, Goto, Active,
         RunningMutable
  <2> QED BY <2>1, <2>2, <2>3, StepKeeps
<1>20. ASSUME NEW p \in Procs, RecoveryReturn(p) PROVE CoreInv'
  <2>1. \A q \in Procs : q # p => task'[q] = task[q]
        BY <1>20, <1>t DEF RecoveryReturn, Goto, IdleTask
  <2>2. TaskInv(p)'
        BY <1>20, <1>t, <1>c, ProcOfRun DEF RecoveryReturn, Goto, IdleTask, Recovery
  <2>3. RowStep(p) /\ OwnerStep /\ KnownStep /\ CompletedStep /\ GuardStep(p)
        BY <1>20, <1>t, <1>c, ProcOfRun DEF RecoveryReturn, Goto, IdleTask, Recovery
  <2> QED BY <2>1, <2>2, <2>3, StepKeeps
<1>21. ASSUME NEW p \in Procs, RecoveryEnd(p) PROVE CoreInv'
  <2>1. \A q \in Procs : q # p => task'[q] = task[q]
        BY <1>21, <1>t DEF RecoveryEnd, Goto, IdleTask
  <2>2. TaskInv(p)'
        BY <1>21, <1>t, <1>c, ProcOfRun DEF RecoveryEnd, Goto, IdleTask, Released,
         Recovery
  <2>3. RowStep(p) /\ OwnerStep /\ KnownStep /\ CompletedStep /\ GuardStep(p)
        BY <1>21, <1>t, <1>c, ProcOfRun DEF RecoveryEnd, Goto, IdleTask, Released,
         Recovery
  <2> QED BY <2>1, <2>2, <2>3, StepKeeps
<1>22. ASSUME NEW p \in Procs, ApplyPersist(p) PROVE CoreInv'
  <2> DEFINE r == task[p].run
             m == task[p].st
  <2>1. /\ r \in Runs /\ m \in Applied /\ row[r] \in Active \cup Terminal
        /\ row[r] # "absent"
        /\ row' = [row EXCEPT ![r] = Mark(row[r], m)]
    BY <1>22, <1>t, <1>c DEF ApplyPersist, RunPcs
  <2>2. /\ \A q \in Procs : q # p => task'[q] = task[q]
        /\ task'[p] = [task[p] EXCEPT !.pc = AfterPersist(m, task[p].live)]
    BY <1>22, <1>t DEF ApplyPersist, Goto
  <2>3. /\ Mark(row[r], m) # "absent"
        /\ row[r] \in Terminal => Mark(row[r], m) = row[r]
        /\ m \in Terminal => Mark(row[r], m) \in Terminal
    BY <2>1 DEF Mark, StatusOf, Active, RunningMutable, Terminal, Applied, WorkerMsgs
  <2>4. /\ AfterPersist(m, task[p].live) \in {"project", "partial", "pending", "return"}
        /\ AfterPersist(m, task[p].live) = "project" => m \in Terminal
    BY DEF AfterPersist
  <2>5. /\ task'[p].pc \in {"project", "partial", "pending", "return"}
        /\ task'[p].pc = "project" => m \in Terminal
        /\ task'[p].run = r /\ task'[p].st = m /\ task'[p].live = task[p].live
    BY <2>2, <2>4, <1>t DEF Task
  <2>6. RowStep(p)
    <3>1. \A s \in Runs : row'[s] = IF s = r THEN Mark(row[r], m) ELSE row[s]
      BY <2>1, <1>t
    <3> QED BY <2>1, <2>3, <3>1
  <2>7. OwnerStep /\ KnownStep /\ CompletedStep /\ GuardStep(p)
    BY <1>22, <2>1, <2>3, <2>5, <1>t, <1>c DEF ApplyPersist
  <2>8. TaskInv(p)'
    <3>1. LaunchInv(p)' /\ KindInv(p)'
      BY <1>22, <2>1, <2>5, <1>t, <1>c, ProcOfRun DEF ApplyPersist
    <3>2. RowInv(p)' /\ EndedInv(p)'
      BY <2>1, <2>3, <2>5, <1>t
    <3>3. HandleInv(p)'
      BY <1>22, <2>1, <2>3, <2>5, <1>t, <1>c DEF ApplyPersist
    <3>4. GuardInv(p)'
      BY <1>22, <2>5, <1>c DEF ApplyPersist
    <3> QED BY <3>1, <3>2, <3>3, <3>4
  <2> QED BY <2>2, <2>6, <2>7, <2>8, StepKeeps
<1>23. ASSUME NEW p \in Procs, ApplyProject(p) PROVE CoreInv'
  <2> DEFINE r == task[p].run
  <2>1. /\ r \in Runs /\ row[r] \in Terminal /\ task[p].st \in Terminal
        /\ row' = row
    BY <1>23, <1>t, <1>c DEF ApplyProject, RunPcs
  <2>2. /\ \A q \in Procs : q # p => task'[q] = task[q]
        /\ task'[p].pc \in {"save", "finish"}
        /\ task'[p].run = r /\ task'[p].st = task[p].st /\ task'[p].live = task[p].live
    BY <1>23, <1>t DEF ApplyProject, Goto, Task
  <2>3. conv'.owner \in {conv.owner, None}
    BY <1>23 DEF ApplyProject, WriteIfOwner, Released
  <2>4. conv'.owner # r
    <3>1. CASE KnowsConversation(p)
      BY <1>23, <2>1, <3>1, <1>t DEF ApplyProject, WriteIfOwner, Released
    <3>2. CASE ~KnowsConversation(p)
      <4>1. Kind(p) = "timeout" /\ ~task[p].live
        BY <1>23, <3>2, <1>c, ProcKinds DEF ApplyProject, KnowsConversation
      <4> QED BY <1>23, <2>3, <2>1, <4>1, <1>t, <1>c DEF ApplyProject
    <3> QED BY <3>1, <3>2
  <2>5. RowStep(p) /\ OwnerStep
    BY <2>1, <2>3
  <2>6. KnownStep /\ CompletedStep /\ GuardStep(p)
    BY <1>23, <2>1, <2>2, <1>c DEF ApplyProject
  <2>7. TaskInv(p)'
    BY <1>23, <2>1, <2>2, <2>4, <1>t, <1>c DEF ApplyProject
  <2> QED BY <2>2, <2>5, <2>6, <2>7, StepKeeps
<1>24. ASSUME NEW p \in Procs, AguiEnd(p) PROVE CoreInv'
  <2>1. /\ \A q \in Procs : q # p => task'[q] = task[q]
        /\ task[p].pc = "agui" /\ task'[p].pc \in {"return", "failed"}
        /\ task'[p].run = task[p].run
    BY <1>24, <1>t DEF AguiEnd, Goto, Task
  <2>2. UNCHANGED <<row, conv, handles, todo, finalizing, completed>>
    BY <1>24 DEF AguiEnd
  <2>3. TaskInv(p)'
    BY <2>1, <2>2, <1>c
  <2>4. RowStep(p) /\ OwnerStep /\ KnownStep /\ CompletedStep /\ GuardStep(p)
    BY <2>1, <2>2, <1>c
  <2> QED BY <2>1, <2>3, <2>4, StepKeeps
<1>25. ASSUME NEW p \in Procs, LaunchClaim(p) PROVE CoreInv'
  <2>1. /\ p[2] \in Runs /\ Kind(p) = "launch" /\ row[p[2]] = "absent"
        /\ UNCHANGED <<row, handles, todo, finalizing, completed>>
        /\ conv' = conv \/ conv' = ClaimedBy(p[2])
    BY <1>25, <1>c, ProcOfRun DEF LaunchClaim
  <2>2. /\ \A q \in Procs : q # p => task'[q] = task[q]
        /\ task'[p].pc \in {"create", "find", "done"}
    BY <1>25, <1>t DEF LaunchClaim, LaunchDone, Goto, IdleTask, Task
  <2> QED BY <2>1, <2>2, <1>c, LaunchKeeps DEF ClaimedBy
<1>26. ASSUME NEW p \in Procs, LaunchStopped(p) PROVE CoreInv'
  <2>1. /\ p[2] \in Runs /\ Kind(p) = "launch" /\ row[p[2]] = "absent"
        /\ UNCHANGED <<row, conv, handles, todo, finalizing, completed>>
    BY <1>26, <1>c, ProcOfRun DEF LaunchStopped
  <2>2. /\ \A q \in Procs : q # p => task'[q] = task[q]
        /\ task'[p].pc \in {"handoff", "reclaim", "done"}
    BY <1>26, <1>t DEF LaunchStopped, LaunchDone, Goto, IdleTask, Task
  <2> QED BY <2>1, <2>2, <1>c, LaunchKeeps
<1>27. ASSUME NEW p \in Procs, LaunchHandoff(p) PROVE CoreInv'
  <2>1. /\ p[2] \in Runs /\ Kind(p) = "launch" /\ row[p[2]] = "absent"
        /\ UNCHANGED <<row, handles, todo, finalizing, completed>>
        /\ conv' = conv \/ conv' = ClaimedBy(p[2])
    BY <1>27, <1>c, ProcOfRun DEF LaunchHandoff
  <2>2. /\ \A q \in Procs : q # p => task'[q] = task[q]
        /\ task'[p].pc \in {"create", "reclaim"}
    BY <1>27, <1>t DEF LaunchHandoff, Goto, Task
  <2> QED BY <2>1, <2>2, <1>c, LaunchKeeps DEF ClaimedBy
<1>28. ASSUME NEW p \in Procs, LaunchReclaim(p) PROVE CoreInv'
  <2>1. /\ p[2] \in Runs /\ Kind(p) = "launch" /\ row[p[2]] = "absent"
        /\ UNCHANGED <<row, handles, todo, finalizing, completed>>
        /\ conv' = conv \/ conv' = ClaimedBy(p[2])
    BY <1>28, <1>c, ProcOfRun DEF LaunchReclaim
  <2>2. /\ \A q \in Procs : q # p => task'[q] = task[q]
        /\ task'[p].pc \in {"create", "done"}
    BY <1>28, <1>t DEF LaunchReclaim, LaunchDone, Goto, IdleTask, Task
  <2> QED BY <2>1, <2>2, <1>c, LaunchKeeps DEF ClaimedBy
<1>29. ASSUME NEW p \in Procs, LaunchCreate(p) PROVE CoreInv'
  <2>1. /\ p[2] \in Runs /\ p = <<"launch", p[2]>> /\ row[p[2]] = "absent"
        /\ UNCHANGED <<conv, handles, todo, finalizing, completed>>
    BY <1>29, <1>c, ProcOfRun DEF LaunchCreate
  <2>2. /\ \A q \in Procs : q # p => task'[q] = task[q]
        /\ \/ row' = [row EXCEPT ![p[2]] = "queued"] /\ task'[p].pc = "register"
           \/ row' = row /\ task'[p].pc = "failclaim"
    BY <1>29, <1>t DEF LaunchCreate, Goto, Task
  <2>3. /\ row'[p[2]] \in {"absent", "queued"} /\ (task'[p].pc = "register" => row'[p[2]] = "queued")
        /\ \A r \in Runs : r # p[2] => row'[r] = row[r]
    BY <2>1, <2>2, <1>t
  <2>4. RowStep(p) /\ OwnerStep /\ CompletedStep /\ GuardStep(p)
    BY <2>1, <2>2, <2>3
  <2>5. KnownStep
    BY <2>1, <2>3, <1>t, <1>c
  <2>6. TaskInv(p)'
    BY <2>1, <2>2, <2>3
  <2> QED BY <2>2, <2>4, <2>5, <2>6, StepKeeps
<1>30. ASSUME NEW p \in Procs, Deliver(p) PROVE CoreInv'
  <2> DEFINE r == p[2]
  <2>1. r \in Runs /\ Kind(p) \in {"upstream", "repost"}
    BY <1>30 DEF Deliver, Lanes, Procs
  <2>2. PICK i \in {acked[r], acked[r] + 1} \ {0} :
          \E m \in (IF i <= Len(log[r]) THEN {log[r][i]}
                    ELSE IF hosted[r] = "yes" THEN NextMsgs(r) ELSE {}) :
            IF Passes(r, i) THEN Accept(p, r, m, i) ELSE Skip(p, r, m, i)
    BY <1>30 DEF Deliver
  <2>3. PICK m \in (IF i <= Len(log[r]) THEN {log[r][i]}
                    ELSE IF hosted[r] = "yes" THEN NextMsgs(r) ELSE {}) :
            IF Passes(r, i) THEN Accept(p, r, m, i) ELSE Skip(p, r, m, i)
    BY <2>2
  <2>4. UNCHANGED <<row, conv, handles, completed, todo>>
    BY <1>30 DEF Deliver
  <2>5. CASE Skip(p, r, m, i)
    <3>1. UNCHANGED <<task, finalizing>>
      BY <2>5 DEF Skip
    <3> QED BY <2>4, <3>1 DEF CoreInv, SingleFinalizer, CompletedIsDurable
  <2>6. CASE Passes(r, i) /\ Accept(p, r, m, i) /\ m = "agui"
    <3>1. /\ \A q \in Procs : q # p => task'[q] = task[q]
          /\ task'[p].pc = "agui"
          /\ UNCHANGED finalizing
      BY <2>6, <1>t DEF Accept
    <3>2. TaskInv(p)'
      BY <2>1, <3>1
    <3>3. RowStep(p) /\ OwnerStep /\ KnownStep /\ CompletedStep /\ GuardStep(p)
      BY <2>4, <3>1, <1>c
    <3> QED BY <3>1, <3>2, <3>3, StepKeeps
  <2>7. CASE Passes(r, i) /\ Accept(p, r, m, i) /\ m # "agui"
    <3>1. i \in Nat /\ log[r] \in Seq(WorkerMsgs) /\ lastSeq[r] \in Nat
      BY <2>1, SMTT(30) DEF TypeInv, TypeOK
    <3>2. m \in Applied
      <4>1. NextMsgs(r) \subseteq WorkerMsgs
        BY DEF NextMsgs, WorkerMsgs, Terminal
      <4> QED BY <2>3, <2>7, <3>1, <4>1 DEF Applied
    <3>3. StartApply(p, r, m, i, lastSeq[r]) /\ Decide(r) /\ r \in handles
      BY <2>7 DEF Accept, Passes
    <3>4. row[r] # "absent"
      BY <3>3, <1>c
    <3> HIDE DEF r
    <3> QED BY <2>1, <2>4, <3>1, <3>2, <3>3, <3>4, StartApplyKeeps
  <2> QED BY <2>3, <2>5, <2>6, <2>7
<1>31. ASSUME NEW p \in Procs, Notify(p) PROVE CoreInv'
  <2>1. PICK s \in {"error", "cancelled"} : StartApply(p, p[2], s, 0, 0)
    BY <1>31 DEF Notify
  <2>2. /\ p[2] \in Runs /\ Kind(p) = "notify" /\ p[2] \in handles /\ Decide(p[2])
        /\ UNCHANGED <<row, conv, handles, completed, todo>>
    BY <1>31, ProcOfRun DEF Notify
  <2>3. s \in Applied
    BY DEF Applied, WorkerMsgs, Terminal
  <2> QED BY <2>1, <2>2, <2>3, <1>c, StartApplyKeeps
<1>32. ASSUME NEW p \in Procs, TimeoutFire(p) PROVE CoreInv'
  <2>1. /\ Kind(p) = "timeout" /\ task[p].pc = "idle" /\ p[2] \in Runs
        /\ UNCHANGED <<row, conv, handles, todo, finalizing, completed>>
    BY <1>32, ProcOfRun DEF TimeoutFire
  <2>2. /\ \A q \in Procs : q # p => task'[q] = task[q]
        /\ \/ task'[p] = task[p]
           \/ task'[p].pc = "force" /\ task'[p].run = p[2] /\ p[2] \in handles
    <3>1. CASE p[2] \in handles
      <4>1. task' = [task EXCEPT ![p] = [IdleTask EXCEPT !.pc = "force", !.run = p[2]]]
        BY <1>32, <3>1 DEF TimeoutFire
      <4> QED BY <4>1, <3>1, <1>t DEF IdleTask
    <3>2. CASE p[2] \notin handles
      BY <1>32, <3>2 DEF TimeoutFire
    <3> QED BY <3>1, <3>2
  <2>3. TaskInv(p)'
    BY <2>1, <2>2, <1>c
  <2>4. RowStep(p) /\ OwnerStep /\ KnownStep /\ CompletedStep /\ GuardStep(p)
    BY <2>1, <2>2, <1>c
  <2> QED BY <2>2, <2>3, <2>4, StepKeeps
<1>33. ASSUME NEW p \in Procs, TimeoutForce(p) PROVE CoreInv'
  <2> DEFINE r == task[p].run
  <2>1. /\ Kind(p) = "timeout" /\ task[p].pc = "force" /\ r \in Runs /\ row[r] # "absent"
        /\ r \in handles \/ Durable(r)
        /\ UNCHANGED <<row, conv, handles, completed, todo>>
    BY <1>33, <1>t, <1>c DEF TimeoutForce, RunPcs
  <2>2. CASE Decide(r) /\ StartApply(p, r, "error", 0, 0)
    BY <2>1, <2>2, StartApplyKeeps DEF Applied, WorkerMsgs, Terminal
  <2>3. CASE Goto(p, "return") /\ UNCHANGED finalizing
    <3>1. /\ \A q \in Procs : q # p => task'[q] = task[q]
          /\ task'[p].pc = "return"
      BY <2>3, <1>t DEF Goto, Task
    <3>2. TaskInv(p)'
      BY <2>1, <3>1
    <3>3. RowStep(p) /\ OwnerStep /\ KnownStep /\ CompletedStep /\ GuardStep(p)
      BY <2>1, <2>3, <3>1, <1>c
    <3> QED BY <3>1, <3>2, <3>3, StepKeeps
  <2> QED BY <1>33, <2>2, <2>3 DEF TimeoutForce
<1>34. ASSUME NEW p \in Procs, StopFind(p) PROVE CoreInv'
  <2>1. PICK r \in FindActive :
          task' = [task EXCEPT ![p] = [IdleTask EXCEPT !.pc = "found", !.run = r]]
    BY <1>34 DEF StopFind
  <2>2. /\ \A q \in Procs : q # p => task'[q] = task[q]
        /\ task'[p].pc = "found" /\ task'[p].run = r
    BY <2>1, <1>t DEF IdleTask
  <2>3. r = None \/ row[r] # "absent"
    BY <2>1, FindActiveRow DEF TypeInv, TypeOK, Active, RunningMutable
  <2>4. /\ Kind(p) \in {"stop", "launch"}
        /\ task[p].pc \in {"idle", "find"}
        /\ UNCHANGED <<row, conv, handles, todo, finalizing, completed>>
    BY <1>34 DEF StopFind
  <2>5. TaskInv(p)'
    BY <2>2, <2>3, <2>4, <1>c
  <2>6. RowStep(p) /\ OwnerStep /\ KnownStep /\ CompletedStep /\ GuardStep(p)
    BY <2>2, <2>4, <1>c
  <2> QED BY <2>2, <2>5, <2>6, StepKeeps
<1>35. ASSUME NEW p \in Procs, StopFound(p) PROVE CoreInv'
  <2> DEFINE r == task[p].run
  <2>1. /\ task[p].pc = "found" /\ Kind(p) \in {"launch", "stop"}
        /\ r \in Runs => row[r] # "absent"
        /\ Kind(p) = "launch" => r = p[2] \/ row[p[2]] = "absent"
        /\ UNCHANGED <<row, conv, handles, completed, todo>>
    BY <1>35, <1>t, <1>c DEF StopFound
  <2>2. CASE r \in Runs /\ Decide(r) /\ StartApply(p, r, "cancelled", 0, 0)
    BY <2>1, <2>2, StartApplyKeeps DEF Applied, WorkerMsgs, Terminal
  <2>3. CASE \E c \in {"cancelling", "reconcile", "return"} : Goto(p, c) /\ UNCHANGED finalizing
    <3>1. /\ \A q \in Procs : q # p => task'[q] = task[q]
          /\ task'[p].pc \in {"cancelling", "reconcile", "return"}
          /\ task'[p].run = r
      BY <2>3, <1>t DEF Goto, Task
    <3>2. TaskInv(p)'
      BY <2>1, <3>1, <1>c
    <3>3. RowStep(p) /\ OwnerStep /\ KnownStep /\ CompletedStep /\ GuardStep(p)
      BY <2>1, <2>3, <3>1, <1>c
    <3> QED BY <3>1, <3>2, <3>3, StepKeeps
  <2> QED BY <1>35, <2>2, <2>3, <1>t DEF StopFound
<1>36. ASSUME NEW p \in Procs, LaunchSubmit(p) PROVE CoreInv'
  <2>1. /\ Kind(p) = "launch" /\ task[p].pc = "submit" /\ p[2] \in Runs
        /\ row[p[2]] # "absent"
        /\ UNCHANGED <<row, conv, handles, completed, todo>>
    BY <1>36, <1>c, ProcOfRun DEF LaunchSubmit
  <2>2. CASE Decide(p[2]) /\ StartApply(p, p[2], "error", 0, 0)
    BY <2>1, <2>2, StartApplyKeeps DEF Applied, WorkerMsgs, Terminal
  <2>3. CASE LaunchDone(p) /\ UNCHANGED finalizing
    <3>1. /\ \A q \in Procs : q # p => task'[q] = task[q]
          /\ task'[p].pc = "done"
      BY <2>3, <1>t DEF LaunchDone, IdleTask
    <3>2. TaskInv(p)'
      BY <2>1, <3>1
    <3>3. RowStep(p) /\ OwnerStep /\ KnownStep /\ CompletedStep /\ GuardStep(p)
      BY <2>1, <2>3, <3>1, <1>c
    <3> QED BY <3>1, <3>2, <3>3, StepKeeps
  <2> QED BY <1>36, <2>2, <2>3 DEF LaunchSubmit
<1>37. ASSUME NEW p \in Procs, RecoveryNext(p) PROVE CoreInv'
  <2>1. PICK r \in todo :
          \/ Decide(r) /\ StartApply(p, r, "error", 0, 0) /\ UNCHANGED todo
          \/ todo' = todo \ {r} /\ UNCHANGED <<task, finalizing>>
    BY <1>37 DEF RecoveryNext
  <2>2. /\ r \in Runs /\ row[r] # "absent" /\ Kind(p) = "recovery"
        /\ UNCHANGED <<row, conv, handles, completed>>
    BY <1>37, <1>t, <1>c DEF RecoveryNext, Recovery
  <2>3. CASE Decide(r) /\ StartApply(p, r, "error", 0, 0) /\ UNCHANGED todo
    BY <2>2, <2>3, StartApplyKeeps DEF Applied, WorkerMsgs, Terminal
  <2>4. CASE todo' = todo \ {r} /\ UNCHANGED <<task, finalizing>>
    BY <2>2, <2>4, <1>c DEF CoreInv, SingleFinalizer, CompletedIsDurable
  <2> QED BY <2>1, <2>3, <2>4
<1>38. CASE Crash
  <2>1. /\ UNCHANGED <<row, conv>>
        /\ handles' = {} /\ todo' = {} /\ finalizing' = {} /\ completed' = {}
    BY <1>38 DEF Crash
  <2>2. ASSUME NEW p \in Procs PROVE TaskInv(p)' /\ task'[p].pc \in {"idle", "done"}
    <3>1. /\ task'[p].pc \in {"idle", "done"}
          /\ Kind(p) = "launch" /\ task'[p].pc = "idle" => task[p].pc = "idle"
      BY <1>38 DEF Crash, IdleTask
    <3> QED BY <2>1, <3>1, <1>c
  <2> QED BY <2>1, <2>2 DEF CoreInv, SingleFinalizer, CompletedIsDurable
<1>39. ASSUME NEW r \in Runs, Expire(r) PROVE CoreInv'
  BY <1>39, <1>c DEF Expire, CoreInv, SingleFinalizer, CompletedIsDurable
<1>40. CASE UNCHANGED vars
  BY <1>40, <1>c DEF CoreInv, SingleFinalizer, CompletedIsDurable
<1> QED
  BY <1>1, <1>2, <1>3, <1>4, <1>5, <1>6, <1>7, <1>8, <1>9, <1>10, <1>11, <1>12,
     <1>13, <1>14, <1>15, <1>16, <1>17, <1>18, <1>19, <1>20, <1>21, <1>22, <1>23,
     <1>24, <1>25, <1>26, <1>27, <1>28, <1>29, <1>30, <1>31, <1>32, <1>33, <1>34,
     <1>35, <1>36, <1>37, <1>38, <1>39, <1>40 DEF Next, Continue, Begin, Apply,
     Stop, Launch, Recover

(* The inductive invariant. *)
IInv == TypeInv /\ CoreInv

LEMMA IInvCorrect == Spec => []IInv
<1>1. Init => IInv
  <2> SUFFICES ASSUME Init PROVE CoreInv
    BY TypeInit DEF IInv
  <2>1. /\ \A p \in Procs : task[p] = IdleTask
        /\ \A r \in Runs : row[r] = "absent"
        /\ handles = {} /\ todo = {} /\ completed = {}
    BY DEF Init
  <2>2. ASSUME NEW p \in Procs PROVE TaskInv(p)
    BY <2>1, ProcOfRun DEF IdleTask, TaskInv, LaunchInv, KindInv, RowInv, EndedInv,
       HandleInv, GuardInv, Finalizes, ApplyPcs, StopPcs
  <2> QED BY <2>1, <2>2 DEF CoreInv, KnownRuns, SingleFinalizer, CompletedIsDurable,
       Finalizes, IdleTask, ApplyPcs
<1>2. IInv /\ [Next]_vars => IInv'
  BY TypeStep, CoreStep DEF IInv
<1> QED BY <1>1, <1>2, PTL DEF Spec

(* Whatever worker, Host, timer, stops and reaps do at once, a run has at most
   one routine that finalizes it: in every instance, with every failure. *)
THEOREM OneFinalizer == Spec => []SingleFinalizer
<1>1. IInv => SingleFinalizer
  BY DEF IInv, CoreInv
<1> QED BY <1>1, IInvCorrect, PTL

(* The mark of completion is never ahead of the database, in every instance. *)
THEOREM CompletionIsDurable == Spec => []CompletedIsDurable
<1>1. IInv => CompletedIsDurable
  BY DEF IInv, CoreInv
<1> QED BY <1>1, IInvCorrect, PTL

(* Three actions write a row. *)
LEMMA RowWriters ==
  ASSUME [Next]_vars
  PROVE  \/ \E p \in Procs : ApplyPersist(p) \/ StopCancelling(p) \/ LaunchCreate(p)
         \/ UNCHANGED row
<1> USE DEF vars, db, live, guard, host, bounds
<1>1. \A p \in Procs : Apply(p) \/ ApplyFail(p) => ApplyPersist(p) \/ UNCHANGED row
  BY DEF Apply, ApplyPartial, ApplyPending, ApplyProject, ApplySave, ApplyFinish,
         ApplyFail
<1>2. \A p \in Procs : Stop(p) \/ StopFail(p) \/ StopFind(p)
                         => StopCancelling(p) \/ UNCHANGED row
  BY DEF Stop, StopFind, StopFound, StopCommand, StopEndResponse, StopReconcile,
         StopFail, StopEnd
<1>3. \A p \in Procs : Launch(p) \/ LaunchClaim(p) => LaunchCreate(p) \/ UNCHANGED row
  BY DEF Launch, LaunchClaim, LaunchStopped, LaunchHandoff, LaunchReclaim,
         LaunchFailClaim, LaunchRegister, LaunchSubmit, LaunchEnd
<1>4. \A p \in Procs :
        \/ Recover(p) \/ RecoveryStart(p) \/ Deliver(p) \/ AguiEnd(p)
        \/ UpstreamReturn(p) \/ UpstreamFailed(p) \/ Notify(p) \/ NotifyEnd(p)
        \/ TimeoutFire(p) \/ TimeoutForce(p) \/ TimeoutEnd(p)
        => UNCHANGED row
  BY DEF Recover, RecoveryStart, RecoveryNext, RecoveryReturn, RecoveryEnd, Deliver,
         AguiEnd, UpstreamReturn, UpstreamFailed, Notify, NotifyEnd, TimeoutFire,
         TimeoutForce, TimeoutEnd
<1>5. Crash \/ (\E r \in Runs : Expire(r)) \/ UNCHANGED vars => UNCHANGED row
  BY DEF Crash, Expire
<1> QED BY <1>1, <1>2, <1>3, <1>4, <1>5 DEF Next, Continue, Begin

(* A row that was created is never deleted. *)
LEMMA RowsStay ==
  ASSUME IInv, [Next]_vars, NEW r \in Runs, row[r] # "absent"
  PROVE  row'[r] # "absent"
<1>t. row \in [Runs -> {"absent"} \cup Active \cup Terminal]
  BY DEF IInv, TypeInv, TypeOK
<1>1. ASSUME NEW p \in Procs, ApplyPersist(p) \/ StopCancelling(p)
      PROVE  row'[r] # "absent"
  <2>1. \E m \in Applied \cup {"cancelling"} :
          row' = [row EXCEPT ![task[p].run] = Mark(@, m)]
    BY <1>1 DEF ApplyPersist, StopCancelling, IInv, TypeInv, TypeOK, Task
  <2>2. \A m \in Applied \cup {"cancelling"} : Mark(row[r], m) # "absent"
    BY DEF Mark, StatusOf, Applied, WorkerMsgs, Terminal
  <2> QED BY <2>1, <2>2, <1>t
<1>2. ASSUME NEW p \in Procs, LaunchCreate(p)
      PROVE  row'[r] # "absent"
  BY <1>2, <1>t DEF LaunchCreate
<1> QED BY <1>1, <1>2, RowWriters

(* A step leaves a terminal row as it is, and a cancelling one cancelling or ended. *)
Forward(r) == /\ row[r] \in Terminal => row'[r] = row[r]
              /\ row[r] = "cancelling" => row'[r] \in {"cancelling"} \cup Terminal

LEMMA RowsForward == IInv /\ [Next]_vars => \A r \in Runs : Forward(r)
<1> SUFFICES ASSUME IInv, [Next]_vars PROVE \A r \in Runs : Forward(r)
  OBVIOUS
<1> USE DEF Forward
<1>t. /\ row \in [Runs -> {"absent"} \cup Active \cup Terminal]
      /\ \A p \in Procs : task[p].st \in Applied
      /\ \A p \in Procs : TaskInv(p)
  BY DEF IInv, CoreInv, TypeInv, TypeOK, Task
<1>1. ASSUME NEW m \in Applied \cup {"cancelling"}, NEW q \in Runs,
             row' = [row EXCEPT ![q] = Mark(@, m)]
      PROVE  \A r \in Runs : Forward(r)
  <2>1. /\ row[q] \in Terminal => Mark(row[q], m) = row[q]
        /\ row[q] = "cancelling" => Mark(row[q], m) \in {"cancelling"} \cup Terminal
    BY DEF Mark, StatusOf, Active, RunningMutable, Terminal, Applied, WorkerMsgs
  <2> QED BY <1>1, <1>t, <2>1
<1>2. ASSUME NEW p \in Procs, ApplyPersist(p) \/ StopCancelling(p)
      PROVE  \A r \in Runs : Forward(r)
  <2>1. task[p].run \in Runs
    BY <1>2 DEF IInv, TypeInv, TaskHasRun, RunPcs, ApplyPcs, ApplyPersist, StopCancelling
  <2> QED BY <1>1, <1>2, <1>t, <2>1 DEF ApplyPersist, StopCancelling
<1>3. ASSUME NEW p \in Procs, LaunchCreate(p)
      PROVE  \A r \in Runs : Forward(r)
  <2>1. row[p[2]] = "absent"
    BY <1>3, <1>t DEF LaunchCreate, TaskInv, LaunchInv, BeforeCreate
  <2>2. row' = row \/ row' = [row EXCEPT ![p[2]] = "queued"]
    BY <1>3 DEF LaunchCreate
  <2> QED BY <2>1, <2>2, <1>t DEF Terminal
<1>4. CASE UNCHANGED row
  BY <1>4
<1>5. \/ \E p \in Procs : ApplyPersist(p) \/ StopCancelling(p) \/ LaunchCreate(p)
      \/ UNCHANGED row
  BY RowWriters
<1> QED BY <1>2, <1>3, <1>4, <1>5

(* Rows only move forward, whatever is applied late and however often: the one
   write without a where clause is createRun, and it finds no row. *)
THEOREM RowsAreMonotone == Spec => RowIsMonotone
<1>1. Spec => [][\A r \in Runs : Forward(r)]_vars
  BY RowsForward, IInvCorrect, PTL DEF Spec
<1> QED BY <1>1 DEF RowIsMonotone, Forward
=============================================================================
