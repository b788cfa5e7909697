---------------------------- MODULE RuntimeHost ----------------------------
(***************************************************************************)
(* The Runtime Host: the process on an execution machine that accepts the  *)
(* submissions of runs, shares Workers between them, launches a Worker     *)
(* when there is none, and gives everything of a workspace or of a user    *)
(* back when the server asks (apps/runtime/src/host/runtime-host.ts with   *)
(* WorkerPool, WorkerRegistry, HandshakeStore, RunSessionRegistry and      *)
(* CleanupLedger).                                                         *)
(*                                                                         *)
(* One user; a run is submitted at most once and launches at most one      *)
(* Worker, so a Worker, its launch, its provider instance and its entry of *)
(* the ledger are named by the run that launched it.                       *)
(*                                                                         *)
(* The Host is one event loop.  What the code does between two awaits is   *)
(* one action; the continuations of a settled promise (the actions of Turn)*)
(* run before the loop takes the next request, timer or provider callback, *)
(* which are therefore guarded by Quiet.                                   *)
(***************************************************************************)
EXTENDS Integers, FiniteSets

CONSTANTS
    Runs,       \* the runs, and the Workers they launch
    Spaces,     \* the workspaces
    Calls,      \* the calls of releaseResources
    SpaceOf,    \* the workspace of a run
    VersionOf,  \* the user's lifecycle version a run was submitted with
    UserScope,  \* the runs whose Worker is shared by the user's workspaces
    NoRun, NoSpace,
    MaxVersion, \* bound of the lifecycle versions
    MaxMishaps  \* bound of the failed cleanups and of the Workers stopped, fenced or exited

ASSUME PlacementAssumption ==
    /\ SpaceOf \in [Runs -> Spaces]
    /\ MaxVersion \in Nat \ {0}
    /\ VersionOf \in [Runs -> 1..MaxVersion]
    /\ UserScope \subseteq Runs
    /\ NoRun \notin Runs
    /\ NoSpace \notin Spaces
    /\ MaxMishaps \in Nat

VARIABLES
    call,       \* a submission: new, making its configuration, accepted, refused
    phase,      \* the session of a run
    cancelled,  \* the session is marked cancelled
    bound,      \* the Worker of the session
    wait,       \* the launch whose result the submission of a run waits for
    told,       \* the notification sent upstream for a run
    sent,       \* the run's user_message was dispatched to a Worker
    early,      \* a cancel arrived before the session was ready
    pool,       \* a Worker's entry: out of the pool, starting, ready
    active,     \* the runs of the entry, and by inversion runIndex
    acq,        \* where the launch of a Worker is
    acqSpaces,  \* the workspaces that wait for the launch
    started,    \* provider.start
    known,      \* the provider instance is known to the launch
    shake,      \* the handshake of the Worker
    off,        \* the launch attempt is cancelled
    res,        \* the result the submissions wait for
    why,        \* the release that cancelled the attempt
    inst,       \* the provider instance itself
    led,        \* the ledger's record of the instance: none, pending, running
    ledRel,     \* the release the record stands for
    tomb,       \* the released workspaces
    revoked, maxSeen, \* the user's revoked and highest lifecycle version
    rel,        \* the calls of releaseResources
    mishaps

runVars == <<call, phase, cancelled, bound, wait, told, sent, early>>
poolVars == <<pool, active>>
launchVars == <<acq, acqSpaces, started, known, shake, off, res, why, inst>>
ledgerVars == <<led, ledRel>>
fenceVars == <<tomb, revoked, maxSeen>>
vars == <<runVars, poolVars, launchVars, ledgerVars, fenceVars, rel, mishaps>>

WorkspaceTarget(s) == [kind |-> "workspace", space |-> s, version |-> 0]
UserTarget(v) == [kind |-> "user", space |-> NoSpace, version |-> v]
NoTarget == [kind |-> "none", space |-> NoSpace, version |-> 0]
Targets == {WorkspaceTarget(s) : s \in Spaces} \cup {UserTarget(v) : v \in 1..MaxVersion}

(* The reuse identity and generation of the Worker a run asks for.         *)
Key(r) == <<IF r \in UserScope THEN NoSpace ELSE SpaceOf[r], VersionOf[r]>>

(* The sessions a release ends: by workspace, or by user and generation.   *)
Covers(t, r) == \/ t.kind = "workspace" /\ SpaceOf[r] = t.space
                \/ t.kind = "user" /\ VersionOf[r] <= t.version

(* The Workers a release removes: the shared Worker of a user survives the *)
(* release of one of its workspaces.                                       *)
Removes(t, w) == Covers(t, w) /\ (t.kind = "workspace" => w \notin UserScope)

(* The first of two release contexts (attempt.release ??= release).        *)
Or(t, u) == IF t = NoTarget THEN u ELSE t

(* The records of the ledger that a release retries before it begins.      *)
Matches(t, w) ==
    IF ledRel[w] # NoTarget
    THEN /\ ledRel[w].kind = t.kind
         /\ ledRel[w].space = t.space
         /\ ledRel[w].version <= t.version
    ELSE Removes(t, w)

Launching(w) == acq[w] \in {"start", "handshake", "cleanup"}

IdleCall == [pc |-> "idle", target |-> NoTarget, todo |-> {}, on |-> NoRun]

Init ==
    /\ call = [r \in Runs |-> "new"]
    /\ phase = [r \in Runs |-> "none"]
    /\ cancelled = [r \in Runs |-> FALSE]
    /\ bound = [r \in Runs |-> NoRun]
    /\ wait = [r \in Runs |-> NoRun]
    /\ told = [r \in Runs |-> "nothing"]
    /\ sent = [r \in Runs |-> FALSE]
    /\ early = [r \in Runs |-> FALSE]
    /\ pool = [w \in Runs |-> "out"]
    /\ active = [w \in Runs |-> {}]
    /\ acq = [w \in Runs |-> "none"]
    /\ acqSpaces = [w \in Runs |-> {}]
    /\ started = [w \in Runs |-> "no"]
    /\ known = [w \in Runs |-> FALSE]
    /\ shake = [w \in Runs |-> "no"]
    /\ off = [w \in Runs |-> FALSE]
    /\ res = [w \in Runs |-> "open"]
    /\ why = [w \in Runs |-> NoTarget]
    /\ inst = [w \in Runs |-> "none"]
    /\ led = [w \in Runs |-> "none"]
    /\ ledRel = [w \in Runs |-> NoTarget]
    /\ tomb = {}
    /\ revoked = 0
    /\ maxSeen = 0
    /\ rel = [c \in Calls |-> IdleCall]
    /\ mishaps = 0

-----------------------------------------------------------------------------
(* Helpers shared by the operations: each gives the new value of what it   *)
(* names, for a set of runs or Workers.                                    *)

(* clearRunState: the sessions of R and their places in the pool go.       *)
Cleared(R) ==
    /\ phase' = [r \in Runs |-> IF r \in R THEN "none" ELSE phase[r]]
    /\ cancelled' = [r \in Runs |-> IF r \in R THEN FALSE ELSE cancelled[r]]
    /\ bound' = [r \in Runs |-> IF r \in R THEN NoRun ELSE bound[r]]

Associated(R) == active \* mutant: they stay in the pool
Dissociated(R) == [w \in Runs |-> active[w] \ R]

Tell(R, what) ==
    told' = [r \in Runs |-> IF r \notin R THEN told[r]
                            ELSE IF told[r] = "nothing" THEN what ELSE "twice"]

(* evict: out of the pool, a pending handshake is rejected.                *)
Evicted(W) ==
    /\ pool' = [w \in Runs |-> IF w \in W THEN "out" ELSE pool[w]]
    /\ shake' = [w \in Runs |-> IF w \in W /\ shake[w] = "pending"
                                THEN "rejected" ELSE shake[w]]

(* cleanupLedger.run: the record is written before the provider is called, *)
(* keeps the first release it was written for, and runs once at a time.    *)
Cleanup(W, t) ==
    /\ led' = [w \in Runs |-> IF w \in W THEN "running" ELSE led[w]]
    /\ ledRel' = [w \in Runs |-> IF w \notin W THEN ledRel[w]
                                 ELSE IF led[w] = "none" THEN t[w]
                                 ELSE Or(ledRel[w], t[w])]

(* A lifetime that settles takes the variables of its closure with it.     *)
Settled(W) ==
    /\ started' = [w \in Runs |-> IF w \in W THEN "no" ELSE started[w]]
    /\ shake' = [w \in Runs |-> IF w \in W THEN "no" ELSE shake[w]]
    /\ off' = [w \in Runs |-> w \notin W /\ off[w]]
    /\ why' = [w \in Runs |-> IF w \in W THEN NoTarget ELSE why[w]]

(* cancelAttempt for the launches W: the first cancellation evicts the     *)
(* Worker and rejects the result; a later one only adds its release.  An   *)
(* instance that is known is cleaned up, by a repeated call only when it   *)
(* carries a release.                                                      *)
CancelAttempts(W, t) ==
    LET fresh == {w \in W : ~off[w]}
        because == [w \in Runs |-> IF w \in fresh THEN t
                                    ELSE IF w \in W THEN Or(why[w], t) ELSE why[w]]
    IN /\ off' = [w \in Runs |-> w \in W \/ off[w]]
       /\ why' = because
       /\ Evicted(fresh)
       /\ res' = [w \in Runs |-> IF w \in fresh /\ res[w] = "open"
                                 THEN "rejected" ELSE res[w]]
       /\ Cleanup({w \in W : known[w] /\ (w \in fresh \/ t # NoTarget)}, because)

(* The instance that removing a Worker releases.                           *)
\* mutant: only when a run uses it
OwnedIfUsed(w, mode) == IF mode = "release" /\ active[w] # {} THEN {w} ELSE {}
Owned(w, mode) == IF mode = "release" /\ known[w] THEN {w} ELSE {}

(* removeWorker: evict, end the runs of the Worker, and unless it exited   *)
(* by itself release the instance if there is one.                         *)
RemoveWorker(w, mode, t) ==
    /\ Evicted({w})
    /\ Cleared(active[w])
    /\ Tell(active[w], "lost")
    /\ active' = [active EXCEPT ![w] = {}]
    /\ Cleanup(Owned(w, mode), [v \in Runs |-> t])
    /\ UNCHANGED <<call, wait, sent, early, acq, acqSpaces, started, known, off, res, why>>

(* A run is bound to its Worker, associated with it if it is still in the  *)
(* pool, and its first command is dispatched.                              *)
Bound(r, w) ==
    /\ bound' = [bound EXCEPT ![r] = w]
    /\ phase' = [phase EXCEPT ![r] = "ready"]
    /\ active' = [active EXCEPT ![w] = IF pool[w] # "out" THEN @ \cup {r} ELSE @]
    /\ sent' = [sent EXCEPT ![r] = TRUE]
    /\ UNCHANGED <<cancelled, told>>

(* onAcquired: a run cancelled meanwhile ends here, another is bound.      *)
OnAcquired(r, w) ==
    IF cancelled[r]
    THEN /\ Cleared({r})
         /\ Tell({r}, "cancelled")
         /\ active' = Dissociated({r})
         /\ UNCHANGED sent
    ELSE Bound(r, w)

-----------------------------------------------------------------------------
(* The continuations of settled promises.                                  *)

(* The lifetime of a launch goes on after provider.start.                  *)
LaunchStarted(w) ==
    /\ acq[w] = "start" /\ started[w] = "ok" /\ ~off[w]
    /\ acq' = [acq EXCEPT ![w] = "handshake"]
    /\ UNCHANGED <<runVars, poolVars, acqSpaces, started, known, shake, off, res, why, inst,
                   ledgerVars, fenceVars, rel, mishaps>>

(* After the handshake the Worker is ready and the result is resolved.     *)
LaunchReady(w) ==
    /\ acq[w] = "handshake" /\ shake[w] = "done" /\ ~off[w] /\ pool[w] # "out"
    /\ pool' = [pool EXCEPT ![w] = "ready"]
    /\ res' = [res EXCEPT ![w] = "resolved"]
    /\ acq' = [acq EXCEPT ![w] = "done"]
    /\ Settled({w})
    /\ UNCHANGED <<runVars, active, acqSpaces, known, inst, ledgerVars, fenceVars, rel, mishaps>>

\* mutant: a cancelled launch waits for its provider's failure
LaunchFailedItself(w) ==
    \/ acq[w] = "start" /\ started[w] = "failed"
    \/ acq[w] = "handshake" /\ shake[w] # "pending" /\ (shake[w] = "rejected" \/ off[w] \/ pool[w] = "out")
LaunchFailed(w) ==
    \/ acq[w] = "start" /\ started[w] # "pending" /\ (started[w] = "failed" \/ off[w])
    \/ acq[w] = "handshake" /\ shake[w] # "pending" /\ (shake[w] = "rejected" \/ off[w] \/ pool[w] = "out")

(* A launch that failed or was cancelled is rolled back; its result is     *)
(* rejected after the rollback, at once when no instance is known.         *)
LaunchFails(w) ==
    /\ LaunchFailed(w)
    /\ pool' = [pool EXCEPT ![w] = "out"]
    /\ IF known[w]
       THEN /\ acq' = [acq EXCEPT ![w] = "cleanup"]
            /\ off' = [off EXCEPT ![w] = TRUE]
            /\ shake' = [shake EXCEPT ![w] = "rejected"]
            /\ Cleanup({w}, why)
            /\ UNCHANGED <<res, started, why>>
       ELSE /\ acq' = [acq EXCEPT ![w] = "done"]
            /\ res' = [res EXCEPT ![w] = "rejected"]
            /\ Settled({w})
            /\ UNCHANGED ledgerVars
    /\ UNCHANGED <<runVars, active, acqSpaces, known, inst, fenceVars, rel, mishaps>>

(* The submission of a run resumes with the Worker.                        *)
Acquired(r) ==
    /\ wait[r] # NoRun /\ res[wait[r]] = "resolved"
    /\ wait' = [wait EXCEPT ![r] = NoRun]
    /\ IF phase[r] = "none"
       THEN UNCHANGED <<phase, cancelled, bound, told, sent, active>>
       ELSE OnAcquired(r, wait[r])
    /\ UNCHANGED <<call, early, pool, launchVars, ledgerVars, fenceVars, rel, mishaps>>

(* onAcquireFailed ends the run unless it was released meanwhile.          *)
EndedAnyway(r) == {r} \* mutant: also a run that was released
\* mutant: a cancelled run is left to its cancel
EndedIfNotCancelled(r) == IF phase[r] = "none" \/ cancelled[r] THEN {} ELSE {r}
Ended(r) == IF phase[r] = "none" THEN {} ELSE {r}

(* The submission of a run resumes with the failure of the launch.         *)
AcquireFailed(r) ==
    /\ wait[r] # NoRun /\ res[wait[r]] = "rejected"
    /\ wait' = [wait EXCEPT ![r] = NoRun]
    /\ Cleared(Ended(r))
    /\ Tell(Ended(r), "failed")
    /\ active' = Dissociated(Ended(r))
    /\ UNCHANGED <<call, sent, early, pool, launchVars, ledgerVars, fenceVars,
                   rel, mishaps>>

(* releaseResources first retries the matching records one after another.  *)
RetryNext(c) ==
    /\ rel[c].pc = "retry" /\ rel[c].on = NoRun
    /\ \E w \in rel[c].todo :
          /\ rel' = [rel EXCEPT ![c].todo = @ \ {w},
                                ![c].on = IF led[w] = "none" THEN NoRun ELSE w]
          /\ IF led[w] = "none"
             THEN UNCHANGED ledgerVars
             ELSE /\ led' = [led EXCEPT ![w] = "running"]
                  /\ ledRel' = [ledRel EXCEPT ![w] = Or(@, rel[c].target)]
    /\ UNCHANGED <<runVars, poolVars, launchVars, fenceVars, mishaps>>

(* The launches a release cancels.  A workspace takes its own waiters out  *)
(* of a shared launch, which goes on if another workspace waits for it.    *)
Cancels(t) ==
    {w \in Runs : /\ Launching(w)
                  /\ \/ t.kind = "user" /\ VersionOf[w] <= t.version
                     \/ /\ t.kind = "workspace" /\ t.space \in acqSpaces[w]
                        /\ w \notin UserScope \/ acqSpaces[w] = {t.space}}

(* Then it ends the sessions it covers and cancels the launches.           *)
ReleaseCancel(c) ==
    /\ rel[c].pc = "retry" /\ rel[c].on = NoRun /\ rel[c].todo = {}
    /\ LET t == rel[c].target
           ended == {r \in Runs : phase[r] # "none" /\ Covers(t, r)}
           detached(w) == t.kind = "workspace" /\ Launching(w) /\ t.space \in acqSpaces[w]
       IN /\ Cleared(ended)
          /\ Tell(ended, "cancelled")
          /\ active' = Dissociated(ended)
          /\ CancelAttempts(Cancels(t), t)
          /\ acqSpaces' = [w \in Runs |-> IF detached(w) THEN acqSpaces[w] \ {t.space} ELSE acqSpaces[w]]
          /\ rel' = [rel EXCEPT ![c].pc = "drain", ![c].todo = Cancels(t)]
    /\ UNCHANGED <<call, wait, sent, early, acq, started, known, inst, fenceVars, mishaps>>

(* When the cancelled launches have settled it lists the Workers to remove.*)
ReleaseDrained(c) ==
    /\ rel[c].pc = "drain"
    /\ \/ /\ \E w \in rel[c].todo : acq[w] = "broken"
          /\ rel' = [rel EXCEPT ![c].pc = "failed", ![c].todo = {}]
       \/ /\ \A w \in rel[c].todo : acq[w] = "done"
          /\ rel' = [rel EXCEPT ![c].pc = "remove",
                                ![c].todo = {w \in Runs : pool[w] # "out" /\ Removes(rel[c].target, w)}]
    /\ UNCHANGED <<runVars, poolVars, launchVars, ledgerVars, fenceVars, mishaps>>

(* It removes them one after another; a Worker gone meanwhile is skipped.  *)
RemoveNext(c) ==
    /\ rel[c].pc = "remove" /\ rel[c].on = NoRun
    /\ \E w \in rel[c].todo :
          IF pool[w] = "out"
          THEN /\ rel' = [rel EXCEPT ![c].todo = @ \ {w}]
               /\ UNCHANGED <<runVars, poolVars, launchVars, ledgerVars>>
          ELSE /\ rel' = [rel EXCEPT ![c].todo = @ \ {w},
                                     ![c].on = IF known[w] THEN w ELSE NoRun]
               /\ RemoveWorker(w, "release", rel[c].target)
               /\ UNCHANGED inst
    /\ UNCHANGED <<fenceVars, mishaps>>

ReleaseDone(c) ==
    /\ rel[c].pc = "remove" /\ rel[c].on = NoRun /\ rel[c].todo = {}
    /\ rel' = [rel EXCEPT ![c].pc = "acked"]
    /\ UNCHANGED <<runVars, poolVars, launchVars, ledgerVars, fenceVars, mishaps>>

Turn == \/ \E w \in Runs : LaunchStarted(w) \/ LaunchReady(w) \/ LaunchFails(w)
        \/ \E r \in Runs : Acquired(r) \/ AcquireFailed(r)
        \/ \E c \in Calls : \/ RetryNext(c) \/ ReleaseCancel(c) \/ ReleaseDrained(c)
                            \/ RemoveNext(c) \/ ReleaseDone(c)

(* Nothing is left to run in this turn of the event loop.                  *)
Quiet ==
    /\ \A w \in Runs : /\ ~(acq[w] = "start" /\ started[w] # "pending")
                       /\ ~(acq[w] = "handshake" /\ shake[w] # "pending")
    /\ \A r \in Runs : wait[r] # NoRun => res[wait[r]] = "open"
    /\ \A c \in Calls : /\ rel[c].pc \in {"retry", "remove"} => rel[c].on # NoRun
                        /\ rel[c].pc = "drain" =>
                              /\ \A w \in rel[c].todo : acq[w] # "broken"
                              /\ \E w \in rel[c].todo : acq[w] # "done"

-----------------------------------------------------------------------------
(* Requests of the server.                                                 *)

(* The admission of a submission: not into a released workspace, nor with  *)
(* a revoked lifecycle version or one below the highest seen.              *)
\* mutant: also into a released workspace
AdmittedAnywhere(r) == VersionOf[r] > revoked /\ VersionOf[r] >= maxSeen
Admitted(r) == /\ SpaceOf[r] \notin tomb
               /\ VersionOf[r] > revoked
               /\ VersionOf[r] >= maxSeen

(* submitRun reserves the session before anything asynchronous.            *)
Submit(r) ==
    /\ Quiet
    /\ call[r] = "new"
    /\ IF Admitted(r)
       THEN /\ call' = [call EXCEPT ![r] = "making"]
            /\ phase' = [phase EXCEPT ![r] = "configuring"]
            /\ maxSeen' = VersionOf[r]
       ELSE /\ call' = [call EXCEPT ![r] = "refused"]
            /\ UNCHANGED <<phase, maxSeen>>
    /\ UNCHANGED <<cancelled, bound, wait, told, sent, early, poolVars, launchVars, ledgerVars,
                   tomb, revoked, rel, mishaps>>

(* acquireWorkerOnce for a run with no ready Worker: join the launch of the *)
(* same identity and generation, or launch a Worker.                       *)
\* mutant: a launch that awaits its handshake is not joined
InFlightUnstarted(r) == {w \in Runs : acq[w] = "start" /\ Key(w) = Key(r)}
InFlight(r) == {w \in Runs : Launching(w) /\ Key(w) = Key(r)}
ReadyFor(r) == {w \in Runs : pool[w] = "ready" /\ Key(w) = Key(r)}

(* The workspaces a run adds to those that wait for a launch.              *)
WaitingByKey(r) == {Key(r)[1]} \* mutant: the subject of the Worker
Waiting(r) == {SpaceOf[r]}

Acquire(r) ==
    /\ phase' = [phase EXCEPT ![r] = "acquiring"]
    /\ IF InFlight(r) # {}
       THEN \E w \in InFlight(r) :
              /\ acqSpaces' = [acqSpaces EXCEPT ![w] = @ \cup Waiting(r)]
              /\ wait' = [wait EXCEPT ![r] = w]
              /\ UNCHANGED <<pool, acq, started, shake>>
       ELSE /\ wait' = [wait EXCEPT ![r] = r]
            /\ pool' = [pool EXCEPT ![r] = "starting"]
            /\ acq' = [acq EXCEPT ![r] = "start"]
            /\ acqSpaces' = [acqSpaces EXCEPT ![r] = Waiting(r)]
            /\ started' = [started EXCEPT ![r] = "pending"]
            /\ shake' = [shake EXCEPT ![r] = "pending"]
    /\ UNCHANGED <<cancelled, bound, told, sent, active>>

(* makeRunConfig has settled.  A run released meanwhile stops here.        *)
Configured(r) ==
    /\ Quiet
    /\ call[r] = "making"
    /\ call' = [call EXCEPT ![r] = "accepted"]
    /\ IF phase[r] = "none"
       THEN UNCHANGED <<phase, cancelled, bound, told, sent, wait, poolVars, acq, acqSpaces, started, shake>>
       ELSE IF ReadyFor(r) = {}
       THEN Acquire(r)
       ELSE \E w \in ReadyFor(r) :
              /\ OnAcquired(r, w)
              /\ UNCHANGED <<wait, pool, acq, acqSpaces, started, shake>>
    /\ UNCHANGED <<early, known, off, res, why, inst, ledgerVars, fenceVars, rel, mishaps>>

(* The placement is not supported or makeRunConfig rejects.                *)
ConfigFailed(r) ==
    /\ Quiet
    /\ call[r] = "making"
    /\ call' = [call EXCEPT ![r] = "refused"]
    /\ Cleared({r})
    /\ active' = Dissociated({r})
    /\ UNCHANGED <<wait, told, sent, early, pool, launchVars, ledgerVars, fenceVars,
                   rel, mishaps>>

(* command "cancel" before the session is ready marks it; later it is a    *)
(* command for the Worker and changes nothing here.                        *)
Cancel(r) ==
    /\ Quiet
    /\ phase[r] \in {"configuring", "acquiring"} /\ ~cancelled[r]
    /\ cancelled' = [cancelled EXCEPT ![r] = TRUE]
    /\ early' = [early EXCEPT ![r] = TRUE]
    /\ UNCHANGED <<call, phase, bound, wait, told, sent, poolVars, launchVars, ledgerVars,
                   fenceVars, rel, mishaps>>

ReleaseRun(r) ==
    /\ Quiet
    /\ phase[r] # "none"
    /\ Cleared({r})
    /\ active' = Dissociated({r})
    /\ UNCHANGED <<call, wait, told, sent, early, pool, launchVars, ledgerVars,
                   fenceVars, rel, mishaps>>

(* releaseResources: the fence is installed before the first await.        *)
Release(c, t) ==
    /\ Quiet
    /\ rel[c].pc = "idle"
    /\ IF t.kind = "workspace"
       THEN tomb' = tomb \cup {t.space} /\ UNCHANGED revoked
       ELSE revoked' = (IF t.version > revoked THEN t.version ELSE revoked) /\ UNCHANGED tomb
    /\ rel' = [rel EXCEPT ![c] = [pc |-> "retry", target |-> t, on |-> NoRun,
                                  todo |-> {w \in Runs : led[w] # "none" /\ Matches(t, w)}]]
    /\ UNCHANGED <<runVars, poolVars, launchVars, ledgerVars, maxSeen, mishaps>>

-----------------------------------------------------------------------------
(* The provider, the Worker processes and the timers.                      *)

(* onProvisioned: an instance that comes late is cleaned up at once.       *)
Provisioned(w) ==
    /\ Quiet
    /\ started[w] = "pending" /\ ~known[w]
    /\ known' = [known EXCEPT ![w] = TRUE]
    /\ inst' = [inst EXCEPT ![w] = "live"]
    /\ Cleanup(IF off[w] THEN {w} ELSE {}, why)
    /\ UNCHANGED <<runVars, poolVars, acq, acqSpaces, started, shake, off, res, why,
                   fenceVars, rel, mishaps>>

Started(w) ==
    /\ Quiet
    /\ started[w] = "pending"
    /\ started' = [started EXCEPT ![w] = "ok"]
    /\ known' = [known EXCEPT ![w] = TRUE]
    /\ inst' = [inst EXCEPT ![w] = IF @ = "none" THEN "live" ELSE @]
    /\ UNCHANGED <<runVars, poolVars, acq, acqSpaces, shake, off, res, why, ledgerVars,
                   fenceVars, rel, mishaps>>

StartFailed(w) ==
    /\ Quiet
    /\ started[w] = "pending"
    /\ started' = [started EXCEPT ![w] = "failed"]
    /\ UNCHANGED <<runVars, poolVars, acq, acqSpaces, known, shake, off, res, why, inst, ledgerVars,
                   fenceVars, rel, mishaps>>

(* registerWorker: the Worker process calls back with its token.           *)
Registered(w) ==
    /\ Quiet
    /\ shake[w] = "pending" /\ inst[w] = "live"
    /\ shake' = [shake EXCEPT ![w] = "done"]
    /\ UNCHANGED <<runVars, poolVars, acq, acqSpaces, started, known, off, res, why, inst, ledgerVars,
                   fenceVars, rel, mishaps>>

(* The launch timer, armed until the lifetime has settled.                 *)
TimedOut(w) ==
    /\ Quiet
    /\ Launching(w) /\ ~off[w]
    /\ CancelAttempts({w}, NoTarget)
    /\ UNCHANGED <<runVars, active, acq, acqSpaces, started, known, inst,
                   fenceVars, rel, mishaps>>

(* The Worker process ends by itself (onExit).                             *)
Exited(w) ==
    /\ Quiet
    /\ inst[w] = "live" /\ mishaps < MaxMishaps
    /\ inst' = [inst EXCEPT ![w] = "gone"]
    /\ mishaps' = mishaps + 1
    /\ IF pool[w] = "out"
       THEN UNCHANGED <<runVars, poolVars, acq, acqSpaces, started, known, shake, off, res, why, ledgerVars>>
       ELSE RemoveWorker(w, "exited", NoTarget)
    /\ UNCHANGED <<fenceVars, rel>>

(* stopWorker of an administrator, and the sweep that removes a ready      *)
(* Worker which was not seen for too long.                                 *)
Stopped(w) ==
    /\ Quiet
    /\ pool[w] # "out" /\ mishaps < MaxMishaps
    /\ mishaps' = mishaps + 1
    /\ RemoveWorker(w, "release", NoTarget)
    /\ UNCHANGED <<inst, fenceVars, rel>>

(* The sweep also retries the records that stand for no release.           *)
RetryCleanupOnly(w) ==
    /\ Quiet
    /\ led[w] = "pending" /\ ledRel[w] = NoTarget
    /\ led' = [led EXCEPT ![w] = "running"]
    /\ UNCHANGED <<runVars, poolVars, launchVars, ledRel, fenceVars, rel, mishaps>>

(* A launch that awaits its rollback settles with it.                      *)
RolledBack(w, how) ==
    IF acq[w] = "cleanup"
    THEN /\ acq' = [acq EXCEPT ![w] = how]
         /\ res' = [res EXCEPT ![w] = "rejected"]
         /\ Settled({w})
    ELSE UNCHANGED <<acq, res, started, shake, off, why>>

(* A cleanup succeeds: the record goes, everyone who awaited it goes on.   *)
CleanupDone(w) ==
    /\ Quiet
    /\ led[w] = "running"
    /\ led' = [led EXCEPT ![w] = "none"]
    /\ ledRel' = [ledRel EXCEPT ![w] = NoTarget]
    /\ inst' = [inst EXCEPT ![w] = "gone"]
    /\ RolledBack(w, "done")
    /\ rel' = [c \in Calls |-> IF rel[c].on = w THEN [rel[c] EXCEPT !.on = NoRun] ELSE rel[c]]
    /\ UNCHANGED <<runVars, poolVars, acqSpaces, known, fenceVars, mishaps>>

(* A cleanup fails: the record stays for a retry, every call of            *)
(* releaseResources that awaited it fails.                                 *)
CleanupFailed(w) ==
    /\ Quiet
    /\ led[w] = "running" /\ mishaps < MaxMishaps
    /\ mishaps' = mishaps + 1
    /\ led' = [led EXCEPT ![w] = "pending"]
    /\ RolledBack(w, "broken")
    /\ rel' = [c \in Calls |-> IF rel[c].on = w
                               THEN [rel[c] EXCEPT !.pc = "failed", !.on = NoRun, !.todo = {}] ELSE rel[c]]
    /\ UNCHANGED <<runVars, poolVars, acqSpaces, known, inst, ledRel, fenceVars>>

Next ==
    \/ Turn
    \/ \E r \in Runs : Submit(r) \/ Configured(r) \/ ConfigFailed(r) \/ Cancel(r) \/ ReleaseRun(r)
    \/ \E c \in Calls, t \in Targets : Release(c, t)
    \/ \E w \in Runs : \/ Provisioned(w) \/ Started(w) \/ StartFailed(w) \/ Registered(w)
                       \/ TimedOut(w) \/ Exited(w) \/ Stopped(w) \/ RetryCleanupOnly(w)
                       \/ CleanupDone(w) \/ CleanupFailed(w)

Spec == Init /\ [][Next]_vars

(* Fairness of the event loop and of what it waits for: continuations run, *)
(* a configuration is made or fails, launch timers fire, provider calls    *)
(* settle.  A Worker need never register and the server need never call.   *)
Due ==
    \/ Turn
    \/ \E r \in Runs : Configured(r) \/ ConfigFailed(r)
    \/ \E w \in Runs : TimedOut(w) \/ Started(w) \/ StartFailed(w) \/ CleanupDone(w) \/ CleanupFailed(w)

FairSpec == Spec /\ WF_vars(Due)

-----------------------------------------------------------------------------
(* What every reachable state looks like.                                  *)
TypeOK ==
    /\ call \in [Runs -> {"new", "making", "accepted", "refused"}]
    /\ phase \in [Runs -> {"none", "configuring", "acquiring", "ready"}]
    /\ cancelled \in [Runs -> BOOLEAN]
    /\ bound \in [Runs -> Runs \cup {NoRun}]
    /\ wait \in [Runs -> Runs \cup {NoRun}]
    /\ told \in [Runs -> {"nothing", "cancelled", "failed", "lost", "twice"}]
    /\ sent \in [Runs -> BOOLEAN]
    /\ early \in [Runs -> BOOLEAN]
    /\ pool \in [Runs -> {"out", "starting", "ready"}]
    /\ active \in [Runs -> SUBSET Runs]
    /\ acq \in [Runs -> {"none", "start", "handshake", "cleanup", "done", "broken"}]
    /\ acqSpaces \in [Runs -> SUBSET Spaces]
    /\ started \in [Runs -> {"no", "pending", "ok", "failed"}]
    /\ known \in [Runs -> BOOLEAN]
    /\ shake \in [Runs -> {"no", "pending", "done", "rejected"}]
    /\ off \in [Runs -> BOOLEAN]
    /\ res \in [Runs -> {"open", "resolved", "rejected"}]
    /\ why \in [Runs -> Targets \cup {NoTarget}]
    /\ inst \in [Runs -> {"none", "live", "gone"}]
    /\ led \in [Runs -> {"none", "pending", "running"}]
    /\ ledRel \in [Runs -> Targets \cup {NoTarget}]
    /\ tomb \subseteq Spaces
    /\ revoked \in 0..MaxVersion
    /\ maxSeen \in 0..MaxVersion
    /\ rel \in [Calls -> [pc : {"idle", "retry", "drain", "remove", "acked", "failed"},
                          target : Targets \cup {NoTarget}, todo : SUBSET Runs, on : Runs \cup {NoRun}]]
    /\ mishaps \in 0..MaxMishaps

(* A provider instance that is alive is never forgotten: a Worker of the   *)
(* pool has it, a launch that has not settled will roll it back, or the    *)
(* ledger holds a record for a retry.                                      *)
InstanceIsAccounted ==
    \A w \in Runs : inst[w] = "live" => pool[w] # "out" \/ Launching(w) \/ led[w] # "none"

(* A ready session names a Worker that is ready in the pool and lists the  *)
(* run, so its loss will be notified and its events are accepted; and a    *)
(* Worker lists no run whose session went another way.                     *)
ReadyIsBound ==
    \A r \in Runs :
        /\ phase[r] = "ready" => pool[bound[r]] = "ready" /\ r \in active[bound[r]]
        /\ \A w \in Runs : r \in active[w] => phase[r] = "ready" /\ bound[r] = w

(* Whatever ends a run on the Host (a release, a failed launch, a cancel,  *)
(* the loss of its Worker), the server hears of it once.                   *)
EndsOnce ==
    \A r \in Runs :
        /\ told[r] # "twice"
        /\ told[r] # "nothing" => phase[r] = "none"

(* A run that was cancelled before it had a Worker is never started.       *)
CancelledNeverStarts == \A r \in Runs : early[r] => ~sent[r]

(* One identity and generation has one Worker.                             *)
OneWorkerPerKey ==
    \A v, w \in Runs : v # w /\ Key(v) = Key(w) /\ pool[v] # "out" => pool[w] = "out"

(* Once releaseResources has answered with success no session and no       *)
(* Worker that it covers is left on the Host or comes up later.            *)
ReleasedStaysEmpty ==
    \A c \in Calls : rel[c].pc = "acked" =>
        /\ \A r \in Runs : Covers(rel[c].target, r) => phase[r] = "none"
        /\ \A w \in Runs : Removes(rel[c].target, w) => pool[w] = "out"

(* A submitted run does not wait for ever: it is bound or it ends.         *)
SubmissionSettles == \A r \in Runs : phase[r] \in {"configuring", "acquiring"} ~> phase[r] \in {"none", "ready"}

(* releaseResources answers.                                               *)
ReleaseAnswers == \A c \in Calls : rel[c].pc # "idle" ~> rel[c].pc \in {"acked", "failed"}
=============================================================================
