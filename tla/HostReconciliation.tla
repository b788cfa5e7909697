------------------------- MODULE HostReconciliation -------------------------
(***************************************************************************)
(* What happens when a registered Runtime Host connects: the server reaps  *)
(* the runs of its former process, binds the connection, and then compares *)
(* what the Host still holds with the database before it lets a run be     *)
(* submitted (host-tunnel.handler.ts, runtime-host-reconciliation.         *)
(* coordinator.ts, run-recovery.service.ts, workspace.service.ts and       *)
(* user.service.ts of the server).  Meanwhile runs end, workspaces are     *)
(* deleted, the user is disabled and enabled again, and connections break. *)
(*                                                                         *)
(* One registered Host and one user, whose Workers have workspace scope.   *)
(* The Host's own steps are in RuntimeHost, the tunnel's upward direction  *)
(* in HostTunnel: here the Host answers a request in one step.  A          *)
(* connection registers once, so an epoch is named by its connection.      *)
(***************************************************************************)
EXTENDS Naturals, Sequences, FiniteSets

CONSTANTS
    Runs,       \* runs, each launched at most once
    Spaces,     \* workspaces
    SpaceOf,    \* the workspace of a run
    NoRun, NoSpace,
    MaxVersion, \* bound of the user's sessionVersion
    MaxConns,   \* bound of the connections the Host opens
    MaxMishaps  \* bound of what goes wrong, see mishaps

ASSUME ReconciliationAssumption ==
    /\ SpaceOf \in [Runs -> Spaces]
    /\ NoRun \notin Runs /\ NoSpace \notin Spaces
    /\ MaxVersion \in Nat \ 0..1 /\ MaxConns \in Nat /\ MaxMishaps \in Nat

Conns == 1..MaxConns
None == 0  \* no connection, no process

SpaceTarget(s) == [kind |-> "workspace", space |-> s, version |-> 0]
UserTarget(v) == [kind |-> "user", space |-> NoSpace, version |-> v]
NoTarget == [kind |-> "none", space |-> NoSpace, version |-> 0]
Targets == {SpaceTarget(s) : s \in Spaces} \cup {UserTarget(v) : v \in 1..MaxVersion}
Workers == [space : Spaces, version : 1..MaxVersion]
Cleanups == [worker : Workers, target : Targets]

VARIABLES
    (* database *)
    user,      \* the user's sessionVersion and whether it is active
    deleted,   \* the deleted workspaces
    row,       \* a run's row: none, active, ended
    version,   \* the sessionVersion its launch has read
    stored,    \* processInstanceId of the Host's row
    (* server *)
    launching, \* runs whose row is written and submitRun not yet called
    notices,   \* the versions whose release RunUserListener has still to ask
    open,      \* connections whose server end is open
    registering, \* the handler of a register message: no, list, reap, over
    zombies,   \* the runs it has still to fail
    bound,     \* HostTunnelHandler.connections
    epoch,     \* HostTunnelHandler.hostSessions
    admission, \* its admissionPhase
    attempt,   \* the coordinator's attempt for an epoch
    (* network and Host *)
    socket,    \* the Host's connection
    wire,      \* requests on their way to the Host, over its bound connection
    process,   \* the Host's process instance
    madeBy,    \* the process that opened a connection
    held,      \* the sessions of runs
    workers,   \* the pool
    tomb, revoked, maxSeen, \* deletedWorkspaceIds, revokedThrough, maxObserved
    pending,   \* the ledger: instances whose cleanup has failed, with their release
    (* history and bound *)
    acceptedBy, \* the process that accepted a run
    owed,      \* what the Host had to give back when it was bound
    reapLost,  \* the reaping of a former process has failed
    mishaps    \* connections broken, crashes, cleanups and reaps that failed, answers
               \* slower than their timeout

dbVars == <<user, deleted, row, version, stored>>
connVars == <<open, registering, zombies, bound, epoch, admission>>
serverVars == <<launching, notices, connVars, attempt>>
hostVars == <<held, workers, tomb, revoked, maxSeen, pending>>
netVars == <<socket, wire, process, madeBy>>
history == <<acceptedBy, owed, reapLost>>
vars == <<dbVars, serverVars, hostVars, netVars, history, mishaps>>

(* The Worker of a run.                                                    *)
WorkerOf(r) == [space |-> SpaceOf[r], version |-> version[r]]

NoClaims == [spaces |-> {}, user |-> FALSE, pending |-> {}]
NoAttempt == [at |-> "none", todo |-> {}, waiting |-> FALSE, failed |-> FALSE,
              claims |-> NoClaims]
Begun == [NoAttempt EXCEPT !.at = "runs"]
NothingOwed == [runs |-> {}, workers |-> {}, spaces |-> {}, version |-> 0, cleanups |-> {}]

(* The Host is offline.  Its process may have accepted runs over an earlier*)
(* connection, and then another process may have taken its place.  The user*)
(* has changed since: of another role or enabled again, or disabled, and   *)
(* the listener's release is still to be asked, or the Host has had it and *)
(* failed to clean up a Worker.                                            *)
Init ==
    /\ user \in [version : {2}, active : BOOLEAN]
    /\ stored = 1 /\ process \in {1, 2}
    /\ acceptedBy \in [Runs -> {None, 1}]
    /\ process = 1 \/ \E r \in Runs : acceptedBy[r] = 1
    /\ held = {r \in Runs : acceptedBy[r] = process}
    /\ deleted = {}
    /\ row = [r \in Runs |-> IF acceptedBy[r] = 1 THEN "active" ELSE "none"]
    /\ version = acceptedBy
    /\ workers = {[space |-> SpaceOf[r], version |-> 1] : r \in held}
    /\ \/ pending = {} /\ revoked = 0
       \/ /\ ~user.active /\ process = 1 /\ revoked = user.version
          /\ \A r \in Runs : acceptedBy[r] = None
          /\ \E s \in Spaces :
                pending = {[worker |-> [space |-> s, version |-> 1], target |-> UserTarget(2)]}
    /\ maxSeen = IF held \cup pending = {} THEN 0 ELSE 1
    /\ tomb = {}
    /\ launching = {}
    /\ notices = IF user.active \/ revoked = 2 THEN {} ELSE {2}
    /\ open = {} /\ bound = None /\ epoch = None /\ admission = "none"
    /\ registering = [c \in Conns |-> "no"]
    /\ zombies = [c \in Conns |-> {}]
    /\ attempt = [c \in Conns |-> NoAttempt]
    /\ socket = None /\ wire = << >>
    /\ madeBy = [c \in Conns |-> None]
    /\ owed = NothingOwed
    /\ reapLost = FALSE
    /\ mishaps = 0

Mishap == mishaps < MaxMishaps /\ mishaps' = mishaps + 1

-----------------------------------------------------------------------------
(* Requests.  from is the attempt that waits for the answer, if any.       *)

Request(kind, from, r, t) == [kind |-> kind, from |-> from, run |-> r, target |-> t]
Free(r) == Request("releaseRun", None, r, NoTarget)

(* What the server writes gets to the Host only over a connection that is  *)
(* alive at both ends; a half-open one swallows it.                        *)
(* (Mutant: it arrives over the next one.)                                 *)
SentLater(m) == Append(wire, m)
Sent(m) == IF bound = socket /\ bound # None THEN Append(wire, m) ELSE wire

(* sendNotification: nothing is written without an open connection.        *)
Notified(m) == IF bound \in open THEN Sent(m) ELSE wire

(* sendRequest of an attempt in the state a: without an open connection it *)
(* fails at once.                                                          *)
Call(c, a, m) ==
    IF bound \in open
    THEN /\ wire' = Sent(m)
         /\ attempt' = [attempt EXCEPT ![c] = [a EXCEPT !.waiting = TRUE]]
    ELSE /\ wire' = wire
         /\ attempt' = [attempt EXCEPT ![c] = [a EXCEPT !.failed = TRUE]]

(* The requests that wait fail.                                            *)
Rejected(a) == IF a.waiting THEN [a EXCEPT !.waiting = FALSE, !.failed = TRUE] ELSE a

(* listActiveIds: a workspace is active when neither it is deleted nor its *)
(* user inactive.                                                          *)
Withdrawn(s) == s \in deleted \/ ~user.active

(* The claims of the Host, as far as the server reads them.                *)
Claims == [spaces |-> {SpaceOf[r] : r \in held} \cup {w.space : w \in workers},
           user |-> held \cup workers # {},
           pending |-> {p.target : p \in pending}]

(* What the Host must give back: sessions of runs that have ended, of its  *)
(* Workers those of a deleted workspace, and those up to the version of a  *)
(* disabled user, and instances whose cleanup has failed.                  *)
Owed == [runs |-> {r \in held : row[r] = "ended"},
         workers |-> workers,
         spaces |-> deleted,
         version |-> IF user.active THEN 0 ELSE user.version,
         cleanups |-> pending]

-----------------------------------------------------------------------------
(* Users, workspaces and runs.                                             *)

(* The launch has read the workspace and its user and has written the row. *)
Launch(r) ==
    /\ row[r] = "none" /\ user.active /\ SpaceOf[r] \notin deleted
    /\ row' = [row EXCEPT ![r] = "active"]
    /\ version' = [version EXCEPT ![r] = user.version]
    /\ launching' = launching \cup {r}
    /\ UNCHANGED <<user, deleted, stored, notices, connVars, attempt, hostVars, netVars,
                   history, mishaps>>

(* submitToHost: refused by the gate of sendRequest, the run fails; sent,  *)
(* the answer is in Handle.                                                *)
Submit(r) ==
    /\ r \in launching
    /\ launching' = launching \ {r}
    /\ IF bound \in open /\ admission = "ready"
       THEN wire' = Sent(Request("submitRun", None, r, NoTarget)) /\ UNCHANGED row
       ELSE row' = [row EXCEPT ![r] = "ended"] /\ UNCHANGED wire
    /\ UNCHANGED <<user, deleted, version, stored, notices, connVars, attempt, hostVars,
                   socket, process, madeBy, history, mishaps>>

(* A run ends: by itself, stopped, timed out, or its submission unanswered.*)
(* The Host is not told here: a releaseRun that arrives leaves nothing to  *)
(* reconcile, and those of ReapNext and Cancel are under way as well.      *)
EndRun(r) ==
    /\ row[r] = "active"
    /\ row' = [row EXCEPT ![r] = "ended"]
    /\ UNCHANGED <<user, deleted, version, stored, serverVars, hostVars, netVars, history,
                   mishaps>>

(* WorkspaceService.delete, and the release that RunWorkspaceListener asks:*)
(* best effort, an offline Host does not get it.                           *)
DeleteSpace(s) ==
    /\ s \notin deleted
    /\ deleted' = deleted \cup {s}
    /\ wire' = Notified(Request("releaseResources", None, NoRun, SpaceTarget(s)))
    /\ UNCHANGED <<user, row, version, stored, serverVars, hostVars, socket, process, madeBy,
                   history, mishaps>>

(* UserService.update: the version grows with every change.                *)
Disable ==
    /\ user.active /\ user.version < MaxVersion
    /\ user' = [version |-> user.version + 1, active |-> FALSE]
    /\ notices' = notices \cup {user.version + 1}
    /\ UNCHANGED <<deleted, row, version, stored, launching, connVars, attempt, hostVars,
                   netVars, history, mishaps>>

Enable ==
    /\ ~user.active /\ user.version < MaxVersion
    /\ user' = [version |-> user.version + 1, active |-> TRUE]
    /\ owed' = [owed EXCEPT !.version = 0]
    /\ UNCHANGED <<deleted, row, version, stored, serverVars, hostVars, netVars, acceptedBy,
                   reapLost, mishaps>>

(* RunUserListener, when the stops are over: best effort.                  *)
AskRelease(v) ==
    /\ v \in notices
    /\ notices' = notices \ {v}
    /\ wire' = Notified(Request("releaseResources", None, NoRun, UserTarget(v)))
    /\ UNCHANGED <<dbVars, launching, connVars, attempt, hostVars, socket, process, madeBy,
                   history, mishaps>>

-----------------------------------------------------------------------------
(* Connections.                                                            *)

(* The Host opens its next connection; register goes out with it.          *)
Dial(c) ==
    /\ socket = None
    /\ \A d \in Conns : (madeBy[d] # None) = (d < c)
    /\ socket' = c
    /\ open' = open \cup {c}
    /\ madeBy' = [madeBy EXCEPT ![c] = process]
    /\ UNCHANGED <<dbVars, launching, notices, registering, zombies, bound, epoch, admission,
                   attempt, wire, process, hostVars, history, mishaps>>

(* A process is a new one when the stored instance differs.                *)
(* (Mutant: nobody looks.)                                                 *)
NeverAnother(c) == FALSE
Another(c) == stored \notin {None, madeBy[c]}

(* markRegistered stores the instance and returns the one before.          *)
Register(c) ==
    /\ c \in open /\ registering[c] = "no"
    /\ stored' = madeBy[c]
    /\ registering' = [registering EXCEPT ![c] = IF Another(c) THEN "list" ELSE "reap"]
    /\ UNCHANGED <<user, deleted, row, version, launching, notices, open, zombies, bound,
                   epoch, admission, attempt, hostVars, netVars, history, mishaps>>

(* reapActiveRuns: read the active runs, then fail them one by one.        *)
ReapList(c) ==
    /\ registering[c] = "list"
    /\ registering' = [registering EXCEPT ![c] = "reap"]
    /\ zombies' = [zombies EXCEPT ![c] = {r \in Runs : row[r] = "active"}]
    /\ UNCHANGED <<dbVars, launching, notices, open, bound, epoch, admission, attempt,
                   hostVars, netVars, history, mishaps>>

ReapNext(c, r) ==
    /\ r \in zombies[c]
    /\ zombies' = [zombies EXCEPT ![c] = @ \ {r}]
    /\ row' = [row EXCEPT ![r] = "ended"]
    /\ wire' = Notified(Free(r))
    /\ UNCHANGED <<user, deleted, version, stored, launching, notices, open, registering,
                   bound, epoch, admission, attempt, hostVars, socket, process, madeBy,
                   history, mishaps>>

(* The database fails under the reaping: the handshake goes no further.    *)
ReapFails(c) ==
    /\ registering[c] = "list" \/ zombies[c] # {}
    /\ Mishap
    /\ registering' = [registering EXCEPT ![c] = "over"]
    /\ zombies' = [zombies EXCEPT ![c] = {}]
    /\ reapLost' = TRUE
    /\ UNCHANGED <<dbVars, launching, notices, open, bound, epoch, admission, attempt,
                   hostVars, netVars, acceptedBy, owed>>

(* The connection is bound, whatever became of it meanwhile; the one before*)
(* is closed; a new epoch and its first attempt begin, the retry timer of  *)
(* another epoch is cleared.                                               *)
Bind(c) ==
    /\ registering[c] = "reap" /\ zombies[c] = {}
    /\ registering' = [registering EXCEPT ![c] = "over"]
    /\ bound' = c /\ epoch' = c /\ admission' = "reconciling"
    /\ open' = open \ {bound}
    /\ socket' = IF socket = bound THEN None ELSE socket
    /\ wire' = << >>
    /\ attempt' = [d \in Conns |-> IF d = c THEN Begun
                                   ELSE IF attempt[d].at = "retry" THEN NoAttempt ELSE attempt[d]]
    /\ owed' = Owed
    /\ UNCHANGED <<dbVars, launching, notices, zombies, process, madeBy, hostVars, acceptedBy,
                   reapLost, mishaps>>

(* registerTimer: a connection that is not bound in time is closed.        *)
RegisterTimeout(c) ==
    /\ c \in open /\ bound # c
    /\ registering[c] = "over"
    /\ open' = open \ {c}
    /\ socket' = IF socket = c THEN None ELSE socket
    /\ UNCHANGED <<dbVars, launching, notices, registering, zombies, bound, epoch, admission,
                   attempt, wire, process, madeBy, hostVars, history, mishaps>>

(* The Host's end is gone: nothing under way arrives.                      *)
Break ==
    /\ socket # None /\ Mishap
    /\ socket' = None /\ wire' = << >>
    /\ owed' = NothingOwed
    /\ UNCHANGED <<dbVars, serverVars, process, madeBy, hostVars, acceptedBy, reapLost>>

(* The close event, at the latest when the watchdog terminates a half-open *)
(* connection: of the bound one, every request that waits is rejected.     *)
ServerClose(c) ==
    /\ c \in open /\ socket # c
    /\ open' = open \ {c}
    /\ IF bound = c
       THEN /\ bound' = None
            /\ attempt' = [d \in Conns |-> Rejected(attempt[d])]
       ELSE UNCHANGED <<bound, attempt>>
    /\ UNCHANGED <<dbVars, launching, notices, registering, zombies, epoch, admission, netVars,
                   hostVars, history, mishaps>>

(* The Host's process dies and another one starts with nothing.            *)
HostCrash ==
    /\ Mishap
    /\ process' = process + 1
    /\ socket' = None /\ wire' = << >>
    /\ held' = {} /\ workers' = {} /\ tomb' = {} /\ revoked' = 0 /\ maxSeen' = 0
    /\ pending' = {}
    /\ owed' = NothingOwed
    /\ UNCHANGED <<dbVars, serverVars, madeBy, acceptedBy, reapLost>>

(* The server dies and starts again: its memory is empty and it fails the  *)
(* active runs before Hosts connect (failInterruptedRuns).                 *)
ServerCrash ==
    /\ Mishap
    /\ row' = [r \in Runs |-> IF row[r] = "active" THEN "ended" ELSE row[r]]
    /\ launching' = {} /\ notices' = {} /\ open' = {}
    /\ registering' = [c \in Conns |-> IF madeBy[c] = None THEN "no" ELSE "over"]
    /\ zombies' = [c \in Conns |-> {}]
    /\ bound' = None /\ epoch' = None /\ admission' = "none"
    /\ attempt' = [c \in Conns |-> NoAttempt]
    /\ socket' = None /\ wire' = << >>
    /\ owed' = NothingOwed
    /\ UNCHANGED <<user, deleted, version, stored, process, madeBy, hostVars, acceptedBy,
                   reapLost>>

-----------------------------------------------------------------------------
(* The attempt of an epoch.  It is checked to be current only between its  *)
(* stages: a stage that has begun goes on to its end.                      *)

IdleAt(c, stage) == attempt[c].at = stage /\ ~attempt[c].waiting
Unhindered(c, stage) == IdleAt(c, stage) /\ attempt[c].todo = {} /\ ~attempt[c].failed
Current(c) == epoch = c

AttemptFrame == UNCHANGED <<dbVars, launching, notices, connVars, socket, process, madeBy,
                            hostVars, history, mishaps>>

(* host.listRunIds                                                         *)
AskRuns(c) ==
    /\ Unhindered(c, "runs")
    /\ Call(c, attempt[c], Request("listRunIds", c, NoRun, NoTarget))
    /\ AttemptFrame

(* findRuntimeReconciliationRows: the runs that are not active are to go.  *)
ReadRows(c) ==
    /\ attempt[c].at = "rows"
    /\ attempt' = [attempt EXCEPT ![c].at = "cancel",
                                  ![c].todo = {r \in @ : row[r] # "active"}]
    /\ UNCHANGED wire
    /\ AttemptFrame

(* cleanupRemoteRun: host.command with a cancel, then releaseRun (Handle). *)
CancelNext(c, r) ==
    /\ IdleAt(c, "cancel") /\ r \in attempt[c].todo
    /\ Call(c, [attempt[c] EXCEPT !.todo = @ \ {r}], Request("cancel", c, r, NoTarget))
    /\ AttemptFrame

(* host.listLifecycleClaims                                                *)
AskClaims(c) ==
    /\ Unhindered(c, "cancel") /\ Current(c)
    /\ Call(c, [attempt[c] EXCEPT !.at = "claims"], Request("listClaims", c, NoRun, NoTarget))
    /\ AttemptFrame

(* The workspaces to release: those a release is pending for, and those    *)
(* among the claims that are deleted or whose user is not active.          *)
SpacesToRelease(k) ==
    {t \in k.pending : t.kind = "workspace"} \cup {SpaceTarget(s) : s \in {x \in k.spaces : Withdrawn(x)}}

(* The user releases: the pending ones, and the user's version when it is  *)
(* not active.                                                             *)
UsersToRelease(k) ==
    {t \in k.pending : t.kind = "user"}
      \cup {t \in {UserTarget(user.version)} : k.user /\ ~user.active}

(* WorkspaceService.reconcileRuntimeHostResources reads listActiveIds.     *)
ReadSpaces(c) ==
    /\ attempt[c].at = "claimed" /\ Current(c)
    /\ attempt' = [attempt EXCEPT ![c].at = "spaces", ![c].todo = SpacesToRelease(attempt[c].claims)]
    /\ UNCHANGED wire
    /\ AttemptFrame

(* UserService.reconcileRuntimeHostResources reads findInactiveSessionVersions. *)
ReadUsers(c) ==
    /\ Unhindered(c, "spaces") /\ Current(c)
    /\ attempt' = [attempt EXCEPT ![c].at = "users", ![c].claims = NoClaims,
                                  ![c].todo = UsersToRelease(attempt[c].claims)]
    /\ UNCHANGED wire
    /\ AttemptFrame

(* Both loops go on after a failure and report the first one at their end. *)
ReleaseNext(c, t) ==
    /\ IdleAt(c, "spaces") \/ IdleAt(c, "users")
    /\ t \in attempt[c].todo
    /\ Call(c, [attempt[c] EXCEPT !.todo = @ \ {t}], Request("releaseResources", c, NoRun, t))
    /\ AttemptFrame

(* markReconciled.  (Mutant: without the compare-and-set of the epoch.)    *)
MarksAny(c) == TRUE
Marks(c) == Current(c)

Reconciled(c) ==
    /\ Unhindered(c, "users")
    /\ attempt' = [attempt EXCEPT ![c] = NoAttempt]
    /\ admission' = IF Marks(c) THEN "ready" ELSE admission
    /\ UNCHANGED <<dbVars, launching, notices, open, registering, zombies, bound, epoch, netVars,
                   hostVars, history, mishaps>>

(* The stage has ended: everything tried, or its one request failed.       *)
StageEnded(c) ==
    /\ attempt[c].at \in {"runs", "cancel", "claims", "claimed", "spaces", "users"}
    /\ ~attempt[c].waiting /\ attempt[c].todo = {}
    /\ attempt[c].at \in {"runs", "claims"} => attempt[c].failed

(* Another epoch has begun: the attempt ends without a word.               *)
AttemptStale(c) ==
    /\ StageEnded(c) /\ ~Current(c)
    /\ attempt[c].at = "users" => attempt[c].failed
    /\ attempt' = [attempt EXCEPT ![c] = NoAttempt]
    /\ UNCHANGED wire
    /\ AttemptFrame

(* markReconcileFailed, and the next attempt is scheduled.                 *)
(* (Mutant: it is not.)                                                    *)
NotRescheduled == NoAttempt
Rescheduled == [NoAttempt EXCEPT !.at = "retry"]
AttemptFailed(c) ==
    /\ StageEnded(c) /\ attempt[c].failed /\ Current(c)
    /\ attempt' = [attempt EXCEPT ![c] = Rescheduled]
    /\ admission' = "reconcile_failed"
    /\ UNCHANGED <<dbVars, launching, notices, open, registering, zombies, bound, epoch, netVars,
                   hostVars, history, mishaps>>

(* The retry timer.                                                        *)
Retry(c) ==
    /\ attempt[c].at = "retry"
    /\ attempt' = [attempt EXCEPT ![c] = IF Current(c) THEN Begun ELSE NoAttempt]
    /\ UNCHANGED wire
    /\ AttemptFrame

(* The timer of a request: a dead connection has swallowed it, or the Host *)
(* is slower than the timeout and its answer will find nobody.             *)
RpcTimeout(c) ==
    LET mine == {i \in DOMAIN wire : wire[i].from = c} IN
    /\ attempt[c].waiting
    /\ IF mine = {} THEN UNCHANGED mishaps ELSE Mishap
    /\ attempt' = [attempt EXCEPT ![c] = Rejected(@)]
    /\ wire' = [i \in DOMAIN wire |-> IF i \in mine THEN [wire[i] EXCEPT !.from = None] ELSE wire[i]]
    /\ UNCHANGED <<dbVars, launching, notices, connVars, socket, process, madeBy, hostVars,
                   history>>

-----------------------------------------------------------------------------
(* The Host takes a request, in the order they were written, and answers.  *)

Takes(kind) == wire # << >> /\ Head(wire).kind = kind

(* The answer comes to the attempt that waits for it.                      *)
Answered(m, a) == IF m.from = None THEN attempt ELSE [attempt EXCEPT ![m.from] = a]
Waiter(m) == [attempt[m.from] EXCEPT !.waiting = FALSE]

HostFrame == UNCHANGED <<user, deleted, version, stored, launching, notices, connVars,
                         process, madeBy, owed, reapLost>>

ListRunIds ==
    LET m == Head(wire) IN
    /\ Takes("listRunIds")
    /\ wire' = Tail(wire)
    /\ attempt' = Answered(m, [Waiter(m) EXCEPT !.at = "rows", !.todo = held])
    /\ UNCHANGED <<row, socket, hostVars, acceptedBy, mishaps>>
    /\ HostFrame

ListClaims ==
    LET m == Head(wire) IN
    /\ Takes("listClaims")
    /\ wire' = Tail(wire)
    /\ attempt' = Answered(m, [Waiter(m) EXCEPT
           !.at = "claimed",
           !.claims = Claims])
    /\ UNCHANGED <<row, socket, hostVars, acceptedBy, mishaps>>
    /\ HostFrame

(* A cancel changes nothing here; its answer lets the server write         *)
(* releaseRun.                                                             *)
Cancel ==
    LET m == Head(wire) IN
    /\ Takes("cancel")
    /\ wire' = IF m.from = None THEN Tail(wire) ELSE Append(Tail(wire), Free(m.run))
    /\ attempt' = Answered(m, Waiter(m))
    /\ UNCHANGED <<row, socket, hostVars, acceptedBy, mishaps>>
    /\ HostFrame

ReleaseRun ==
    /\ Takes("releaseRun")
    /\ wire' = Tail(wire)
    /\ held' = held \ {Head(wire).run}
    /\ UNCHANGED <<row, attempt, socket, workers, tomb, revoked, maxSeen, pending, acceptedBy,
                   mishaps>>
    /\ HostFrame

(* The answer may be lost with the connection, what the Host did stays.    *)
AnswerLost == Mishap /\ socket' = None /\ wire' = << >> /\ UNCHANGED attempt

(* submitRun: refused for a released workspace or a revoked or superseded  *)
(* version, and then the run fails; accepted, it has its Worker.           *)
SubmitRun ==
    LET r == Head(wire).run
        v == version[r]
        admitted == SpaceOf[r] \notin tomb /\ v > revoked /\ v >= maxSeen IN
    /\ Takes("submitRun")
    /\ IF admitted
       THEN /\ held' = held \cup {r}
            /\ workers' = workers \cup {WorkerOf(r)}
            /\ maxSeen' = v
            /\ acceptedBy' = [acceptedBy EXCEPT ![r] = process]
       ELSE UNCHANGED <<held, workers, maxSeen, acceptedBy>>
    /\ \/ /\ wire' = Tail(wire)
          /\ row' = IF admitted THEN row ELSE [row EXCEPT ![r] = "ended"]
          /\ UNCHANGED <<attempt, socket, mishaps>>
       \/ AnswerLost /\ UNCHANGED row
    /\ UNCHANGED <<tomb, revoked, pending>>
    /\ HostFrame

(* What a release covers.  (Mutant: all versions of the user.)             *)
CoversUser(t, s, v) == IF t.kind = "workspace" THEN s = t.space ELSE TRUE
Covers(t, s, v) == IF t.kind = "workspace" THEN s = t.space ELSE v <= t.version
SameTarget(p, t) == p.target.kind = t.kind /\ p.target.space = t.space /\ p.target.version <= t.version

Largest(a, b) == IF a > b THEN a ELSE b

(* releaseResources: the fence first; then what an earlier release could   *)
(* not clean up, then the sessions, then the Workers.  The first cleanup   *)
(* that fails ends it, and stays in the ledger.                            *)
ReleaseResources ==
    LET m == Head(wire)
        t == m.target
        again == {p \in pending : SameTarget(p, t)}
        ended == {r \in held : Covers(t, SpaceOf[r], version[r])}
        going == {w \in workers : Covers(t, w.space, w.version)} IN
    /\ Takes("releaseResources")
    /\ tomb' = IF t.kind = "workspace" THEN tomb \cup {t.space} ELSE tomb
    /\ revoked' = IF t.kind = "user" THEN Largest(revoked, t.version) ELSE revoked
    /\ \/ /\ pending' = pending \ again /\ held' = held \ ended /\ workers' = workers \ going
          /\ \/ /\ attempt' = Answered(m, Waiter(m))
                /\ wire' = Tail(wire)
                /\ UNCHANGED <<socket, mishaps>>
             \/ AnswerLost
       \/ /\ Mishap /\ UNCHANGED socket
          /\ attempt' = Answered(m, [Waiter(m) EXCEPT !.failed = TRUE])
          /\ wire' = Tail(wire)
          /\ \/ \E p \in again, S \in SUBSET again :
                    pending' = (pending \ S) \cup {p} /\ UNCHANGED <<held, workers>>
             \/ \E w \in going, S \in SUBSET going :
                    /\ pending' = (pending \ again) \cup {[worker |-> w, target |-> t]}
                    /\ workers' = (workers \ S) \ {w}
                    /\ held' = held \ ended
    /\ UNCHANGED <<row, maxSeen, acceptedBy>>
    /\ HostFrame

-----------------------------------------------------------------------------
Connecting(c) ==
    \/ Dial(c) \/ Register(c) \/ ReapList(c) \/ Bind(c) \/ ServerClose(c) \/ RegisterTimeout(c)
    \/ \E r \in Runs : ReapNext(c, r)
Attempting(c) ==
    \/ AskRuns(c) \/ ReadRows(c) \/ AskClaims(c) \/ ReadSpaces(c) \/ ReadUsers(c) \/ Reconciled(c)
    \/ AttemptStale(c) \/ AttemptFailed(c) \/ Retry(c) \/ RpcTimeout(c)
    \/ \E r \in Runs : CancelNext(c, r)
    \/ \E t \in Targets : ReleaseNext(c, t)
Handle == ListRunIds \/ ListClaims \/ Cancel \/ ReleaseRun \/ SubmitRun \/ ReleaseResources

Next ==
    \/ \E r \in Runs : Launch(r) \/ Submit(r) \/ EndRun(r)
    \/ \E s \in Spaces : DeleteSpace(s)
    \/ Disable \/ Enable
    \/ \E v \in notices : AskRelease(v)
    \/ \E c \in Conns : Connecting(c) \/ Attempting(c) \/ ReapFails(c)
    \/ Handle \/ Break \/ HostCrash \/ ServerCrash

Spec == Init /\ [][Next]_vars

(* The Host dials and the server takes its handshake; and, however often an*)
(* attempt fails, requests are answered and timers fire.                   *)
Working == Handle \/ \E c \in Conns : Attempting(c)
FairSpec == Spec /\ WF_vars(Working) /\ WF_vars(\E c \in Conns : Connecting(c))

-----------------------------------------------------------------------------
(* Every variable has its type, and requests are under way only on a live  *)
(* bound connection.                                                       *)
TypeOK ==
    /\ user \in [version : 1..MaxVersion, active : BOOLEAN]
    /\ deleted \subseteq Spaces
    /\ row \in [Runs -> {"none", "active", "ended"}]
    /\ version \in [Runs -> 0..MaxVersion]
    /\ stored \in Nat /\ process \in Nat \ {0}
    /\ launching \subseteq Runs /\ notices \subseteq 1..MaxVersion
    /\ open \subseteq Conns
    /\ registering \in [Conns -> {"no", "list", "reap", "over"}]
    /\ zombies \in [Conns -> SUBSET Runs]
    /\ {bound, epoch, socket} \subseteq Conns \cup {None}
    /\ admission \in {"none", "reconciling", "ready", "reconcile_failed"}
    /\ \A c \in Conns :
         /\ attempt[c].at \in {"none", "runs", "rows", "cancel", "claims", "claimed", "spaces",
                               "users", "retry"}
         /\ attempt[c].todo \subseteq IF attempt[c].at \in {"spaces", "users"} THEN Targets ELSE Runs
         /\ attempt[c].claims \in [spaces : SUBSET Spaces, user : BOOLEAN, pending : SUBSET Targets]
    /\ \A i \in DOMAIN wire : /\ wire[i].from \in Conns \cup {None}
                              /\ wire[i].run \in Runs \cup {NoRun}
                              /\ wire[i].target \in Targets \cup {NoTarget}
    /\ wire # << >> => bound = socket /\ bound # None
    /\ madeBy \in [Conns -> Nat]
    /\ held \subseteq Runs /\ workers \subseteq Workers
    /\ tomb \subseteq Spaces /\ revoked \in 0..MaxVersion /\ maxSeen \in 0..MaxVersion
    /\ pending \subseteq Cleanups
    /\ acceptedBy \in [Runs -> Nat]
    /\ reapLost \in BOOLEAN /\ mishaps \in 0..MaxMishaps

(* A Host is opened to submissions only when nothing is left of what it    *)
(* held without right when it was bound: neither the session of a run that *)
(* has ended (or its release is already under way, before any submission), *)
(* nor a Worker of a deleted workspace or disabled user with its sessions, *)
(* nor an instance an earlier release failed to clean up, whatever broke   *)
(* or was retried.                                                         *)
ReadyMeansReconciled ==
    admission = "ready" /\ bound = epoch /\ bound = socket =>
        /\ \A r \in owed.runs \cap held : \E i \in DOMAIN wire : wire[i] = Free(r)
        /\ \A w \in owed.workers : w.space \in owed.spaces \/ w.version <= owed.version =>
             w \notin workers /\ \A r \in held : w # WorkerOf(r)
        /\ owed.cleanups \cap pending = {}

(* A run that is still active although the Host process that accepted it   *)
(* is gone has somebody who will fail it, from the moment the new process  *)
(* is known by the database (host-tunnel.handler.ts: no zombie run).       *)
NoZombie ==
    \A r \in Runs : row[r] = "active" /\ acceptedBy[r] \notin {None, process} /\ stored = process =>
        reapLost \/ \E c \in Conns : registering[c] = "list" \/ r \in zombies[c]

(* However late a release comes, it takes no session of a generation that  *)
(* was submitted after the user was enabled again.                         *)
LaterGenerationIsKept ==
    [][\A r \in held \ held' : \/ process' # process
                               \/ row[r] = "ended" \/ SpaceOf[r] \in tomb'
                               \/ version[r] < user.version]_vars

(* A Host that stays connected is opened to submissions in the end: an     *)
(* attempt that fails is made again, and neither lost answers nor attempts *)
(* of earlier epochs leave it waiting.                                     *)
Reconciles == []<>(socket # None => bound = socket /\ epoch = socket /\ admission = "ready")

(* "The first submission with a higher version after re-enabling enters a  *)
(* new generation" (docs/design/runtime-owner-boundary.md): a run of an    *)
(* active user in a workspace that is not deleted, submitted with the      *)
(* user's version, is not refused as a run of a released workspace.        *)
CurrentGenerationIsAdmitted ==
    LET r == Head(wire).run IN
    Takes("submitRun") /\ user.active /\ version[r] = user.version /\ SpaceOf[r] \notin deleted
        => SpaceOf[r] \notin tomb
=============================================================================
