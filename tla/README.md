# Formal models of agework

This directory holds TLA+ models of agework, the model-checking runs over them
and machine-checked proofs about them. Paths below are relative to the root of
the repository's source.

## 1. The system and its parts

A user's message becomes a *run*. The API server records it, submits it to a
*Runtime Host*, the Host lends it a *Worker*, the Worker starts a *Runner*
process, and the Runner drives an agent (Claude, Codex, an ACP agent). Events
and statuses of the run flow back the same way, over HTTP from Worker to Host
and over a WebSocket tunnel from a registered Host to the server (or by a plain
call when the Host is the one built into the server).

| Part | Code | State it keeps | Operations | Hard behaviour | What makes it correct |
|---|---|---|---|---|---|
| Run core | `apps/server/src/run` | rows of runs, live handles, timers, finalization guard, sequence cursors | launch, stop, steer, apply a status, time out, reap, recover | every routine awaits the database between reading and writing; five sources end a run | one finalizer, terminal rows stay, the conversation is given back, nothing lost |
| Conversation projection | `apps/server/src/conversation` | `runStatus`, `activeRunId`, `pendingUserAction` | claim, hand off, write as the owner, reconcile | compare-and-set against late writers | owned by a run that is going on, or free |
| Server end of the tunnel | `apps/server/src/runtime-host/gateway` | sessions, epochs, unacknowledged entries, chains per run, pending RPCs | register, receive, acknowledge, reap | reconnection while a message is still processed; cumulative acks over out-of-order completions | a fact is acknowledged only after it was processed; facts of a run in order |
| Host end of the tunnel | `apps/runtime/src/registered` | outbound buffer, epoch, socket | send, ack, replay, trim | replay after each registration, a cap | no fact is forgotten before its ack (up to the cap) |
| Host reconciliation | `apps/server/src/run/recovery` | attempts and back-off per connection | attempt, retry, mark reconciled | connection replaced during an attempt | no submission before reconciliation; it ends or is retried |
| Server administration | `apps/server/src/user`, `workspace` | users with a lifecycle version, workspaces | disable, enable, delete, reconcile | a Host that is offline while they change | what a Host holds without right is released before it is used again |
| Runtime Host | `apps/runtime/src/host` | sessions of runs, acquisitions, cleanup ledger, Workers | submit, command, release, lose a Worker | acquisition shared by several runs, cancel while acquiring | each accepted run ends with a fact; no instance is lost |
| Command mailbox | `apps/runtime/src/host/command-mailbox.ts` and the Worker's poll loop | queued commands, cursor, epoch | enqueue, poll, acknowledge, evict | at-least-once polling, late polls | each command handled once, in order |
| Worker and Runner manager | `apps/runtime/src/worker` | event queue, in-flight batch, Runner processes, deadlines | emit, post, retry, give up; fork, cancel, kill, exit | queue at its cap while posting; exit racing terminal message and deadline | order kept, terminal status not dropped; one terminal status per run |
| Agent adapters | `packages/adapters`, `packages/agent-acp`, `packages/agent-sdk` | pending approvals, translation state | prompt, cancel, ask, answer | answers after cancel, lines of one chunk | every request answered once, the outcome is the agent's |
| AG-UI thread runtime | `packages/react-ag-ui` | current run, messages | run, cancel, resume | events of an old run | events only for the current run |
| Providers, pages, configuration, events | `packages/runtime-*`, `apps/web`, `apps/desktop`, `auth`, `config`, `model-provider`, `run-event` | storage or none | CRUD, I/O | none of their own | not modelled |

How they interact: the run core calls the Host through
`runtime-host.adapter.ts` (submit, command, release); the Host calls back
through `HostUpstreamHandler` (messages of a run) and through events on
connection, disconnection and abandonment (recovery). Disabling a user or
deleting a workspace reaches the run core as stops and the Host as
`releaseResources`; a Host that was offline gets both during reconciliation.

## 2. Modules

| Module | Contents |
|---|---|
| `RunLifecycle`, `MCRunLifecycle` | the run core and the conversation projection; its instance for TLC |
| `RunLifecycle_proofs` | type correctness; who works on a run: the core invariant and three theorems |
| `RunLifecycle_outcomes` | what the runs leave behind: six theorems on owner, answers and message |
| `ReliableFeed` | abstract: what the tunnel promises the run core |
| `HostTunnel`, `MCHostTunnel`, `HostTunnel_proofs` | both ends of the tunnel of one registered Host; it implements `ReliableFeed`, and what that means for a state |
| `HostReconciliation`, `MCHostReconciliation`, `HostReconciliation_proofs` | a Host connects: reaping, sessions, reconciliation, the gate of submissions, users and workspaces |
| `RuntimeHost`, `MCRuntimeHost`, `RuntimeHost_proofs` | the Host: sessions, shared launches, pool, releases, ledger |
| `CommandDelivery` | abstract: what a Worker may rely on about its commands |
| `CommandChannel`, `MCCommandChannel`, `CommandChannel_proofs` | mailbox and poll loop; they implement `CommandDelivery` |
| `Worker`, `MCWorker`, `Worker_proofs` | a Worker with its Runner process, on top of `CommandDelivery` |
| `CodexTurn`, `MCCodexTurn`, `CodexTurn_proofs` | a turn of the Codex adapter against an external app-server |

All processes of the system are single event loops (Node), so code between two
`await`s is atomic and everything else interleaves. An action is the code from
one await to the next.

### How RunLifecycle reads the code

Each asynchronous routine is a *process*; its `task` record has a program
counter and exactly what the routine captured before its last await (the run,
the status it applies, whether it saw a live handle, the message's seq and the
previous cursor).

| Process | Routine |
|---|---|
| `<<"launch", r>>` | `RunLauncher.launch` of run r: claim (or stop, hand off, claim again), create the row, register handle and timer, submit |
| `<<"upstream", r>>`, `<<"repost", r>>` | `HostUpstreamHandler.emit` for a message of r; the second exists for the builtin Host, where a POST that timed out is sent again |
| `<<"timeout", r>>` | the timer of `LiveRunRegistry` and `markRunTimedOut` |
| `<<"notify", r>>` | `notifyRunFailed`, `notifyWorkerLost`, `notifyRunCancelled` |
| `<<"stop", s>>` | a call of `RunService.stop` |
| `<<"recovery", None>>` | start-up recovery, `sweepAbandonedRuns`, `reapActiveRuns` |

All of them run `RunStatusService.apply` as a subroutine
(`StartApply, ApplyPersist, ApplyPartial, ApplyPending, ApplyProject, ApplySave,
ApplyFinish, ApplyFail`), one action per await. A database call takes effect
when its await ends and has no effect when it fails. The saves of a message are
queued per run (`makeSaveRun`), so a save takes effect in the order of the
calls. `row`, `created`, `conv`, `msg` are durable; all other server state is
lost by `Crash`, after which `phase = "boot"` until the start-up recovery ends.

A *worker* is what the server can see of one: it posts `running` first, may ask
and be answered, ends once, and is cancelled only on request. On a *registered*
Host one chain per run orders messages and notifications and retries until the
server has answered. On the *builtin* Host a message may be in the server
twice, may be given up, and notifications are not ordered with messages.

`Env` chooses what the environment does. `"early"` is the one assumption a
reader should know: without it no stop and no reap falls into the window
between a launch's claim and its registration. The code does not enforce that
(see Findings); the passing runs assume it so that they can say what holds
outside of the window, and each theorem says whether it needs it.

Left out: wording and metadata of messages, SSE streams, usage (only as a call
that may fail), logging and run events, stop reasons, resuming a run after an
interrupt (`resumeWithAnswers`), and `preparing`, which is never stored.

### How HostTunnel reads the code

One Host, one server and the WebSocket connections between them. A connection
is a pair of FIFO channels (`up`, `down`); each end (`client`, `socket`) sees it
close in its own time, and what was still under way is lost. The Host opens the
next connection only after the close event of the last one, so connections are
numbered.

Host (`registered/tunnel-client.ts`, `tunnel-upstream.ts`): `sent` is the
history of notifications, whose index is their `seq`; `buffer` the seqs not yet
acknowledged (the array from `head` on), `ws` the connection it is wired to
after `registered`. `Send` numbers, buffers, trims and writes in one turn, as
`send` does; `HostReceive` of `registered` writes the whole buffer again.

Server (`host-tunnel.handler.ts`): `connection` and `session` are the entries
of `connections` and `hostSessions`; a session is named by its connection,
because a connection registers once and so its epoch is determined by it.
`ackEntries` holds the seqs from `ackHead` on in arrival order. `chain[r]` is
the promise chain of run r, which survives sessions; `busy` marks the link that
awaits the port. `handled` is what the run core has taken, kept through a crash
of the server (the run core's own durability is the subject of `RunLifecycle`).

The feed is what `RunLifecycle` assumes of a registered Host: messages and
failure notifications of one run arrive in one order, the next one only after
the previous one was handled, and one that was not handled comes again.
`ReliableFeed` states exactly this, and `HostTunnel` implements it.

Left out: the downward direction (requests, their timeouts, admission and
reconciliation are in `HostReconciliation`), the deletion of a Host, its
shutdown notice, and a Host process that restarts with an empty buffer.

### How HostReconciliation reads the code

One registered Host, one user, Workers of workspace scope. The database holds
the user (`sessionVersion`, active), deleted workspaces and the runs' rows; the
server the handler of a `register` message (`registering`, `zombies`), the
bound connection, its epoch with its admission phase, and an attempt of the
coordinator per connection; the Host its process instance, its sessions, its
pool, the fences (`tomb`, `revoked`, `maxSeen`) and the ledger's failed cleanups.
`wire` holds the requests under way. The Host answers a request in one step (its
own steps are in `RuntimeHost`), so an answer slower than the request's timeout
is a mishap of its own (`RpcTimeout`).

`Register, ReapList, ReapNext, Bind` are `handleRegister`: a different process
instance means that the runs of the former one are failed first. `AskRuns,
ReadRows, CancelNext, AskClaims, ReadSpaces, ReadUsers, ReleaseNext, Reconciled` are one
attempt: cancel what the Host still runs but the database has ended, then release
what belongs to deleted workspaces and to disabled users, then `markReconciled`.
Each step first looks whether its epoch is still current (`AttemptStale`). The
initial states include a Host that is offline with accepted runs and failed
cleanups, or whose process was replaced meanwhile.

Left out: the sweeper's retry, a Host that changes its role while connected,
server-started reaping of abandoned Hosts (in `RunLifecycle`). A crash of the
server fails the active rows in the same step, as its start-up recovery does
before it listens.

### How RuntimeHost reads the code

One user; a run is submitted at most once and launches at most one Worker, so a
Worker, its launch, its provider instance and its ledger entry are named by the
run that launched it. `call`, `phase`, `cancelled`, `bound`, `wait` are the
submission and session of a run; `pool`, `active` the pool's indexes as a relation;
`acq`, `acqSpaces`, `shake`, `off`, `res`, `why` the launch with its waiters,
handshake and cancellation; `inst` the provider's instance itself; `led`, `ledRel`
the ledger; `rel` the calls of `releaseResources`. A settled promise runs its
continuations (`Turn`) before the event loop takes a request, a timer or a
provider callback, which are therefore guarded by `Quiet`. The provider may take
any time, fail, or lose an instance (a mishap).

Left out: detection of the environment, claims of leftover instances of an
earlier process, `shutdown` of the Host; `lastSeen` is a step that may find a
Worker overdue at any time.

### How CommandChannel and Worker read the code

`CommandChannel`: commands are named by their sequence number, so a mailbox is
the interval `dropped+1..sent`. The Worker has one poll under way; the polls it
has given up (`late`) may still reach the Host. An eviction removes mailbox and
token; what arrives later creates an entry of a new epoch, or is refused.
`processedCommands` is the dedupe window, cleared every `WindowPolls` polls.
`CommandDelivery` is what remains for the Worker: each command once, in order,
perhaps none after an eviction.

`Worker` extends `CommandDelivery`: one run, whose first command is the
`user_message` and the others cancel it. `runner`, `terminalSeen`,
`cancellationRequested`, `deadline`, `killed`, `forceTimer`, `exitTaken` are the
manager's; `proc`, `config`, `toRunner`, `fromRunner` the forked process and its
two IPC channels. `out` is the upstream transport of the run: queue, flush loops
(two may exist after a cleanup), the numbers given out. An event has a number
`n` of its own besides its `seq`, because a cleanup starts `seq` again; `lost` are
the events whose POST was given up, `dropped` those that left the queue at its cap.
`cursor`, `heard`, `ended` are what the Host has accepted.

Left out: several runs of one Worker (they share only the poll loop), reuse of a
run id after its cleanup, controls other than cancel, file search, logging.

### How CodexTurn reads the code

One turn. The app-server is external: `server`, `work`, `approval` and `out` let it
write, at any time, what `docs/codex-app-server.md` allows. It may also interrupt
the turn that nobody asked it to (`InterruptTurn`): freely after an answer, which
may have been `cancel`, otherwise as a mishap. The lines of one chunk
of stdout are handled before any promise continues (`reading`), then the
continuations in the order they were queued (`micro`), and only then another
chunk, a timer, a command or the exit event (`Quiet`). `phase` is what `executeRun`
awaits; `bridge` the `ApprovalBridge` (slot, queue, resolved ids); `tracker` the
translator's items and flags; `stop` the Runner's `stopRequested` and
`interruptRun`; `stream` what the run's AG-UI stream looks like, segment by
segment. An approval is named by its item; a user's answer carries no name, as in
the code, and `answers` remembers what it was given for.

Left out: the contents of events, which kinds of items there are, thread resume,
configuration, and the Claude, ACP and SDK adapters. An answer to an app-server
whose stdin is closed does nothing in the model (`Respond`): `respond` writes
to it with no `error` listener (`codex-app-server-process.ts:137-142`), and what Node
makes of that is not modelled.

## 3. Runs

Bounds are constants, named by what they bound: `MaxMsgs` messages per run,
`MaxFaults` failing calls, `MaxCrashes`, `MaxReaps`, `MaxConns`, `MaxSends`,
`MaxVersion`, and so on. A *mishap* is anything that goes wrong by itself (the
comment at `MaxMishaps` of each module says what counts).

| Run | Instance | Shows |
|---|---|---|
| `one_run` | 1 run, 1 stop, 3 messages, 1 fault, 1 reap, timer, notices, registered Host | all finalizers of one run race: `TypeOK`, `SingleFinalizer`, `CompletedIsDurable`, `LostOnlyToTimer`, `RowIsMonotone` |
| `steering` | 2 runs on the builtin Host that may steer each other, 2 messages, 1 fault, 1 crash, expiry of the completed mark | hand-over, messages given up, restart: `OwnerIsGoingOn`, `ExclusiveRun` |
| `builtin` | 1 run on the builtin Host that asks, 1 stop, 3 messages, timer, notices, 1 crash, fair | reposts and questions: `FinalMessageStands`; `RunIsReleased` |
| `tunnel` | 2 runs, 2 notifications, buffer of 1, 3 connections, 1 mishap, fair | `TypeOK`; `HostTunnel` implements `ReliableFeed` (`IsReliableFeed`); `BufferDrains` |
| `host` | 2 runs of 2 workspaces that share a Worker of their user, 1 release, 1 mishap, fair | `TypeOK`, `InstanceIsAccounted`, `ReadyIsBound`, `EndsOnce`, `CancelledNeverStarts`, `OneWorkerPerKey`, `ReleasedStaysEmpty`; `SubmissionSettles`, `ReleaseAnswers` |
| `channel` | 4 commands, 3 lost polls, dedupe window of 2 polls, 1 eviction, fair | `ChannelTypeOK`, `NoCommandIsLost`; `CommandsArrive`; `IsDelivery` (refinement) |
| `worker` | 2 commands, 2 events, queue of 1, 1 retry, 1 mishap, fair | `WorkerTypeOK`, `NothingSkipped`, `LeavesAfterEnd`; `CancelEndsTheRun`, `RunnerIsReaped` |
| `reconcile` | 1 run, 1 workspace, user versions up to 3, 2 connections, 1 mishap, fair | `TypeOK`, `ReadyMeansReconciled`, `NoZombie`; `LaterGenerationIsKept`; `Reconciles` |
| `codex` | 2 items that both ask, 2 answers, 2 unread lines, 1 mishap, fair | `TypeOK`, `AnsweredOnce`, `ShownIsPending`, `OutcomeIsHeard`; `Settles` |
| `early_claim`, `late_partial`, `bricked` | findings below, each on the smallest instance that shows it | one violated property each |

Why the bounds suffice. In `RunLifecycle` the conflicts of one run need at most
two routines in `apply` at once, and the instance has seven; three messages are
`running`, a question or an event, and a terminal status. Two are enough where only
the owner of the conversation matters.
A fault puts one routine into its failure path while all others go on; a second
one repeats this. Two runs are what one conversation needs for one to take over
from the other. In the tunnel an acknowledgement out of order needs two runs, and
a trim one notification more than the buffer holds; one mishap leads to at most
three connections, so `MaxConns` never keeps the Host from connecting again. In
the Host a shared launch needs two runs; a release of either workspace, of both in
turn or of the user meets it at every await. In the channel a late poll that
crosses a cleared dedupe window needs two polls more than the window. A Worker's
queue overflows with two events; version 3 of a user is one that was enabled,
disabled and enabled again; a queue of approvals needs two requests.

Other instances were checked by hand: `steering` on a registered Host whose workers ask
and whose Host reports failures (0.5 million states), `builtin` without its stop but with
a fault (after which `RunIsReleased` promises nothing: the timer fires once; 0.3 million
states), two mishaps in the tunnel (1.2 million)
and in the Worker (0.7 million; with three commands 1.2 million), two runs in
two workspaces of `HostReconciliation`, a Codex turn with
unbounded unread lines (4 million). The proofs remove the bounds for
everything section 5 lists.

Deadlock is not checked: each cfg says where its system may stop (everything has
ended, was answered, or is down).

Fairness is what Node and the timers give. Promises are resolved and database
calls end (`builtin`: `WF` of the continuation of every process), an armed timer
fires, a server that is down is started again. In `tunnel`, what has arrived is
taken, an awaited handler returns, each end learns that the other one has closed
(the liveness watchdog terminates half-open sockets), the Host reconnects. In
`host`, continuations run, configurations are made or fail, launch timers fire
and provider calls settle. In `channel`, the poll loop goes on. In `worker`, both
event loops, their timers and the posts with their bounded retries; not the agent,
which may go on for ever. In `reconcile`, the Host dials, requests are answered or
time out, and the attempt goes on. In `codex`, Node reads what is there, runs what
is queued and fires what is due, and a killed process dies. Nothing is assumed
of users, of agents, of the app-server, of a Worker's registration or of further
launches. Where a timer is the reason for progress, a mutant without it shows so.

## 4. Findings

* **A claim without a row is given away** (`early_claim`, `ExclusiveRun`).
  `claimRun` makes a run the owner of the conversation, whose row is only created
  after further awaits. A stop in this window finds no active row and
  `reconcileRunStateWithoutActiveRun` sets the conversation idle, although it is
  owned. A second launch then claims it and two runs are active.
* **The reconciliation of a disabled user's Host buries his workspaces**
  (`bricked`, `CurrentGenerationIsAdmitted`). `listActiveIds` counts the
  workspaces of a disabled user as inactive, so the Host is told to release them
  as if they were deleted and keeps a tombstone for ever. Enabled again, the user
  is refused in these workspaces until the Host's process ends.
* **A late question replaces the end** (`late_partial`, `FinalMessageKept`).
  `markNonTerminal` of a `requires_action` saves a partial message after an await
  (`run-status.service.ts:104`) without looking at the guard again. When the timer
  ends the run meanwhile, the question's snapshot is stored over the message that
  says why the run ended, against ADR 0001 lines 38-39. No call has failed.
  `FinalMessageStands`, which holds, says that this, and the end of a response that
  was steered away, are the only ways.
What follows from the models without a run of its own:

* **A terminal status is answered and lost.** One that meets another finalizer is
  ignored and acknowledged (`host-upstream.handler.ts:140`), although
  `host-tunnel.ts:133` says that what is acknowledged was processed, and
  `run-status.service.ts:129-130` that it is replayed. The timer fires and enters
  the guard, the worker's status is ignored and answered, the timer's write fails:
  the row stays active, the timer is gone, nobody sends the status again. This
  violates `AnsweredTerminalIsKept`; `LostOnlyToTimer`, which `one_run` checks with
  the timer and a fault, says that there is no other way on a registered Host.
* **An interrupted turn is reported finished.** `AgentRunOutcome` asks for a stop and
  for a `RUN_ERROR` (`agent-run-outcome.ts:23-29`). A turn that the app-server
  interrupts after the user's `cancel` (`app-server-adapter.ts:617-624`; the test
  `app-server-adapter.spec.ts:195-211` has such a turn) has neither, against
  `docs/agework-codex-app-server-migration.md:238`. In the model: `InterruptTurn`,
  `EndTurn("interrupted")`, `Completed` with no stop asked. `OutcomeIsHeard` is what
  holds: nothing is reported finished that was not heard to end.

*Run core.* A stop between `createRun` and `registerRun` completes the run
without a handle, and the launch registers one afterwards. When `failLaunchClaim`
fails too, the claim stays (hence `faults = 0` in `OwnerIsGoingOn`). A message stays partial when its final save failed.

*Tunnel.* The handler of `register` goes on after `markRegistered` without looking at the
socket (`host-tunnel.handler.ts:388`, against the comment at line 67): a dead socket
may become the route of the Host until it registers again. `BufferDrains` shows
that the Host's facts survive this.

*Runtime Host.* A second release of a workspace whose launch was cancelled by the
first one answers before the rollback has ended (`worker-pool.ts:243`,
`runtime-host.ts:720-723`).

*Worker.* After a terminal status's POST was given up, the cleanup starts `seq` at
1 again and the Host skips what follows as old: hence the antecedent of `NothingSkipped`.
Two POSTs of a run may be under way after a cleanup, against `worker-http.ts:78-82`.
The exit of a Runner may overtake its messages, which adds an error to a run that
completed. A new queue epoch occurs only after an eviction, which, answering a
waiting poll, creates an entry for a Worker that is gone. `entry.cancelledRuns` is
never read.

*Reconciliation.* A launch in flight when its user is disabled while the Host is
offline is accepted after `ready` (nothing is held, so no fence is set); disabling and
enabling again while offline loses the revocation; a stale attempt's loop goes on
after an epoch change and may release a workspace of a re-enabled user; the
pending requests of a replaced connection only time out, against the comment at
`host-tunnel.handler.ts:298`; a reap that fails after `markRegistered` is not
repeated; a late `register` of a former process reaps live runs; a reap may fail a
run that is not submitted yet.

*Codex.* An approved command's `item/completed` emits no result, because the
interrupt had ended its tool call (`translator.ts`, `state && !state.ended`, against
`docs/codex-app-server.md:1299-1303`). An answer goes to whatever request is in the
slot (`approval-bridge.ts:52`), although `run.service.ts:339` says that a wrong id
has no effect. `interruptRun` shows a queued approval when it clears the first one:
a second `RUN_FINISHED` in an ended stream, against `app-server-adapter.ts:819-822`.
A queued request the app-server has resolved is shown anyway. Three lines in one
chunk (A resolved, B resolved, C asked, with B queued behind A) make the bridge
forget C. Lines in the same chunk as the response of `turn/start` are dropped. The
exit event may overtake unread output. An abort listener added after the abort
never fires; `onClose` saves this case.

## 5. Proofs

Everything here holds for every value of the constants: any number of runs,
messages, failing calls, crashes and mishaps. Each module assumes only what its
`ASSUME` says of its constants (bounds are naturals, `None` is not a run, a buffer
holds at least one), which every run evaluates. TLC checked each inductive invariant
on instances before it was proved.

### Run lifecycle

`RunLifecycle_proofs`: `TypeCorrect`. `TypeInv` adds what `TypeOK` does not say of a
program counter: which kind of process may be where, and that a process in
`apply` works on some run. On top of it, in every environment (also with `"early"`):

* `OneFinalizer == Spec => []SingleFinalizer`
* `CompletionIsDurable == Spec => []CompletedIsDurable`
* `RowsAreMonotone == Spec => RowIsMonotone`

None of these is inductive. `SingleFinalizer` needs that whoever applies a
terminal status keeps its run in `finalizing` (`GuardInv`). `CompletedIsDurable`
needs what each program counter implies about the database (`TaskInv`: past
`persist` the row is terminal, past `project` the conversation is not owned by the
run, for those callers that know the conversation; one that does not know it had
no handle, so `HandleInv` says when a handle may be missing); that a run is not
claimed twice and its row is created once (`LaunchInv`, `RowInv`, `BeforeCreate`);
and that runs are known before they are worked on (`KnownRuns`). `CoreInv` is
their conjunction; steps that leave the relevant state alone go through one
lemma, `StepKeeps`. `RowsForward` says how a row may move in a step.

`RunLifecycle_outcomes` adds, each invariant on top of the previous ones:

| Theorem | Hypothesis | Argument |
|---|---|---|
| `OwnerAlwaysGoesOn == Spec => []OwnerIsGoingOn` | none | `LifeInv`: each run that has a claim has somebody who will end it, and a projection is written only by the one who holds the guard |
| `GuardIsNeverLeft == Spec => []GuardIsHeld` | none | the converse of `GuardInv`: a run in `finalizing` has a routine in `apply` |
| `OneRunAtATime: Spec => []ExclusiveRun` | `"early" \notin Env` | `ClaimInv`: a working run owns the conversation (`WorkingOwns`) |
| `AnsweredIsKeptInCalm: Spec => [](Calm => AnsweredTerminalIsKept)` | `Calm`: no call has failed and nothing crashed so far; any environment | `AnswerInv`: the messages of a run pass the gate once and in order, so an answered terminal status has been applied or met another finalizer |
| `AnsweredIsKept: Spec => []LostOnlyToTimer` | `Alone`: a registered Host, no early stop; any number of timers, faults and crashes, until a Host is reaped | `DurableInv`: a failed apply is not answered, and no other routine's failure can take its place but a timer's that has fired (`AloneInv`, `TimersStep`: a timer is gone once it fires, and armed only with a registration) |
| `FinalMessageIsKept: Spec => []FinalMessageStands` | `"early" \notin Env` | `FinalInv`: the saves of a run are queued, the finalizer's is the last of its kind, and what may come behind it is a question's snapshot or a steering launch's |

The hypotheses are needed. `"early"` brings the finding `early_claim`. With the
builtin Host, the worker may give up a message whose apply failed. `LostOnlyToTimer` and `FinalMessageStands` say of timers and
questions, which any run on a registered Host may meet, exactly what the findings of
section 4 leave; the environments of the runs `one_run` and `builtin`, which check
them, meet the hypotheses and have both.

### Tunnel and commands

`HostTunnel_proofs`:

* `FeedKeepsAll == Feed!Spec => [](Feed!NothingLost /\ Feed!NoGap)`: what the
  abstract feed means for a state, no notification is lost and no run has a gap
* `TunnelTyped == Spec => []TypeOK`
* `TunnelInOrder == Spec => []HandledInOrder`
* `TunnelIsReliableFeed == Spec => IsReliableFeed`

The refinement mapping takes `buffer` for `kept` and the other variables of the
feed for themselves: `Send` is the feed's `Send`, `ChainOk` its `Handle`, an
acknowledgement that reaches the Host its `Forget`, everything else a stutter.
That `ChainOk` and the acknowledgement meet the feed's guards needs an account of
where the earlier notifications are. `IInv` follows a notification along its way:
whatever was numbered before it is *settled* (handled or given up), or stands
before it in the same channel or has become an entry of the same session
(`UpInv`), or stands before it among the entries (`EntriesInv`), or in the chain of
its run (`ChainInv`). A session that is wired, bound and open has all that is not
settled (`WiredInv`), which the replay establishes; an entry that left the chain
without being handled belongs to a failed session (`LinkInv`); so an
acknowledgement covers settled seqs only (`AckInv`), and a link that was started
may go on though its session failed while it waited (`BusyInv`).

`CommandChannel_proofs`: `ChannelInvariant` (the Worker's cursor is past what was
dropped, the poll under way asks for the next command, the mailbox keeps the rest),
and from it `ChannelTyped`, `HandledOnceInOrder`, `NothingIsLost` and the
refinement `ChannelIsDelivery == Spec => IsDelivery`. The dedupe window is not
needed for it: the cursor alone keeps a command from being handled twice.

### Worker

`Worker_proofs`: `WorkerInvariant`, and from it `WorkerTyped`, `NoEventIsSkipped`
and `RunEndsBeforeItLeaves`. The argument follows an event: queued, in the batch of
a flush loop, heard, lost or dropped. As long as the run has not ended for the Host, no end
was given up and the Worker works (`Fresh`), the sequence numbers of the code are
those of the events, there is one loop at most, its batch stands before the queue,
and it is wholly ahead of the Host's cursor or wholly behind it, as a repost is
(`FlowOK`). After that nothing is heard out of order either, because only a
cleanup starts the numbers anew, it follows the end, and the Host takes nothing of an
ended run.

### Runtime Host

`RuntimeHost_proofs`: `HostInvariant` is the conjunction of what is known of a
release (`ReleaseInv`), a submission (`SubmitInv`), a launch (`LaunchInv`), its
waiters (`WaitInv`), the started instance (`StartInv`) and the properties
themselves. From it `HostTyped`, `InstanceNeverLost`, `SessionAndPoolAgree`,
`EndReportedOnce`, `EarlyCancelHolds`, `WorkerIsShared` and `ReleaseIsFinal`: every
invariant of the run `host`, for any number of runs, workspaces, users' versions
and releases.

### Host reconciliation

`HostReconciliation_proofs`: `ReconciliationInvariant`, and from it

* `ReconciliationTyped == Spec => []TypeOK`
* `ReadyReconciled == Spec => []ReadyMeansReconciled`
* `NoZombieIsLeft == Spec => []NoZombie`
* `ReleaseKeepsLater == Spec => LaterGenerationIsKept`

`ReconciliationInv` says in its simple parts that an attempt waits for one answer at
a time, of a request its stage sends (`Waits`); which process made a connection
(`ConnInv`); that a run is submitted once and held with its Worker (`RunInv`); that
a cancellation or release of a run is only under way when it has ended (`EndedInv`);
that a release of the user names a version at which he was not active, and a run
one at which he was (`VersionInv`), from which `LaterGenerationIsKept` follows; that
what could not be cleaned up is out of the pool and fenced (`PendingInv`).

`LinkInv` carries `ReadyMeansReconciled`. While the bound connection lasts
(`Linked`), what the Host had to give back when it was bound never comes back, since
a release leaves a fence and a run is not submitted again (`DebtInv`). What is not
gone yet is somewhere on its way through the stages of the attempt of that epoch
(`Ways`): not asked for yet, in the answer just read, still to do, or in a request
under way. A failed request sends the attempt back to its start, so when the admission
is `ready` nothing is left (`Gone`).

`owed.workers` names the Workers in the Host's pool when it was bound, and the
property speaks of these: a launch in flight when its workspace was deleted may
still start another one after `ready`, since the Host had nothing of that workspace
and so keeps no fence for it. The first form of `ReadyMeansReconciled` did not tell
the two apart; it held for one run, and the proof failed on it.

### Codex turn

`CodexTurn_proofs`: `TurnInvariant`, from it `TurnTyped`, `RequestAnsweredOnce`
and `OutcomeReported`, and `ShownStaysPending == Spec => []ShownIsPending`. `RequestInv` follows an approval
request along its way: unread line, registration, slot or queue, the answer's
continuation; a request is in one of these places at a time, and what was answered
is in none. `StopInv` says what an interrupt has done at each of its awaits,
`OutcomeInv` what the translator has seen when the outcome is reported, and that
the stream has nothing open that the translator does not know to be open.
`OutcomeReported == Spec => []OutcomeIsHeard` covers a turn that is interrupted without a stop.

What is shown follows from the order of the continuations. `handleApprovalRequest` shows
a request when it is continued, a while after it got the slot, and a dequeued one
takes the slot only when it is continued itself. `SlotInv` says that a request is
registered once, after it has left line and queue, and that whatever was dequeued
stands before a registered request that still holds the slot unresolved (`Ordered`).
So when it is shown nobody is left who would take its place (`ShownInv`).
`InterruptInv` says that `turn/interrupt` is answered once, so that a forced
interrupt, which empties the bridge, is never taken back.

### Only model-checked

The liveness properties (`RunIsReleased`, `BufferDrains`, `Reconciles`,
`SubmissionSettles`, `ReleaseAnswers`, `CommandsArrive`, `CancelEndsTheRun`,
`RunnerIsReaped`, `Settles`): fairness and `ENABLED` are out of the prover's reach.
Every invariant and action property of a passing run is a theorem, three of
`RunLifecycle` under the hypotheses of the table above.

## 6. Plan

1. `RunLifecycle`: resuming an interrupted run (`resumeWithAnswers`).
2. A Host process that restarts with an empty buffer, and its shutdown notice.
3. The Claude and ACP adapters; the thread runtime of react-ag-ui.

Not modelled, and why: the Worker providers are calls of Docker, OpenSandbox and the
operating system (their outcomes are choices of `RuntimeHost`); run events are
append-only records nobody reads for a decision; pages, configuration, file
search and logging keep no state the parts above depend on.
