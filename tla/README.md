# A verification of PiCloud

PiCloud (the repository under `src/`) runs coding agents for many tenants: a
user's message becomes a *Run* that some *Pi Worker* claims from PostgreSQL,
executes under a fenced lease of its *Session* with Tools in a Cube microVM, and
settles; what the agent says travels as events through a spool, Kafka, a
projector and Valkey to the browser. This directory holds TLA+ models of that
machinery, TLC configurations that check them on small instances, and TLAPS
proofs of what matters most for any instance.

Run everything from this directory: `tlc -config Lifecycle.cfg MCLifecycle`,
`tlapm RunRowsProofs.tla`.

## 1. The system

### Components, their state and their operations

| Component | State | Operations | Module |
| --- | --- | --- | --- |
| Turn acceptance (`control-plane-store.ts`) | `sessions`, `turns`, `commands`, `runs`, `outbox` rows | accept a Turn, accept a cancellation | RunLifecycle |
| Run executor (`run-command-executor.ts`, `run-attempt-state.ts`) | the same rows, `run_attempts`, `workspace_versions`, `session_terminal_events` | claim, ACK, complete, fail, retry | RunLifecycle |
| Cancellation executor (`run-cancellation-executor.ts`) | the `turn.cancel` command | claim, ACK, complete, fail | RunLifecycle |
| Session leases (`session-lease-coordinator.ts`) | `session_leases`, `sandboxes.active_sessions`, `sessions.last_fencing_token` | acquire (with takeover), renew, release, quarantine | RunLifecycle |
| Assignment reconciler (`assignment-reconciler.ts`) | none of its own | settle or requeue what a dead boot left behind | RunLifecycle |
| Worker Control Channel (`supervisor-connection-manager.ts`, `supervisor-websocket-client.ts`, `boot-ledger.ts`) | connections, credentials, `sandbox_retirements`, the host's ledger | boot, register, heartbeat, expire, fence, claim and process a retirement | SupervisorLink |
| Command exchange (`worker-control-channel.ts`) | pending acknowledgements and results, prepared commands | prepare, commit, answer, time out, detach | SteerExchange |
| Pi Worker (`postgres-pi-worker.ts`) | the active commands of one process | scan, fill lanes, prioritise a Child, cancel, stop | PiWorker |
| Subagents (`postgres-subagent-job-provider.ts`) | `subagent_executions`, child Sessions and Runs | start under a budget, prepare a Workspace, poll, cancel recursively, reap | SubagentTree |
| Subagent Tool call (`pi-subagents-cloud-worker.ts`, `postgres-subagent-supervisor-channel.ts`) | the thread, its leaves, questions to the parent | start, poll, report, abort, ask, reply, expire | SubagentChannel |
| Event spool (`wal-event-spool.ts`) | cursors of one assignment and a write-ahead file | append, acknowledge, compact, recover | EventSpool |
| Event pipeline (`durable-event-store.ts`, `event-gateway.ts`, `live-session-event-store.ts`) | the accepted log, Kafka, the live stream, the cursors | publish, ingest, project, settle, trim, repair | EventPipeline |
| Event stream (`session-event-stream.ts`, `session-view.ts`) | a browser's cursor and view | load, snapshot, stream, reconnect | EventStream |
| Agent events (`pi-agent-event-adapter.ts`, `conversation-turn-projection.ts`) | the adapter, the coalescer, two folds of one Turn | sample, call Tools, retry, compact, fold, poll | Transcript |
| Pi Session (`pi-session-postgres`) | the log of a conversation and the leaf of its lane | append, recover, compact, fork, prune | PiSession |
| Cloud Steps (`pi-sandbox-continuity.ts`) | the journal of Sandbox states | freeze a step, tell the model, record | StepContext |
| Tool Broker (`activation-state-repository.ts`, `tool-broker.ts`) | activations, Web Terminals, development environments, operations, VMs | reserve, materialise, operate, hand over, release, reap | SandboxBroker |
| Cube guest and Volume (`cube-tool-service.ts`, `tool-worker.ts`, `persistent-volume-workspace-volume-gateway.ts`) | files, the operation ledger, the guest | run a Tool, freeze, capture, suspend, fork, import | CubeWorkspace |
| Web Terminal (`workspace-terminal-gateway.ts`, `tool-broker-server.ts`) | three sockets, a row, a guest, a PTY | open, redirect, close, lose the row, sweep | WebTerminal |
| Conversations and Workspaces (`control-plane-store.ts`, `conversation-tree-service.ts`) | projects, conversations, environment versions, quotas | create, fork, archive, prune, delete, develop | Conversations |
| Model Gateway (`model-gateway.ts`) | capabilities, reservations, the usage ledger | issue, reserve, forward, settle, revoke | ModelGateway |
| Steering (`turn-steering-service.ts`) | `turn.steer` commands | accept, claim, dispatch, confirm | TurnSteering |
| Identity (`tenant-administration.ts`, `web-authentication.ts`, `production-bootstrap.ts`) | tenants, credentials, Web sessions | register, log in, revoke, bootstrap | Tenancy |
| Egress (`cube-egress-gateway`, `platform-runtime-settings.ts`) | the policy and its revisions, tunnels | poll, tunnel, forward, close | Egress |

`PROJECT.json` lists them with their status, and the components that are not
modelled with the reason.

### How they interact

PostgreSQL is the only authority. Workers do not talk to each other: they scan
the same outbox, and the claim transaction decides who executes. A claim is
bounded in time (`available_at`); until the *durable ACK* (`#markStarted`) it
may expire and be replaced. Before the ACK the Worker acquires the Session's
lease, which advances the Session's fencing token and binds the attempt to it;
from the ACK on every write of the execution is checked against that fence.
Heartbeats renew leases; the control plane fences a boot whose connection
expires, stops its process, and only then lets the reconciler settle its Runs.
Completions, failures, cancellations and retirements are each one transaction
over the same rows, so they compete for row locks and the loser finds the rows
changed. The settling transaction also advances the Workspace's head, writes
the public terminal event, which requires that the event projection has caught
up, and releases the lease.

What an execution publishes is spooled before it is sent, accepted under the
fence of its lease, and projected in order; the settlement waits for the
projection. Tools run in a microVM that a Broker replica owns under a lease of
its own; the Volume outlives the VM, and a revision of it is captured at the end
of a Turn. The Control Plane reaches a Worker by one WebSocket, over which it
registers, heartbeats, steers and stops it; a host that is silent is fenced first
and retired only after it has confirmed that it stopped.

### What is hard

* the claim's SELECT and its writes are separate statements, and only some of
  the rows it read are locked;
* a claim or a lease expires under a Worker that is still at work;
* completion, cancellation, heartbeat revocation and retirement of the same Run
  race each other;
* a boot is retired while its process may be alive, and the reconciler works
  from a list it loaded before its transaction;
* the event projection may be unavailable exactly when a Run ends;
* every reservation of Sandbox capacity has several ways to be given back;
* a Run that delegates holds its slot, its Workspace and its tenant lane while it
  waits for Runs that need the same, and several processes (the parent, the
  parent's parent, every Worker's reaper) settle one delegated execution.

* a spool, a broker topic, a projection and a browser each have a cursor of their
  own, and a crash may come between any two of their writes;
* VMs live outside the database and outside the process that made them;
* every hop of a Tool call, a steer and a registration retries, and a late answer
  meets the state its retry has left;
* most services await the network between a check and the write it is for.

`PROJECT.json` lists these and the others under `hazards`, each with the line
where it bites and the properties that would catch it.

## 2. The modules

### RunLifecycle

The rows of a Run, the lease of its Session, the Sandbox of each Worker boot,
and the in-memory position of every dispatch. One action is one transaction or
one in-memory step; the claim is two actions, because what its SELECT saw may
be stale at its writes.

| Variables | In the code |
| --- | --- |
| `session`, `fence`, `nextPosition`, `version`, `head` | `sessions.state`, `.last_fencing_token`, `.next_mailbox_position`, `.current_workspace_version_id`; `workspaces.current_workspace_version_id` |
| `position`, `turn`, `command`, `run`, `outbox`, `attempt` | `commands.mailbox_position`, the states of the four rows of a Run, the outbox row, one `run_attempts` row per claim |
| `base`, `staged`, `terminal` | `runs.workspace_base_version_id`, a staged `workspace_versions` row, the number of `session_terminal_events` |
| `lease`, `sandbox` | `session_leases`; `sandboxes.state` and `.active_sessions` |
| `cancel` | the `turn.cancel` command and its outbox row |
| `retirement` | `sandbox_retirements`, and the assignments the reconciler has loaded |
| `projected` | whether `session_event_cursors` says the projection has caught up |
| `blocked` | Workspaces with an open Web Terminal, or a disabled tenant |
| `up`, `job`, `cancelJob` | the process, and where its `#dispatch` calls are |

Row locks are modelled where they matter. A claim holds `FOR UPDATE` on its
Session's row from its SELECT to its commit (`job[w][r].phase = "selected"`);
every other transaction that locks the Session waits for it (`Unlocked`). All
other transactions are atomic. Versions are named by the Run that produced
them. Wall-clock deadlines become actions: `ClaimExpires`, `LeaseExpires` and
`CancelExpires` may happen at any time once the owner no longer works on the
row, and at *any* time when the instance includes the event `"claim"` or
`"lease"`.

`Env` selects the environment events of an instance: `crash` (a process dies),
`fence` (a live boot is declared dead), `heartbeat` (a heartbeat fails),
`lease`, `claim` (they expire under a working owner), `projection` (the event
projection is unavailable for longer than the barrier waits), `delivery` (the
supervisor rejects a command), `abort` (the database aborts a transaction),
`block` (a terminal opens), `cancel` (a user cancels), `events`, `checkpoint`
(the agent publishes events, stages a Workspace version).

The definitions marked *Mutant* are single changes to the definition that
follows them, each of which breaks one property.

`RunContract` is the abstract specification: a message is queued, executing under
one Worker or settled, and a Workspace stands at a version. Claims, attempts,
leases, fences, outbox rows, cancellations and retirements are hidden.
`Start` asks for what the whole machinery is there to provide: everything earlier in the
mailbox is settled, and nobody executes in the Session or the Workspace. `Status` and
`Executor` are the refinement mapping (a dispatching Run still counts as queued,
the durable ACK is the start), and `ImplementsContract` the refinement.

### SubagentTree

Delegated execution. `start` is two actions (`StartAdmit` counts under the locks
of the parent and the root Run, `StartCommit` inserts), so starts at different
depths of a tree interleave as far as the locks allow. `#prepareIsolated` is the
fork, its commit and its failure; `status` is a read and a later write, because
the code writes in a transaction what it read outside of it; `cancel` is its list
of children, the recursive calls, its transaction and the status call that ends
it, and it may throw. A Run is the state of its row: its life is `RunLifecycle`'s.

| Variables | In the code |
| --- | --- |
| `node`, `execution` | `subagent_executions`: the tree columns, `workspace_mode`, `state` |
| `run`, `open`, `request` | `runs.state`, the unpublished `turn.execute` outbox row, the `turn.cancel` command |
| `workspace`, `assigned` | `workspaces.deleted_at`, `sandbox_domains.assigned_workspaces` |
| `admitting`, `preparing`, `polled`, `call` | where the provider's `start`, `#prepareIsolated`, `status` and `cancel` calls are |
| `tool`, `relay`, `job` | the delegation Tool call of a Run: aborted or not, whom it has to cancel, `admittedJobs` and `cancelledJobs` |
| `reap` | the execution `reapStalePreparations` works on |

An aborted Tool call cancels the jobs it is waiting for, goes on polling until
those calls have ended, and then (`cancelAdmitted`) tries once more for every job
whose cancellation has not succeeded. The claim's gates (`Claimable`), the slot
rule of a Worker (`HasSlot`) and the check constraint that rejects a stale status
write (`Rejected`) are part of the model: the properties depend on them. `Env` is
`cancel` (a user cancels a conversation), `crash` (the process that executes a Run
dies), `defer` (a delivery fails before the ACK), `timeout` (a Tool call gives up
on a child after its five minutes).

Left out: a replayed `start`, which returns the existing job; the timeout of a
whole Turn, which aborts the Tool call as a cancellation does; the supervisor
channel; two concurrent `cancel` calls for the same execution, whose transactions
the row locks serialise.

### SubagentChannel

One delegation Tool call: the thread that runs pi-subagents (`thread`,
`leafWait`, `outcome`), what the Worker does for it by message (`operations`,
`jobs`, `toolCall`), the durable executions it polls (`leaf`), and a question a
child puts to its parent (`ask`). Starting, polling, aborting and settling are
separate steps, as messages between thread and Worker are.

### EventSpool, EventPipeline, EventStream, EventLog

`EventSpool` is the pure part of the Worker's spool: two cursors, the records of
the write-ahead file, and how a file is read back after a torn write.
`EventPipeline` takes the events of one Session through publisher, ingestion
under the fence (`db`, `log`), Kafka, projector (`proj`), Valkey (`live`),
settlement (`settle`), retention (`jobs`) and the repair at the start of the
gateway. One Turn runs under each fence; an event is a sequence number with the
fence that produced it. A publication and its answer are messages (`net`,
`reply`) that may be lost or arrive late. The live stream compares digests of whole
publications, so it keeps of each event whether it came in a batch or was sent again
by a recovery (`batched`). A projection that fails is retried for a minute, after which
the consumer fails (`worker-event-log.ts:229-250`); the model lets it wait, and has
`GatewayCrash` and `StartGateway` for the restart that follows from the last committed
offset. `external` says whether Kafka and
Valkey are used or PostgreSQL alone. `EventStream` adds the browsers: the
conversation, the snapshot of the active Turn, the stream with its pages, wakes
and heartbeats, and the reducer's cursor. `EventLog` is the abstract
specification: one append-only log per Session, in which the events of a Turn are
a block closed by one terminal event, and readers that move forward only.
`ImplementsEventLog` is the refinement.

### Transcript

One Turn from the Agent to the reader: sampling, deltas, Tool calls, retries and
compaction of the Pi loop (`pi`), the coalescer of `PiCloudTurnRunner`, the
adapter, the server's fold (`canonical`) and the browser's (`view`), which also
takes the answer of `POST /turns` and the polled Run. Texts are counted, not
spelt.

### PiSession

The rows of a conversation's log and the leaf of its lane, the Agent runtime that
writes them under the authority of a Run, what recovery does with an operation
that an interrupted Run left open, compaction, and the two product operations on
the same rows, fork and prune. `MaxDetours` bounds the departures (crashes,
failures, compactions, repeated calls) from the shortest Run.

### StepContext

What the model is told before each sampling: the controller compares the Sandbox
with the state the Session recorded last and appends a message, then the new
state; a Worker may die in between. A step's number identifies its model request,
and recording a Tool call uses up the step's budget.

### SandboxBroker, CubeWorkspace, WebTerminal

`SandboxBroker` is the ownership of Workspaces: rows of three kinds of holder
(activations, terminals, development environments), the process memory of the
replicas (`mem`), their instance leases (`inst`), and the VMs as Cube knows them
(`vm`). A provision (`flow`), a release (`closing`) and a withdrawal are
sequences of awaited steps that others may interleave with. `CubeWorkspace` looks
inside one activation: the Runner, the provider's retries, the guest with its
Tool Worker and operation ledger, freezing and capture, fork and import of the
Volume. `WebTerminal` follows the terminals of one Workspace over browser, proxy, Broker
socket, row, guest and PTY. A handler keeps the row only as long as nobody takes it:
`releaseRuntimeAssignment` marks every open terminal of its instance `unknown`, and
`markExpiredOwnersLost` those of an instance whose registration lapsed while its
handlers go on (`TakenFrom`). A sweep then claims the row, destroys the guest and
releases the row in three steps, under a handler that may be opening, live or
closing; a write to the row is refused when the instance is not registered or no
longer the owner (`CanSet`), and its callers swallow that (`TrySet`). A Broker closes
its socket after a redirect frame; a proxy that sees that before it has looked up
the new owner gives up (`workspace-terminal-gateway.ts:239-270`), as `proxySeesClose`
does. `closeTerminal` is one step. The terminals of development environments
(`AttachPty` in `SandboxBroker`) are left out. The three modules share no variables:
who may lease a Workspace is decided in the first and assumed by the others; the Turn
that leaves a warm activation behind is `TurnParks` here.

### SupervisorLink, SteerExchange, TurnSteering, PiWorker

`SupervisorLink` is one Supervisor identity with the boots and sockets it opens
over time, the Control Plane replicas that work on registrations, heartbeats and
retirements, and the host's boot ledger. `SteerExchange` is the two-phase
command protocol on such a connection, with a timer for each wait.
`TurnSteering` is the layer above: the command row, its claim by one of two
replicas, the post to the Worker, and the outcome: the refusal of the first post
decides it, while a delivery to Pi that failed is answered 503 as retryable
(`management-server.ts:82-106`) and posted again, after which the outcome is
unknown. `PiWorker` is the loop of the
pool: every `await` of `#run` and `#fillCapacity` is a step at which callbacks
run.

### Conversations, ModelGateway, Tenancy, Egress

`Conversations` models transactions at READ COMMITTED: a request takes its row
locks one after another in the order of its statements, reads other rows without
a lock, checks, and writes at its commit; PostgreSQL breaks deadlocks.
`ModelGateway` has the tenant's versions of a credential, capabilities of an
Attempt, and the reservation, lapse and settlement of each model request.
`Tenancy` has registrations, the bootstrap, logins that overlap, and what
revocation must survive. `Egress` has the operator's settings with their
revisions, the poll and the tunnels.

### MC modules

`MCRunLifecycle`, `MCLifecycle`, `MCSubagentTree`, `MCSubagents`, `MCEvents`,
`MCSandboxes`, `MCWorkers`, `MCServices`, `MCProgress` hold the instances.
Models that share no state are put side by side in one module: a variable
(`part`, `scene`) chosen at the start says which of them takes the steps of the
behaviour, the others stand still, and the state spaces add up instead of
multiplying. A scene is an instance of the same module with other constants
(which environment events, which holders compete). Every invariant is checked in
every part.

### RunLifecycleProofs, RunLeaseProofs, RunRowsProofs

The theorems about `RunLifecycle`, each module on top of earlier ones; see
section 5.

### SubagentTreeProofs

The theorems about `SubagentTree` and `SubagentChannel`, also in section 5.

### EventStreamProofs

The theorems about `EventPipeline` and `EventStream` together, for `EventStream`'s
specification; also in section 5.

### WorkerProofs

The theorems about a Worker host: `SupervisorLink` (who owns the Supervisor) and
`PiWorker` (its lanes); and about the Session that a Run on it continues: `StepContext`
(Cloud Steps) and `SteerExchange` (steers of the running Turn).

### SandboxProofs

The theorems about `SandboxBroker`; the inductive invariant is explained in section 5.

### ServiceProofs

The theorems about `Tenancy` (accounts, logins and credentials) and `ModelGateway`
(model requests, their budgets and their keys), with the lemmas about sums over
finite sets that the budgets need.

## 3. The runs

| Run | Instance | Checks |
| --- | --- | --- |
| `lifecycle` | two Workers; scenes: two Runs of one Session under crash, fence, lease, claim; one Run under every event that reaches a claimed Run, in two scenes (cancellation, refusals); two Sessions in one Workspace, as its head moves and as two Workers compete for it (one claim each); a Session and its fork | expiry and replacement of owners, one active Turn, legal transitions, how Runs settle, what becomes of the Workspace's head, and the refinement of `RunContract` |
| `subagents` | scenes: a tree of depth 2 under cancellation; isolated children; siblings that fail; delegation at several depths, in every Workspace mode; and one Tool call | delegation |
| `events` | parts: two Turns through the pipeline with one fault; a browser on short Turns; one Turn from Agent to reader | events and views, and the refinement of `EventLog` |
| `sandboxes` | scenes: a Run, a terminal and an environment in pairs on two replicas with one fault; a handover from parent to child; admission; and one guest over two Turns with two faults | Sandboxes and Volumes |
| `workers` | parts: a host that boots twice with two sockets and two replicas; the Pi log of two Runs; a pool with two lanes; two steers; Cloud Steps | the processes on a Worker host |
| `services` | parts: two clients with four requests; two model requests; two steer calls; two tabs on two instances; two registrations and logins; a tunnel under three revisions | the Control Plane's services |
| `progress` | parts: two Runs and two Workers that crash; one Turn's events and a browser; a host that boots twice | liveness, under fairness |
| `tenant_limit` | two Sessions in two Workspaces, `TenantLimit = 1` | violates `TenantConcurrencyLimit` |
| `projection_outage` | one Run; events, projection; `FairSpec` | violates `StartedRunSettles` |
| `cancellation_failure` | one Run; cancel | violates `SettledTurnHasTerminalEvent` |
| `worker_lanes` | depth 2, two slots | violates `DelegationNeverStalls` |
| `nested_sharing` | depth 2, a slot for every Run, `shared_serialized` | violates `DelegationNeverStalls` |

What the passing runs show, by component.

*Runs.* Two Workers never execute one Session, whatever expires or is retired
meanwhile; a Run that was acknowledged is never claimed again and settles once;
the rows of a Run, its attempt, its Session and its cancellation agree after every
commit; a Workspace has one writer, which works on its head, and branches keep
apart; capacity is accounted exactly. Together that implements `RunContract`.

*Delegation.* Concurrent starts keep a tree within its budget; a delegated
execution settles once and truthfully although a parent, an ancestor and a reaper
may all write it; an isolated Workspace is given back once; with a slot and a
lane for every node a tree stalls only where a descendant shares the Workspace
of a holder other than its parent; while its process lives and its
Tool call waits, a cancelled parent's descendants are all told to stop; an abort
leaves no leaf running, and a result is the child's own.

*Events.* Whatever is torn, the spool is rebuilt from its file; what a Worker was
told is durable carries its own fence; replay returns accepted events only; a
stored transcript is the Turn's; the projection is a prefix of the cursor and
repair restores it; the browser's cursor never jumps and its view is a prefix of
the log; server and browser fold a Turn to the same transcript, in order, with
every Tool settled. Pipeline and browsers together implement `EventLog`.

*Sandboxes.* A Workspace has one writer among Runs, terminals and environments; a
VM is always in some row or some live memory; an operation starts at most once;
freed slots reach the first waiter; a parent is set aside while its child has the
Sandbox; captures are whole and quiet; forks and imports are whole or absent.

*Workers.* One connection of a Supervisor is active, on its newest generation; a
fenced Sandbox is queued for retirement and terminated only after its process
stopped; the Pi log has one open operation, its branches end in whole answers, and
every started Tool gets one result; a lane stays free of parents; a steer is heard
once and its outcome is true where it is certain; the model is told of every
Sandbox it lost.

*Services.* Quotas and domain counts hold between overlapping transactions; a
deleted Workspace stays unused; budgets hold but for what a provider uses above
its reservation, and a request settles once; a provider's key leaves only for a
live Turn; a steer is delivered once per command; closed terminals leave no
shell, and an open shell keeps its Workspace to itself although its row is taken from
a live handler; revoked credentials stay revoked; a tunnel follows one revision.

What the violations show is in `PROJECT.json` under `findings`: the tenant limit
is checked without a lock and may be exceeded by overlapping claims; a
projection outage can strand a started Run, contrary to the comment in
`#recordFailure`; the failure of a started cancellation settles a Turn without its
public terminal event; and the reserved child lane does not keep waiting parents
from starving delegated Runs when a child delegates: it holds the lane itself,
until its Tool call reaches its five-minute deadline. And a chain of
`shared_serialized` children deadlocks at its third member: `#claimNext` exempts a
child from its direct parent's Turn only, and a grandchild waits for the Workspace
that its grandparent's Turn holds while that Turn waits for it, though admission is
said not to leave a chain deadlocked (`ARCHITECTURE.md:155-160`).

The limits of the passing statements are part of the result. `StallsOnlyBelowHolder`
is what is left of the claim `DelegationNeverStalls` over all three Workspace modes:
whenever nothing can move, a queued Run is to share the Workspace that an ancestor
above its parent holds, and that ancestor waits for it (`HeldAbove`). It needs a slot and a tenant lane for every
waiting node: `start` counts the active Runs of its own tree only, so two conversations
can fill a tenant's quota and wait.
`CancellationRelayed` leaves the scene with crashes and timeouts out: only the
process relays, and the reaper looks at executions, which a conversation has none
of. It is checked for two descendants: a `cancel` call throws when a grandchild
settles between the read and the write of its status, so with more grandchildren
both rounds of the relay could meet one. `ActiveSessionsBounded` allows one
session above the maximum for every login that overlaps. `BudgetsHold` counts of
a request's use what was reserved. `RuntimesAccounted` leaves out VMs that were
`stray`: created after their row had been reaped (section 7).

### Bounds

`MaxClaims` bounds the claims of one command, which the code does not bound: a
crash-looping pool would claim a Run for ever. Two claims (three in `progress`)
let a claim be replaced once under every interleaving of the first owner; a
third owner meets the same states as the second. `MaxAttempts` is the code's own
retry limit, 2, so that a retry and its exhaustion both happen. Two Workers are
an old and a new owner; two Runs are enough for mailbox order and for the
Workspace conflict, both of which are statements about pairs. One cancellation
request per Run: the code admits another after the first has failed, and then
starts from the same rows. All Sessions are conversations of one tenant, which
is the unit of the limits; subagent Sessions are `SubagentTree`'s.

A tree of three Runs has a Run that is both child and parent, which is where
recursion, relaying and reaping meet; two siblings are needed for a release that
is counted twice to show, three for two starts below one root that race. The
budgets are chosen so that the last admitted start reaches each of them.

Two Turns of two events are the smallest stream with a takeover inside and behind
a Turn; one fault is enough to separate any two writes, and two in the guest,
where a retry has to meet a second loss. Two replicas, boots, sockets, tabs,
clients and calls are an old and a new one. `MaxRequests = 4` covers two
concurrent pairs of requests, for instance a Turn, its settlement and two forks
with the same key. Counters that the code does not bound (`MaxSeq`, `MaxBoots`,
`MaxSockets`, `MaxVersions`, `MaxRevisions`, `MaxRuns`, `MaxSteps`) are bounded by
the guards that name them. Symmetry is used among Workers, replicas, clients and
children where nothing orders them, and never with a liveness property.

Deadlock is not checked: when every Run is settled, every request answered or
every bound reached the system is at rest.

### Fairness

`ProgressSpec` (`MCProgress`) states it part by part, and
`RunLifecycle!FairSpec` for `projection_outage`. A live Worker polls every second
and its event loop runs every continuation, so the steps of `#dispatch` are
weakly fair for each Worker and Run; which Worker claims is not determined, so the
claim is fair for the pool. An execution is bounded by the Run's maximum duration.
Clocks advance, so claims and leases expire. The projector, the maintenance
cycle and a browser's reconnect loop run for ever; the orchestrator restarts a
host and a gateway. The claim of a
retirement is strongly fair: the maintenance loop looks at every row each time it
comes round, while other claims lapse and are taken in between. Nothing is assumed
about crashes, faults, drains and users, and a crash removes the jobs of a
Worker, so a dead Worker owes nothing.

`AcceptedTurnSettles` excludes two situations the code does not settle: a Turn
queued behind one whose failure quarantined the Session, and a pool without a
live Worker. `SpoolsDrain` and `ViewCatchesUp` leave out an orphaned Kafka batch
(section 7), `FencedIsRetiredInTheEnd` a host that is never started again and a
retirement that is `blocked`, which the code leaves to an operator.

## 4. Correspondence

`PROJECT.json` maps every definition that models code to its lines. Where the
model is coarser than the code, the comment of the definition says so. The
states of `domain/src/state-machines.ts` that no code path writes are left out,
and so are the transient states a transaction passes through. The transition
tables are kept (`TurnTransitions` and its siblings) because the code asserts
them on every write; `TransitionsAreLegal` says these assertions never fire.

The definitions marked *mutant* are single changes to the definition that
follows them, each of which breaks one property.

## 5. The proofs

The theorems about `RunLifecycle` hold for any Sessions, Runs, Workers and
Workspaces, any set of
environment events and any bounds that satisfy the assumptions `RunLifecycle`
states: `ConstantsAssumption` (each Run has a Session, each Session a Workspace),
`BoundsAssumption` (attempts, claims and capacity are positive) and
`SessionsAssumption` (the `sessions` table is finite; only the reservation
counters need it). Every safety property of `RunLifecycle` that a run checks is
proved. The theorems about `SubagentTree` hold for any finite set of Runs, any roots
among them, any modes, budgets and faults (`TreeAssumption`), those about
`SubagentChannel` for any finite set of leaves, any requests, answers and faults
(`ChannelConstants`). Those about
`EventStream` hold for any number of Turns, events, batches and browsers, any
buffer, any number of faults and of rolled-back appends, with Kafka and Valkey and
without (`PipelineAssumption`). Those about a Worker host hold for any numbers of boots,
sockets and faults, any non-empty set of Control Plane replicas (`LinkAssumption`),
any finite sets of commands and any number of lanes (`PoolConstants`); those about a
Session for any Runs, steps, Sandboxes and environments (`ContextBounds`) and any
finite set of steers, any limit, tries and breaks (`ExchangeBounds`); those about the
Tool Broker for any replicas, holders, Workspaces, delegations, limits and faults
(`SandboxBrokerAssumption`, which keeps the three kinds of holders apart); those about
accounts for any names, rows and registrations and any finite set of logins
(`TenancyConstants`); and those about model requests for any finite set of them, any
Runs, Attempts, keys, budgets and faults (`GatewayConstants`, which keeps 0 for "no
Attempt" and the models to the two rates of the platform).

| Theorem | Module | States |
| --- | --- | --- |
| `TypeCorrect` | RunLifecycleProofs | `[]TypeOK` |
| `ClaimsAreCurrent`, `SettlesOnce` | RunLifecycleProofs | `[]OpenClaimIsCurrent`, `RunSettlesOnce` |
| `MailboxIsOrdered`, `TurnsAreAlone` | RunLifecycleProofs | `[]MailboxOrder`, `[]OneActiveTurn` |
| `BranchesAreSound`, `HeadsFollow` | RunLifecycleProofs | `[]BranchesSound`, `HeadFollowsCompletion` |
| `AcknowledgedRunsHoldLease`, `ExecutionsOwnSession` | RunLeaseProofs | `[]AcknowledgedHoldsLease`, `[]ExecutionOwnsSession` |
| `ReservationsAccount` | RunLeaseProofs | `[]CapacityAccounting` |
| `RowsAgreeThroughout`, `TransitionsLegal` | RunRowsProofs | `[]LifecycleAgreement`, `TransitionsAreLegal` |
| `RunsImplementContract` | RunRowsProofs | `ImplementsContract`: `RunContract` is implemented |
| `TreesAreSound` | SubagentTreeProofs | `[]TreeSound` |
| `ExecutionsReflect`, `ExecutionsSettleOnce` | SubagentTreeProofs | `[]ExecutionReflectsRun`, `SettledExecutionIsFinal` |
| `LeavesAreSound` | SubagentTreeProofs | `[]LeavesSound` |
| `PipelineInvariant`, `NothingIsLost` | EventStreamProofs | `[]PipeInv`, `[]AcceptedIsKept` |
| `BrowsersInvariant`, `StreamsNeverJump` | EventStreamProofs | `[]BrowsersOK`, `[](StreamTypeOK /\ StreamNeverJumps)` |
| `TranscriptsCanonical` | EventStreamProofs | `[]TranscriptsAreCanonical` |
| `BrowsersFollowTheLog` | EventStreamProofs | `[]ViewsFollowTheLog` |
| `ReadersAreSound` | EventStreamProofs | `[]ProjectionSound` |
| `PipelineImplementsEventLog` | EventStreamProofs | `ImplementsEventLog`: `EventLog` is implemented |
| `OwnersAreSound` | WorkerProofs | `[]OwnershipSound` |
| `LanesAreSound` | WorkerProofs | `[]LanesSound` |
| `ContextsAreSound` | WorkerProofs | `[]ContextSound` |
| `SteersAreSound` | WorkerProofs | `[]SteersSound` |
| `TenantsAreSound` | ServiceProofs | `[]TenancySound` |
| `RevocationsLast` | ServiceProofs | `RevokedStaysRevoked`, a conjunct of the run's `SettledStays` |
| `GatewaysAreSound` | ServiceProofs | `[]GatewaySound` |
| `RequestsSettleOnce` | ServiceProofs | `SettledOnce`, a conjunct of the run's `SettledStays` |
| `WritersAreAlone` | SandboxProofs | `[]OneWriter` |
| `RuntimesAreAccounted` | SandboxProofs | `[]RuntimesAccounted`, a conjunct of the run's `RuntimesManaged` |

`TypeOK` is inductive by itself; its interesting part is that `active_sessions`
stays a natural number, which needs the `Releasable` check in front of every
decrement. `CapacityAccounting` is inductive together with it: the proof counts
the leases of a Sandbox before and after an acquisition, a release, a takeover
and a retirement.

The other properties follow from no action's guard. A claim's commit writes
without looking at the rows again, a phase signal looks at the attempt only,
most transactions check two rows and write five. The inductive invariants say
why they may, each proved on top of the earlier ones:

* `IInv` (settlement). `RowsAgree`: turn, command and run of one message are in
  one of six joint states, so a check of one of them determines the others;
  `OpenClaimIsCurrent`: the Run of an open claim is where the SELECT saw it,
  because every writer of the Session's Runs needs the Session's row;
  `JobsFollowRows`: a dispatch knows no claim that is not committed, and one that
  started under the current claim has an acknowledged Run.
* `MailboxInv` (mailbox). `MailboxOrder` and `OneActiveTurn` are not inductive: the
  commit of a claim does not look for earlier commands or other Turns of the
  Session. Each has a twin about open claims (`ClaimInOrder`, `ClaimAlone`): what
  the SELECT saw is still true while the Session's row is locked. The Workspace
  needs no twin, because the commit checks it again.
* `SessionsFollow` and `BranchInv` (heads). The Session's state follows the Turn;
  an open claim will record the Workspace's head (`ClaimOnHead`), which moves only
  with all Sessions of the Workspace unlocked, and a staged version belongs to a
  Run that has finished its work (`StagedLate`), so at most one Run can move a head.
* `OwnerInv` (leases) says what a comparison of claims and of fences is worth. A
  fence names one attempt (`FencesNameAttempts`); a current claim is its Worker's,
  and past its ACK if the Run is (`ClaimsOwned`); an execution or a started
  cancellation belongs to the attempt's owner (`StartedHolds`, `CancelsOwned`); a
  retirement has killed its process before it looks at the leases
  (`ProcessesLive`). So a late Worker, whose claim was superseded, holds neither
  the claim nor the fence, and can release or replace nothing.
* `RunSound` (rows), one Run at a time: the outbox row is published from the ACK
  on, the current attempt is in the Run's state and no later attempt exists, the
  command records the outcome, the cancellation is acknowledged exactly while the
  Turn is cancelling, and the terminal event is there from the settlement on. With
  it each write is compared with the transition tables.

The proofs are organised by what a step writes, not by the action alone.
`FrameStep`, `QuietStep` and `RowWriteStep` say once what a step owes to `IInv`;
`NextKinds`, `NextAttempts`, `NextLeases`, `NextStarts`, `NextCancels`,
`NextDeaths` and `NextRows` each split `Next` into the few actions that write one
kind of state and a frame for all others. The claim, the acquisition, the phase
signal and the reconciler have proofs of their own.

The refinement takes `OwnerInv` with all before it and goes action by action. An
acceptance, an ACK, a failed claim, a settlement and a retirement map to `Accept`,
`Start`, `Reject`, `Finish` and `Lose`; everything else stutters, a requeue
included. `Start` has its mailbox order and its solitude from `MailboxInv`; that the
executor stays the same until the settlement, and that a retirement loses only what
its own Worker executed, are facts of `OwnerInv`.

`HeadFollowsCompletion` is proved and not run: of it, `ImplementsContract` shows
that a head moves only when a Run of an unforked Session ends completed, and
`BaseIsHead` that it moves from that Run's base.

### Delegation

`TreeInv` is the inductive invariant of `SubagentTree`.

* `TreesCounted` and `NodesHang` (the budget). Start counts in one step and inserts in
  a later one. Between them it holds the lock of the root's row, so one start at a
  time is open in a tree (whose parent may be any Run of it), and the tree still has
  room for its child. A parent is a root or a committed child, whose place in the
  tree nobody changes; a start that dies with its process leaves no place behind.
* `ReadsTrue` (stale status calls). A settled state that was read and not yet written
  is still the Run's, since a settled Run never moves; an unsettled one may be stale
  and is then rejected by the check constraint (`Rejected`). So `status` may read
  outside its transaction.
* `ChildrenKnown`: processes, relays, cancellations and the reaper hold only children
  whose start has committed, and none of them is a root.
* `WorkspacesAccounted` and `ExecutionReflectsRun` themselves.

`NextRows` says what may become of the rows of one Run in any step (begun, ready,
dropped before it started, polled, or living on); the three theorems and
`WorkspacesAccounted` follow from it Run by Run. `NextTrees` says that a tree grows
only by the child whose start commits.

`LeavesInv` is that of `SubagentChannel`.

* `LeafKnown`: a child is admitted by the one start that its leaf waits for, a cancel
  is only asked for a child that was admitted, and a child in `jobs.cancelled` has
  ended. So what `cancelAdmitted` finds admitted and not cancelled is every child that
  may still live, and once the call has settled no message of its thread can start or
  wake one (`AbortKnown`).
* `OutcomeKnown`, `ReportKnown`: an outcome that was read is final, and a report is made
  when no wait is left, after which the thread starts no other.

### Events

Four inductive invariants, each on top of the earlier ones.

* `PipeInv` (Worker to gateway). `LogOK`: the log is a sequence of blocks, one per
  Turn, whose last entry alone is terminal. `CursorsOK` and `WindowsOK`: persisted,
  projected, floor and the bounds of a spool stand in the order the code relies on
  without checking it. `SpoolsOK`: the file of a spool reads back to the spool
  (`Rebuilds`), whatever its last record lost; a publication, its answer and the
  cursor that it will set are each about the Turn's own events (`SpoolOK`), so an
  answer that arrives late acknowledges nothing else. `KafkaOK`: every batch of the
  broker is an accepted one or the leftover of a rollback (`Orphaned` says one was
  left behind for good). `LiveOK`: the live store has what is projected, but for what
  a trim removed and a loss took.
* `BrowsersOK` (cursors). What a browser has read may be old when it uses it: the
  replay position of its conversation, the Turn of its snapshot, the high-water mark
  of its window. All are bounded by the projected cursor at the time of use, because
  cursors only grow, and `Horizon`, the last terminal event, bounds what a loaded
  conversation shows. From it the reducer's cursor is never behind the stream's.
* `ReadersOK` (contents). `SettlementsOK` says of each stage of a settlement
  (prepared, read, stored) that it holds accepted events of its Turn, all of them once
  it is stored. `ViewsOK` says of every phase of a browser what its view, its loaded
  transcripts and its hole cover.
* `ProjectorOK` (projector and repair), where no batch is an orphan and no range was
  sent again in another publication (`Recut`). `SentOK`: an event of the live stream is
  marked `batched` as the envelope is that holds it. `BatchesInOrder`: an ingestion begins at the cursor it has read,
  so accepted batches lie in the broker in the order of their ranges, two that overlap
  end at the same event and have the same digest, and whatever is behind the projector is projected. `FloorOK`:
  the live store is trimmed to the end of a Turn, never into one. `AheadOK`: what a
  projection whose commit was rolled back leaves beyond the cursor is whole, accepted
  and ends where a batch ends. `StoppedOK`: a projector stops for a reason that lasts,
  and only an orphan or a range sent twice is one. Therefore a rebuild meets each batch
  either whole or not at all (`RebuildTakesAll`), and a projector that resumes after it
  finds the next batch next (`NextEnvelope`).

The replay of a spool's file and the rebuild of the live store are recursive
functions. What they return is proved by the least element of a set of natural
numbers (`LeastNat`, from the library's well-founded relations), since the induction
theorems cannot be instantiated: `Unfolds` and `Rebuilds` follow the file record by
record, `RebuiltUpto` the batches one by one.

`StepKinds` says what a step does to the log: nothing, an accepted batch, a terminal
event, or a settlement in preparation; `StepExtends` what no step takes back (batches,
entries, cursors, transcripts) and `OrphansStay` that an orphan batch stays one.
The refinement follows from them: an accepted batch is a sequence of appends to one
block, an accepted terminal event closes it, a browser's step moves one reader, and
everything else stutters.

The proofs cover what the run cannot reach: with one fault TLC sees one crash or one
loss; the theorems hold for every combination. That is where the two
exceptions `Orphaned` and `Recut` come from (section 7).

### Worker hosts

`LinkInv` is the inductive invariant of `SupervisorLink`.

* `BootsFollow` (one owner). A replica that activates a connection compares no
  generations of hosts; it fences the Sandboxes of the Supervisor that are not its
  own. The invariant says why that is enough: where a generation has a connection
  row, every older one has a Sandbox that cannot register any more, and a
  registration still on a socket is of a boot that has happened.
* `StopsHold` (quiet before terminated). A replica stops a host, learns that it
  stopped, renews its claim and terminates the Sandbox in separate steps, and the
  claim may lapse and be taken by another replica in between. What it learnt stays
  true, because a process that has stopped (`BootQuiet`) never claims a Run again and
  a new process has a new boot.
* `RetirementsFollow`: a retirement is about a fenced boot, so a step of a replica
  that is late writes nothing about a Sandbox in service. `HostOK`: the fields of the
  host agree with its phase, and the ledger with its boot.

`RowsStay` is the frame of the steps that write none of this, `RetirementsProceed`
that of a retirement before and after it terminates the Sandbox.

`LanesInv` is that of `PiWorker`. `EntriesOK`: every root Run that executes is entered,
so the number of entries bounds the executions. `LanesFit` carries the count over the
wait for the execution plane: what was selected is disjoint from what is entered and
fits beside it, and only the loop enters. `LanesQuiet`: when `stop` waits, the loop
has ended and each execution of a root Run is among those it awaits.

### Sessions

`ContextInv` is the inductive invariant of `StepContext`. A controller learns the state
of its Session from the newest state entry alone, and appends messages and the state
in separate steps between any two of which the Worker may die.

* `WorldKept`: what the controller remembers is what the newest state entry says, and
  from a step's capture to its end it is the Sandbox as it is; what it has shown, the
  Session ends in.
* `KnownFollowed`: of the Sandbox in which the model last ran a tool the Session says
  either that it is active still, in the newest state entry, or, in a later reset
  message, that it is gone. It is that disjunction that survives a death between the
  message and the state, where the next Run says the same again.
* `StepsNumbered`: the requests carry numbers that were given out, and the one that is
  about to leave carries a new one.

`SteersInv` is that of `SteerExchange`: four facts of each command.

* `ReportOK`: what has started, or may be started by a commit on its way (`MayStart`),
  is known to whoever called: a call waits for its result, has reported it as
  delivered, or was reported as ambiguous. So a failure reported without an ambiguity
  before it is final. A result that arrives late is the command's own.
* `PreparationKept`: a preparation that is not committed is followed by a frame on its
  way, by the router, or by the end of its connection.
* `WorkOK` (the Worker's side): Pi has the text once if the command has completed and
  not at all before. `CallOK` (the router's side): a wait has its waiter.

A step moves one command on one side: `RouterStep` and `WorkerStep` say once what it
owes to the others. `BusyBound` counts the commands under way against the limit.

### Sandboxes

`BrokerInv` is the inductive invariant of `SandboxBroker`. A Workspace is held by rows
in PostgreSQL, VMs write it in Cube, and each replica acts on what it remembers of
both; a reservation is the only step that looks at all holders of a Workspace, and it
looks at rows only.

* `VmHeld`: a VM that may write has a row that holds its Workspace. Every step that
  gives a row up has destroyed the VM before, could not tell and writes "unknown",
  which still holds, or leaves one of the stray VMs of section 7. `HeldAlone`: rows hold a Workspace alone, but for a terminal that
  has taken it from a warm activation and still retires it; until that has happened
  the terminal has no VM. Together they are `OneWriter`.
* `HomesOK`: an activation is in the memory, the calls and the releases of one replica
  at most, one that is up, and its VM is that replica's. It says why what a replica
  remembers of an activation may be used without a look at the row: whoever else
  claims the row does not come to know the activation.
* `FlowsOK`, `EnvFlows`: what a provision under way is about, and that an environment
  that is being started has its row still, unless the replica lost its lease or the
  row was withdrawn. `ReapOK`: what is being reaped is closed and owned by the reaper.
  `DownOK`: a replica that is down remembers nothing.
* `QueuedOK`: a Run that has not been opened has no row of its name, so that a first
  activation takes nobody's.

Most steps only give things up, and `OrdinaryStep` proves them at once: rows stop
holding (`RowsFall`), VMs stop (`VmsFall`), calls and releases end or are about an
activation the replica knows (`FlowsFall`, `ClosingFalls`), memories name less
(`MemoryFalls`, `Sub`). The steps that give something out have proofs of their own:
the reservations (`ReservedStep`, from `ReserveAlone`), a terminal over a warm
activation, an environment, the return of a create, and the end of a replica, where
what is in flight may still come up (`LateVms`).

Three definitions of `SandboxBroker` were corrected when the proof asked for more than
they said: a terminal retires the very activation that its reservation returned, an
environment is provisioned only where the unique index admits its row, and a cancelled
waiter is one entry of the queue.

### Accounts

`TenancyInv` is the inductive invariant of `Tenancy`. That a tenant's name is unique
and each registration's tenant its own follows from the check beside the insert
(`NamesKept`). The bound on the sessions of an account does not, because a login reads
the list of active sessions, revokes the oldest and inserts its own without a lock:
`MaximumActiveSessions` may be exceeded, by as many sessions as logins overlap.

* `SignInsOK`, `UsedInOrder`: a login that has read the list has begun its row, no two
  share one, and `created_at` grows in the order in which rows begin.
* `UnseenBounded`: an older session that a login did not see was then under way in
  another login. For each of them, or for a login of an older row that is under way
  still, there is one login other than its own, so there are `|Logins| - 1` at most.
* `Excess`: let `h` be the newest session committed. The active sessions and the logins
  of older rows that are still to commit are together at most the limit and
  `|Logins| - 1`. A login with a row newer than `h` revokes all it has read beyond the
  limit, and `UnseenBounded` counts what it has not; a login with an older row only
  moves from the second number to the first.

### Model requests

`GatewayInv` is the inductive invariant of `ModelGateway`. Reservations commit one
after another under the lock of the policy row, but settlements take no lock, and a
lapsed row is still `reserved` until a commit aborts it: the totals that a reservation
reads are neither what is claimed when it reads them nor what is when it commits.

* `RequestsFollow`: who holds the totals holds the policy row, has no row yet, and
  finds the rows that it will abort `reserved` still, because it has locked them; a
  ledger row is there where the request is completed.
* `BudgetsFollow`: the sum of what is claimed is within the budgets; and, while a
  reservation is under way, the sum without the rows that it will abort (`Firm`) is
  within the totals that it has read. A settlement only lowers either sum
  (`RelievesKeeps`), a lapse moves neither, and the commit adds to `Firm` what it has
  found to fit (`CommitKeeps`).
* `NumbersFollow`: nobody takes a number of the Attempt after the one that was read.
* `KeysFollow`: a capability with a key is live, and its key is that of the version
  that the Run was accepted with; versions are appended and never rewritten.

`MapThenSumSet` is a recursive function over the parts of a set, in the order of a
`CHOOSE`. `SumsExist` gives such a function for every finite set, and `SumsAdd` takes
its terms in any order, both by a smallest part for which they fail (`SmallestPart`,
`FS_StrictSubsetOrderingWellFounded`) where an induction would be usual. `SumLess` and
`SumTakes` are what the steps need of it.

Each inductive invariant was checked with TLC before it was proved: those of
`RunLifecycle` on the instances of `lifecycle`, `TreeInv` on that of
`subagents`, as `LeavesInv`, those of `EventStream` on that of `events`,
those of the Worker hosts and of the Sessions on that of `workers`, `BrokerInv` and
`QueuedOK` on that of `sandboxes`, and `TenancyInv` and
`GatewayInv` (with `MapThenSumSet` for the sums) on the instances of `services`.

Only model-checked: of `SubagentTree`, `StallsOnlyBelowHolder`, which depends on the
sizes of slots and budgets, and `CancellationRelayed`, which holds where no process
dies; of the run `workers`, `LogSound` of `PiSession`;
`Transcript`; of `SandboxBroker`, the conjuncts of `RuntimesManaged` other than
`RuntimesAccounted`; the other components that the runs `sandboxes` and `services`
check, other than `Tenancy` and `ModelGateway`; and
liveness, which is out of the prover's reach.

## 6. Plan

What is still only model-checked, in the order in which a proof would say most:
`LogSound` of the Pi Session log; admission and delegation of the Sandboxes
(`AdmissionSound`, `ParentWaits`); and `TranscriptsAgree`.

Not planned: HTTP and WebSocket framing, configuration, installation scripts and
the rendering of the Web UI. They hold no state the properties depend on.

## 7. Observations

What the models exclude, or what their properties are worded around, because the
code behaves so. Each was met while modelling; those that contradict a document or
a comment of the repository are findings in `PROJECT.json`.

* *A VM created for a row that was reaped meanwhile.* The reaper of another
  replica may settle a terminal Run's `materializing` activation while `create` is
  in flight (`tool-broker.ts:1604-1615`); the VM that then comes up belongs to no
  row until Cube's own expiry. `RuntimesAccounted` exempts such `stray` VMs. The
  same follows from two concurrent delegated creates, and from a graceful close
  that releases rows with a create in flight (`tool-broker.ts:1440-1482`). A Web
  Terminal whose row is taken while its guest is created (`TakenFrom`) may leave one
  too; `NoAbandonedShell` and `ShellHoldsWorkspace` exempt it.
* *Terminals closed by another Agent's end.* `releaseRuntimeAssignment` marks all open
  terminals of the instance `unknown`, not those of the assignment
  (`activation-state-repository.ts:1645-1655`); the next sweep closes them.
* *An admission slot lost.* When `destroy` fails in `#closeTerminal` the slot is
  not given back (`tool-broker.ts:1771-1791`).
* *An orphan batch in Kafka.* The broker append precedes the PostgreSQL commit; if
  that rolls back and the lease is then lost, nobody appends the batch's rows and
  the projector waits for them (`durable-event-store.ts:655-660`, `960-989`).
  `SpoolsDrain` and `ViewCatchesUp` leave it out.
* *A Kafka batch that a rebuild finds twice.* After a rolled-back append, recovery
  sends the same events one by one, so Kafka may hold them in two publications, of
  different ranges or at least, for a batch of one event, with different digests: the
  digest is of the whole publication (`live-session-event-store.ts:161`). Valkey refuses
  a batch of which it has only a part (`18-22`) or another digest (`42-44`): the rebuild
  fails and the gateway does not start, or a projector that resumes after a rebuild
  stops for good. And a rebuild
  takes every retained batch up to the cursor (`live-event-rebuild.ts:118-128`), so
  an orphan batch may put events into Valkey, and from there into the transcript of
  a later, completed Turn, in place of the accepted ones. Both need a rolled-back
  append, a loss of Valkey and a gateway that restarts; they came up when the
  invariants of `EventPipeline` were stated for every bound, and TLC finds each
  with three faults. `ProjectorSound` and `RepairSucceeds` leave the first out
  (`Recut`), all three parts of `ProjectionSound` the second (`Orphaned`).
* *A partial append to the spool.* A write that fails half-way and an
  acknowledgement after it leave a file that recovery rejects
  (`wal-event-spool-codec.ts:386`); the spool's directory is keyed by the boot, so
  a restarted host does not look at it (`supervisor-host/runtime.ts:600-607`).
* *The order of registration.* A registration that arrives late supersedes a newer
  connection, or fences a newer boot (`supervisor-connection-manager.ts:500-520`).
  A renewal after a lapsed claim may leave a retirement `blocked` (`786-811`,
  `1084-1099`).
* *A late command acknowledgement* closes the socket with 1008, and the client
  revokes every execution of the Worker (`worker-control-channel.ts:525-577`,
  `supervisor-websocket-client.ts:1037-1097`). A steer whose answer is ambiguous
  and whose Run has ended is reported as failed although it was delivered.
* *A retried Tool operation.* The provider's retry reads the authority anew
  (`cubesandbox-sandbox-provider.ts:880-897`), so an operation may run a second
  time in a later Turn once the guest's ledger has dropped it.
* *The Pi log.* A Turn that was pruned may reappear if a Run had loaded the log
  before (`cloud-agent-runtime.ts:672-718`); the prune does not map the anchors of
  live forks (`conversation-tree-service.ts:386-392`).
* *Quotas.* Concurrent logins exceed the maximum of active sessions by the number
  that overlap; an anchor's move may exceed the maximum of tenants
  (`tenant-administration.ts:236-265`); a request that fails, or settles after its
  reservation lapsed, is not counted in full (`model-gateway.ts:865-875`).
* *Delegation.* A child's result may be accepted before its Run's row is settled
  (`pi-subagents-cloud-worker.ts:635-649`); a reply accepted just before a question
  expires is not heard.
* *The pool.* Work that is admitted across an `await` may exceed the bound by the
  Child that takes priority (`postgres-pi-worker.ts:186-208`, `251`), and
  cancellations are not dispatched while it drains.
* *The browser.* A reload in the middle of a Turn may fold events it has a
  snapshot of (`ChatApp.tsx:211-219`); a late answer of `POST /turns` shows
  "queued" for a running Turn.
