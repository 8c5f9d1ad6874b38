---------------------------- MODULE SubagentTree ----------------------------
(***************************************************************************)
(* Delegated execution: PostgresSubagentJobProvider, the Tool that relays  *)
(* a parent's abort to its children, the reaper, and the gates a delegated *)
(* Run passes before a Worker executes it.                                 *)
(*                                                                         *)
(* A Run that executes delegates work by start: a transaction that inserts *)
(* a child Session, Run and subagent_executions row under the lock of the  *)
(* root Run.  A child that gets its own Workspace is prepared first, by a  *)
(* fork outside the database.  The parent then waits inside its Tool call, *)
(* polling status.  The life of one Run is RunLifecycle's; here a Run is   *)
(* the state of its row.                                                   *)
(***************************************************************************)
EXTENDS Integers, FiniteSets

CONSTANTS
  Runs,                       \* every Run the instance may hold
  Roots,                      \* the Runs of user conversations
  Modes,                      \* workspace modes the agents ask for
  MaximumDepth,               \* CloudSubagentTreePolicy
  MaximumNodes,
  MaximumConcurrentSubagents,
  MaximumConcurrentTurns,     \* the tenant's maximum_concurrent_turns
  MaximumConcurrentRuns,      \* the slots of the Worker that executes the Runs
  Env                         \* what the environment may do

NoRun == "no run"

ASSUME TreeAssumption ==
  /\ Roots \subseteq Runs /\ NoRun \notin Runs /\ IsFiniteSet(Runs)
  /\ Modes \subseteq {"none", "shared_serialized", "isolated"}
  /\ MaximumDepth \in Nat /\ MaximumNodes \in Nat
  /\ MaximumConcurrentSubagents \in 1 .. MaximumNodes
  /\ MaximumConcurrentTurns \in Nat /\ MaximumConcurrentRuns \in Nat \ {0}
  /\ Env \subseteq {"cancel", "crash", "defer", "timeout"}

VARIABLES
  node,       \* subagent_executions: parent, root, depth, mode and Workspace
  execution,  \* subagent_executions.state, absent before start commits
  run,        \* runs.state
  open,       \* an unpublished turn.execute outbox row exists
  workspace,  \* the child's own Workspace: none, live or deleted
  assigned,   \* sandbox_domains.assigned_workspaces, isolated ones only
  request,    \* the turn.cancel command of the Run: none, open or closed
  admitting,  \* children whose start transaction has counted, not committed
  preparing,  \* #prepareIsolated in the parent's process: none, forking, failing
  polled,     \* the mapped Run state a status call has read, not yet written
  tool,       \* the Run's delegation Tool call: open, aborted or relaying
  relay,      \* children an aborted Tool call has still to cancel
  job,        \* the child in its parent's Tool call: waiting, seen, cancelled
  call,       \* cancel in flight per execution: step, caller, children, read
  reap        \* the reaper's current execution and its children to cancel

rowVars == <<node, execution, run, open, workspace, assigned, request>>
processVars == <<admitting, preparing, polled, tool, relay, job, call, reap>>
vars == <<rowVars, processVars>>

-----------------------------------------------------------------------------
\* "provisioning" stands for provisioning and restoring.
ExecutingStates == {"provisioning", "running", "checkpointing"}
ActiveStates == ExecutingStates \cup {"claimed", "cancel_requested"}
SettledStates == {"completed", "failed", "cancelled"}
RunStates == ActiveStates \cup SettledStates \cup {"absent", "queued"}
ExecutionStates ==
  SettledStates \cup {"absent", "preparing", "queued", "running"}

\* mapRunState.
MapRunState(s) ==
  CASE s \in SettledStates -> s
    [] s \in {"queued", "claimed"} -> "queued"
    [] OTHER -> "running"

Children(r) == {d \in Runs : execution[d] # "absent" /\ node[d].parent = r}
Tree(r) == {d \in Runs : execution[d] # "absent" /\ node[d].root = r}
Settled(d) == run[d] \in SettledStates
Active(d) == run[d] \in ActiveStates

NoCall == [step |-> "none", by |-> NoRun, children |-> {}, read |-> "absent"]
NoReap == [target |-> NoRun, children |-> {}]

NewNode(r) == [parent |-> NoRun, depth |-> 0, mode |-> "none", workspace |-> r,
               root |-> IF r \in Roots THEN r ELSE NoRun]

Init ==
  /\ node = [r \in Runs |-> NewNode(r)]
  /\ execution = [r \in Runs |-> "absent"]
  /\ run = [r \in Runs |-> IF r \in Roots THEN "queued" ELSE "absent"]
  /\ open = [r \in Runs |-> r \in Roots]
  /\ workspace = [r \in Runs |-> "none"]
  /\ assigned = 0
  /\ request = [r \in Runs |-> "none"]
  /\ admitting = {}
  /\ preparing = [r \in Runs |-> "none"]
  /\ polled = [r \in Runs |-> "absent"]
  /\ tool = [r \in Runs |-> "open"]
  /\ relay = [r \in Runs |-> {}]
  /\ job = [r \in Runs |-> "none"]
  /\ call = [r \in Runs |-> NoCall]
  /\ reap = NoReap

-----------------------------------------------------------------------------
(* start.                                                                    *)

\* Mutant: only the parent Run is locked, not the root of its tree.
LocksParent(d) == {node[d].parent}

\* The runs rows a start transaction holds FOR UPDATE until it commits.
LockedRuns(d) == {node[d].parent, node[d].root}
Locked(r) == \E d \in admitting : r \in LockedRuns(d)

\* The descendants start counts as active.
CountedActive(root) ==
  {d \in Tree(root) : run[d] \in {"queued", "claimed", "running"}}

\* The budgets start checks for one more child of p.
WithinBudget(p) ==
  LET root == node[p].root
      active == Cardinality(CountedActive(root))
  IN  /\ node[p].depth + 1 <= MaximumDepth
      /\ Cardinality(Tree(root)) < MaximumNodes
      /\ active < MaximumConcurrentSubagents
      /\ active + 2 <= MaximumConcurrentTurns

\* The first half of the transaction: the parent's authority is checked under
\* its lock, the tree is counted under the root's.  The parent's Tool call has
\* not been aborted.
StartAdmit(p, d, m) ==
  /\ d \notin Roots /\ execution[d] = "absent" /\ d \notin admitting
  /\ run[p] = "running"
  /\ ~Locked(p) /\ ~Locked(node[p].root)
  /\ WithinBudget(p)
  /\ node' = [node EXCEPT ![d] =
       [parent |-> p, root |-> node[p].root, depth |-> node[p].depth + 1,
        mode |-> m,
        workspace |-> IF m = "isolated" THEN d ELSE node[p].workspace]]
  /\ admitting' = admitting \cup {d}
  /\ UNCHANGED <<execution, run, open, workspace, assigned, request>>
  /\ UNCHANGED <<preparing, polled, tool, relay, job, call, reap>>

\* The second half: the rows appear.  An isolated child has no outbox row yet.
StartCommit(d) ==
  LET isolated == node[d].mode = "isolated" IN
  /\ d \in admitting
  /\ admitting' = admitting \ {d}
  /\ run' = [run EXCEPT ![d] = "queued"]
  /\ execution' = [execution EXCEPT ![d] =
       IF isolated THEN "preparing" ELSE "queued"]
  /\ open' = [open EXCEPT ![d] = ~isolated]
  /\ workspace' = [workspace EXCEPT ![d] = IF isolated THEN "live" ELSE "none"]
  /\ assigned' = IF isolated THEN assigned + 1 ELSE assigned
  /\ preparing' = [preparing EXCEPT ![d] = IF isolated THEN "forking" ELSE "none"]
  /\ job' = [job EXCEPT ![d] = "waiting"]
  /\ UNCHANGED <<node, request, polled, tool, relay, call, reap>>

-----------------------------------------------------------------------------
(* #prepareIsolated.                                                         *)

\* Mutant: the transaction does not look at the execution again.
Unchecked(d) == d \in Runs

StillPreparing(d) == execution[d] = "preparing"

\* The fork succeeded: under the locks of the parent Run and the execution the
\* child becomes eligible, unless someone settled it in the meantime.
PrepareCommit(d) ==
  /\ preparing[d] = "forking"
  /\ ~Locked(node[d].parent)
  /\ \/ /\ StillPreparing(d) /\ run[node[d].parent] = "running"
        /\ execution' = [execution EXCEPT ![d] = "queued"]
        /\ open' = [open EXCEPT ![d] = TRUE]
     \/ /\ ~StillPreparing(d)
        /\ UNCHANGED <<execution, open>>
  /\ preparing' = [preparing EXCEPT ![d] = "none"]
  /\ UNCHANGED <<node, run, workspace, assigned, request>>
  /\ UNCHANGED <<admitting, polled, tool, relay, job, call, reap>>

\* The fork failed, or the parent lost its authority while it ran.
PrepareFails(d) ==
  /\ preparing[d] = "forking"
  /\ preparing' = [preparing EXCEPT ![d] = "failing"]
  /\ UNCHANGED <<rowVars, admitting, polled, tool, relay, job, call, reap>>

\* The Workspace of d is deleted and given back to its domain, once.
ReleaseWorkspace(d, releases) ==
  IF releases /\ workspace[d] = "live"
  THEN /\ workspace' = [workspace EXCEPT ![d] = "deleted"]
       /\ assigned' = IF assigned > 0 THEN assigned - 1 ELSE 0
  ELSE UNCHANGED <<workspace, assigned>>

SettlePreparation(d) ==
  /\ IF StillPreparing(d)
     THEN /\ execution' = [execution EXCEPT ![d] = "failed"]
          /\ run' = [run EXCEPT ![d] = "failed"]
     ELSE UNCHANGED <<execution, run>>
  /\ ReleaseWorkspace(d, StillPreparing(d))
  /\ UNCHANGED <<node, open, request>>

FailPreparation(d) ==
  /\ preparing[d] = "failing"
  /\ preparing' = [preparing EXCEPT ![d] = "none"]
  /\ SettlePreparation(d)
  /\ job' = [job EXCEPT ![d] = "none"]
  /\ UNCHANGED <<admitting, polled, tool, relay, call, reap>>

\* The reaper fails a preparation that has not advanced for twenty minutes,
\* whether the process that forks the Workspace is gone or only slow.
ReapStale(d) ==
  /\ StillPreparing(d)
  /\ SettlePreparation(d)
  /\ UNCHANGED processVars

-----------------------------------------------------------------------------
(* status.                                                                   *)

\* The check constraint on settled_at rejects an unsettled state over a
\* settled one: the transaction fails and status throws.
Rejected(d, s) ==
  execution[d] \in SettledStates /\ s \notin SettledStates

\* What status writes after it has read and mapped the Run state to s.
WriteStatus(d, s) ==
  /\ IF Rejected(d, s)
     THEN UNCHANGED execution
     ELSE execution' = [execution EXCEPT ![d] = s]
  /\ ReleaseWorkspace(d, s \in SettledStates)
  /\ UNCHANGED <<node, run, open, request>>

\* An aborted Tool call is still waiting for its first cancellations.
Cancelling(p) ==
  tool[p] = "aborted" /\
    (relay[p] # {} \/ \E d \in Children(p) : call[d].by = p)

\* The parent's Tool call polls its child until it has seen the end of it, and
\* still does while it cancels.
PollRead(d) ==
  /\ job[d] \in {"waiting", "cancelled"} /\ execution[d] # "preparing"
  /\ preparing[d] = "none" /\ polled[d] = "absent"
  /\ run[node[d].parent] = "running" \/ Cancelling(node[d].parent)
  /\ polled' = [polled EXCEPT ![d] = MapRunState(run[d])]
  /\ UNCHANGED <<rowVars, admitting, preparing, tool, relay, job, call, reap>>

\* A status that throws fails the wait, too.
PollWrite(d) ==
  /\ polled[d] # "absent"
  /\ WriteStatus(d, polled[d])
  /\ job' = [job EXCEPT ![d] =
       IF @ = "waiting" /\ (polled[d] \in SettledStates \/ Rejected(d, polled[d]))
       THEN "seen" ELSE @]
  /\ polled' = [polled EXCEPT ![d] = "absent"]
  /\ UNCHANGED <<admitting, preparing, tool, relay, call, reap>>

\* waitForCloudResult gives up after five minutes; the child goes on.
GiveUp(d) ==
  /\ "timeout" \in Env
  /\ job[d] = "waiting" /\ preparing[d] = "none" /\ polled[d] = "absent"
  /\ tool[node[d].parent] = "open"
  /\ job' = [job EXCEPT ![d] = "seen"]
  /\ UNCHANGED <<rowVars, admitting, preparing, polled, tool, relay, call, reap>>

\* Nothing is left to wait for: the Tool call returns to the agent.
ToolReturns(p) ==
  /\ tool[p] = "open" /\ \E d \in Children(p) : job[d] = "seen"
  /\ \A d \in Runs : node[d].parent = p => d \notin admitting /\ job[d] # "waiting"
  /\ job' = [d \in Runs |-> IF node[d].parent = p THEN "none" ELSE job[d]]
  /\ UNCHANGED <<rowVars, admitting, preparing, polled, tool, relay, call, reap>>

-----------------------------------------------------------------------------
(* cancel.  One call per execution at a time; its caller is the Run whose    *)
(* process makes it, or the reaper.                                          *)

\* cancel begins by listing the children of x.
CancelCall(x, by) ==
  [step |-> "children", by |-> by, children |-> Children(x), read |-> "absent"]

\* x waits for its call to cancel(y).
Calls(x, y) ==
  call[x].step = "children" /\ y \in call[x].children /\ call[x].by = call[y].by

\* The recursive call for one of the listed children, one after the other.
CancelDescend(x, y) ==
  /\ call[x].step = "children" /\ y \in call[x].children
  /\ \A z \in call[x].children : ~Calls(x, z)
  /\ call[y].step = "none"
  /\ call' = [call EXCEPT ![y] = CancelCall(y, call[x].by)]
  /\ UNCHANGED <<rowVars, admitting, preparing, polled, tool, relay, job, reap>>

\* Mutant: the child's runs row is left queued.
CancelExecutionOnly(x) ==
  /\ execution[x] = "preparing" \/ run[x] = "queued"
  /\ open' = [open EXCEPT ![x] = FALSE]
  /\ execution' = [execution EXCEPT ![x] = "cancelled"]
  /\ UNCHANGED <<node, run, workspace, assigned, request>>

\* The execution is settled without ever having been dispatched.
CancelBeforeStart(x) ==
  /\ execution[x] = "preparing" \/ run[x] = "queued"
  /\ open' = [open EXCEPT ![x] = FALSE]
  /\ run' = [run EXCEPT ![x] = "cancelled"]
  /\ execution' = [execution EXCEPT ![x] = "cancelled"]
  /\ UNCHANGED <<node, workspace, assigned, request>>

\* A turn.cancel command is inserted unless one is pending.  Its idempotency
\* key names the execution: once a command with it has been settled the insert
\* violates commands_session_idempotency_unique and cancel throws.
RequestCancellation(x) ==
  /\ execution[x] # "preparing" /\ run[x] # "queued"
  /\ request[x] # "closed"
  /\ request' = [request EXCEPT ![x] = "open"]
  /\ UNCHANGED <<node, execution, run, open, workspace, assigned>>

\* The transaction, and the read of the status call that follows it.
CancelCommit(x) ==
  LET settled == execution[x] \in SettledStates IN
  /\ call[x].step = "children" /\ call[x].children = {}
  /\ ~Locked(x)
  /\ \/ /\ \/ settled /\ UNCHANGED rowVars
           \/ ~settled /\ (CancelBeforeStart(x) \/ RequestCancellation(x))
        /\ call' = [call EXCEPT ![x].step = "status", ![x].read = MapRunState(run'[x])]
     \/ /\ ~settled /\ request[x] = "closed"
        /\ execution[x] # "preparing" /\ run[x] # "queued"
        /\ call' = [call EXCEPT ![x].step = "thrown"]
        /\ UNCHANGED rowVars
  /\ UNCHANGED <<admitting, preparing, polled, tool, relay, job, reap>>

\* The write of that status call, and the return to the caller.
CancelReturn(x) ==
  /\ call[x].step = "status"
  /\ WriteStatus(x, call[x].read)
  /\ call' = IF Rejected(x, call[x].read)
             THEN [call EXCEPT ![x].step = "thrown"]
             ELSE [z \in Runs |->
                     IF z = x THEN NoCall
                     ELSE IF Calls(z, x)
                     THEN [call[z] EXCEPT !.children = @ \ {x}]
                     ELSE call[z]]
  /\ job' = [job EXCEPT ![x] =
       IF call[x].by = node[x].parent /\ ~Rejected(x, call[x].read)
       THEN "cancelled" ELSE @]
  /\ UNCHANGED <<admitting, preparing, polled, tool, relay, reap>>

\* The error leaves the calls that wait for this one; the Tool call ignores it
\* and the reaper gives up its round.
CancelThrows(x) ==
  /\ call[x].step = "thrown"
  /\ call' = [z \in Runs |->
       IF z = x THEN NoCall
       ELSE IF Calls(z, x) THEN [call[z] EXCEPT !.step = "thrown"]
       ELSE call[z]]
  /\ reap' = IF call[x].by = "reaper" THEN NoReap ELSE reap
  /\ UNCHANGED <<rowVars, admitting, preparing, polled, tool, relay, job>>

\* admittedJobs without cancelledJobs: children whose start has returned.
Uncancelled(p) ==
  {d \in Children(p) : job[d] \in {"waiting", "seen"} /\ preparing[d] = "none"}

\* Mutant: a cancellation that threw is not tried again.
RelayOnce(p) ==
  /\ tool[p] = "aborted" /\ ~Cancelling(p)
  /\ \A d \in Runs : node[d].parent = p =>
       d \notin admitting /\ preparing[d] = "none" /\ polled[d] = "absent"
  /\ tool' = [tool EXCEPT ![p] = "relaying"]
  /\ relay' = [relay EXCEPT ![p] = {}]
  /\ UNCHANGED <<rowVars, admitting, preparing, polled, job, call, reap>>

\* The cancelAdmitted of an aborted Tool call: once the calls to the provider
\* have ended, every child is cancelled whose cancellation has not succeeded.
RelayBegin(p) ==
  /\ tool[p] = "aborted" /\ ~Cancelling(p)
  /\ \A d \in Runs : node[d].parent = p =>
       d \notin admitting /\ preparing[d] = "none" /\ polled[d] = "absent"
  /\ tool' = [tool EXCEPT ![p] = "relaying"]
  /\ relay' = [relay EXCEPT ![p] = Uncancelled(p)]
  /\ UNCHANGED <<rowVars, admitting, preparing, polled, job, call, reap>>

RelayCancel(d) ==
  LET p == node[d].parent IN
  /\ p \in Runs /\ d \in relay[p] /\ call[d].step = "none"
  /\ call' = [call EXCEPT ![d] = CancelCall(d, p)]
  /\ relay' = [relay EXCEPT ![p] = @ \ {d}]
  /\ UNCHANGED <<rowVars, admitting, preparing, polled, tool, job, reap>>

-----------------------------------------------------------------------------
(* reapStalePreparations: executions whose Run has ended unseen.             *)

ReapBegin(x) ==
  /\ reap = NoReap
  /\ execution[x] \in {"queued", "running"} /\ Settled(x)
  /\ reap' = [target |-> x, children |->
       {d \in Children(x) : execution[d] \notin SettledStates}]
  /\ UNCHANGED <<rowVars, admitting, preparing, polled, tool, relay, job, call>>

ReaperIdle == \A z \in Runs : call[z].by # "reaper"

ReapCancel(d) ==
  /\ d \in reap.children /\ call[d].step = "none" /\ ReaperIdle
  /\ call' = [call EXCEPT ![d] = CancelCall(d, "reaper")]
  /\ reap' = [reap EXCEPT !.children = @ \ {d}]
  /\ UNCHANGED <<rowVars, admitting, preparing, polled, tool, relay, job>>

ReapStatus ==
  /\ reap.target \in Runs /\ reap.children = {} /\ ReaperIdle
  /\ WriteStatus(reap.target, MapRunState(run[reap.target]))
  /\ reap' = NoReap
  /\ UNCHANGED <<admitting, preparing, polled, tool, relay, job, call>>

-----------------------------------------------------------------------------
(* The Runs on their Workers, as far as delegation sees them.                *)

\* Mutant: a child without a Workspace of its own is not exempt.
ExemptShared(d, q) ==
  d \notin Roots /\ node[d].mode = "shared_serialized" /\ node[d].parent = q

\* The active Turn of q does not keep the delegated Run d from the Workspace.
Exempt(d, q) ==
  /\ d \notin Roots
  /\ \/ node[d].mode = "none"
     \/ node[d].mode = "shared_serialized" /\ node[d].parent = q

WorkspaceBusy(d) ==
  \E q \in Runs \ {d} :
    Active(q) /\ node[q].workspace = node[d].workspace /\ ~Exempt(d, q)

\* RunCommandExecutor.#claimNext for a Run of this tenant.
Claimable(d) ==
  /\ run[d] = "queued" /\ open[d] /\ workspace[d] # "deleted"
  /\ ~WorkspaceBusy(d)
  /\ Cardinality({q \in Runs \ {d} : Active(q)}) < MaximumConcurrentTurns

MaximumParents ==
  IF MaximumConcurrentRuns < 2 THEN 1 ELSE MaximumConcurrentRuns - 1

\* selectPiWorkerExecutionReferences.
HasSlot(d) ==
  /\ Cardinality({q \in Runs : Active(q)}) < MaximumConcurrentRuns
  /\ d \in Roots => Cardinality({q \in Roots : Active(q)}) < MaximumParents

SetRun(r, s) ==
  /\ ~Locked(r)
  /\ run' = [run EXCEPT ![r] = s]

Claim(r) ==
  /\ Claimable(r) /\ HasSlot(r)
  /\ SetRun(r, "claimed")
  /\ UNCHANGED <<node, execution, open, workspace, assigned, request, processVars>>

\* Before the acknowledgement a failed delivery returns the Run to the queue.
Defer(r) ==
  /\ "defer" \in Env /\ run[r] = "claimed"
  /\ SetRun(r, "queued")
  /\ UNCHANGED <<node, execution, open, workspace, assigned, request, processVars>>

NextPhase == [claimed |-> "provisioning", provisioning |-> "running",
              running |-> "checkpointing"]

\* No Tool call of r is in progress.
ToolReturned(r) ==
  \A d \in Runs : node[d].parent = r => d \notin admitting /\ job[d] = "none"

Advance(r) ==
  /\ run[r] \in DOMAIN NextPhase
  /\ run[r] = "running" => ToolReturned(r)
  /\ SetRun(r, NextPhase[run[r]])
  /\ open' = [open EXCEPT ![r] = @ /\ run[r] # "claimed"]
  /\ UNCHANGED <<node, execution, workspace, assigned, request, processVars>>

RunEnds(r) ==
  /\ run[r] \in ExecutingStates \cup {"claimed"} /\ ToolReturned(r)
  /\ \/ run[r] \in {"running", "checkpointing"} /\ SetRun(r, "completed")
     \/ SetRun(r, "failed")
  /\ open' = [open EXCEPT ![r] = FALSE]
  /\ UNCHANGED <<node, execution, workspace, assigned, request, processVars>>

\* A user cancels the Turn of a conversation.
UserCancels(r) ==
  /\ "cancel" \in Env
  /\ r \in Roots /\ run[r] = "running" /\ request[r] = "none" /\ ~Locked(r)
  /\ request' = [request EXCEPT ![r] = "open"]
  /\ UNCHANGED <<node, execution, run, open, workspace, assigned, processVars>>

\* RunCancellationExecutor reaches the process: the Tool call is aborted and
\* first cancels the jobs it is waiting for.
Abort(r) ==
  /\ request[r] = "open" /\ run[r] \in ExecutingStates
  /\ SetRun(r, "cancel_requested")
  /\ tool' = [tool EXCEPT ![r] = "aborted"]
  /\ relay' = [relay EXCEPT ![r] = {d \in Children(r) :
       preparing[d] = "none" /\ job[d] = "waiting"}]
  /\ UNCHANGED <<node, execution, open, workspace, assigned, request>>
  /\ UNCHANGED <<admitting, preparing, polled, job, call, reap>>

\* The agent's end is confirmed, or its cancellation fails with its Run; the
\* Tool call may still be relaying.
RunCancelled(r) ==
  /\ run[r] = "cancel_requested"
  /\ SetRun(r, "cancelled") \/ SetRun(r, "failed")
  /\ request' = [request EXCEPT ![r] = "closed"]
  /\ UNCHANGED <<node, execution, open, workspace, assigned, processVars>>

\* The request is given up: its target has ended or could not be reached.
CancellationFails(r) ==
  /\ request[r] = "open" /\ run[r] # "cancel_requested"
  /\ request' = [request EXCEPT ![r] = "closed"]
  /\ UNCHANGED <<node, execution, run, open, workspace, assigned, processVars>>

\* The Worker that executes r dies and retirement settles the Run.  What its
\* process was doing for r's children is lost, an open transaction rolled back.
Crash(r) ==
  LET child(d) == node[d].parent = r IN
  /\ "crash" \in Env
  /\ run[r] \in ExecutingStates \cup {"cancel_requested"}
  /\ \A d \in admitting : r \in LockedRuns(d) => child(d)
  /\ run' = [run EXCEPT ![r] = "failed"]
  /\ node' = [d \in Runs |->
       IF d \in admitting /\ child(d) THEN NewNode(d) ELSE node[d]]
  /\ request' = [request EXCEPT ![r] = IF @ = "open" THEN "closed" ELSE @]
  /\ admitting' = {d \in admitting : ~child(d)}
  /\ preparing' = [d \in Runs |-> IF child(d) THEN "none" ELSE preparing[d]]
  /\ polled' = [d \in Runs |-> IF child(d) THEN "absent" ELSE polled[d]]
  /\ job' = [d \in Runs |-> IF child(d) THEN "none" ELSE job[d]]
  /\ relay' = [relay EXCEPT ![r] = {}]
  /\ tool' = [tool EXCEPT ![r] = "relaying"]
  /\ call' = [d \in Runs |-> IF call[d].by = r THEN NoCall ELSE call[d]]
  /\ UNCHANGED <<execution, open, workspace, assigned, reap>>

-----------------------------------------------------------------------------
\* The steps of the provider and of the processes that call it.
Provide(d) ==
  \/ StartCommit(d) \/ PrepareCommit(d) \/ PrepareFails(d) \/ FailPreparation(d)
  \/ PollRead(d) \/ PollWrite(d) \/ GiveUp(d) \/ ToolReturns(d)
  \/ CancelCommit(d) \/ CancelReturn(d) \/ CancelThrows(d)
  \/ RelayBegin(d) \/ RelayCancel(d)
  \/ \E y \in Runs : CancelDescend(d, y)

Reaper == ReapStatus \/ \E d \in Runs : ReapBegin(d) \/ ReapCancel(d) \/ ReapStale(d)

\* The steps of one Run's lifecycle.
Execute(r) ==
  Claim(r) \/ Defer(r) \/ Advance(r) \/ RunEnds(r) \/ Abort(r) \/ RunCancelled(r)
    \/ CancellationFails(r)

Next ==
  \/ \E p, d \in Runs, m \in Modes : StartAdmit(p, d, m)
  \/ \E d \in Runs : Provide(d) \/ Execute(d)
  \/ \E d \in Runs : UserCancels(d) \/ Crash(d)
  \/ Reaper

Spec == Init /\ [][Next]_vars

-----------------------------------------------------------------------------
(* Properties.                                                               *)

NodeRow == [parent : Runs \cup {NoRun}, root : Runs \cup {NoRun}, depth : Nat,
            mode : {"none", "shared_serialized", "isolated"}, workspace : Runs]
CallRecord == [step : {"none", "children", "status", "thrown"},
               by : Runs \cup {NoRun, "reaper"}, children : SUBSET Runs,
               read : ExecutionStates]

\* Every row and every in-flight call has its shape.
TypeOK ==
  /\ node \in [Runs -> NodeRow]
  /\ execution \in [Runs -> ExecutionStates]
  /\ run \in [Runs -> RunStates]
  /\ open \in [Runs -> BOOLEAN]
  /\ workspace \in [Runs -> {"none", "live", "deleted"}]
  /\ assigned \in Nat
  /\ request \in [Runs -> {"none", "open", "closed"}]
  /\ admitting \subseteq Runs
  /\ preparing \in [Runs -> {"none", "forking", "failing"}]
  /\ polled \in [Runs -> ExecutionStates]
  /\ tool \in [Runs -> {"open", "aborted", "relaying"}]
  /\ relay \in [Runs -> SUBSET Runs]
  /\ job \in [Runs -> {"none", "waiting", "seen", "cancelled"}]
  /\ call \in [Runs -> CallRecord]
  /\ reap \in [target : Runs \cup {NoRun}, children : SUBSET Runs]

\* Starts that race in different Runs of one tree never exceed the node budget
\* of its root, and every durable parent link stays inside that tree.
TreeWithinBudget ==
  \A r \in Roots :
    /\ Cardinality(Tree(r)) <= MaximumNodes
    /\ \A d \in Tree(r) :
         /\ node[d].depth \in 1 .. MaximumDepth
         /\ node[node[d].parent].root = r
         /\ node[node[d].parent].depth = node[d].depth - 1

\* However cancel, the reaper, the fork and stale status calls interleave, an
\* execution that has settled keeps its state and its Run is never started,
\* restarted or settled another way.
SettledExecutionIsFinal ==
  [][\A d \in Runs : execution[d] \in SettledStates =>
       execution'[d] = execution[d] /\ run'[d] = run[d]]_vars

\* The domain's counter is the number of isolated Workspaces in use, and the
\* Workspace of a Run that may still execute is never deleted under it.
WorkspacesAccounted ==
  /\ assigned = Cardinality({d \in Runs : workspace[d] = "live"})
  /\ \A d \in Runs : workspace[d] = "deleted" => Settled(d)

\* What the execution row tells the parent is how the child's Run ended, and a
\* child is not executed before its Workspace is ready.
ExecutionReflectsRun ==
  \A d \in Runs :
    /\ execution[d] \in SettledStates => execution[d] = run[d]
    /\ execution[d] = "preparing" => run[d] = "queued" /\ ~open[d]

\* r executes a delegation Tool call that waits for a child.
Waits(r) ==
  run[r] = "running" /\ \E d \in Children(r) : job[d] = "waiting" /\ ~Settled(d)

\* Delegated Runs are queued, but nothing can move: every active Run waits for
\* a child and no queued Run passes the gates.
Stalled ==
  /\ \E d \in Runs \ Roots : run[d] = "queued"
  /\ \A d \in Runs : execution[d] # "preparing" /\ request[d] # "open"
  /\ \A d \in Runs : Active(d) => Waits(d)
  /\ \A d \in Runs : ~(Claimable(d) /\ HasSlot(d))

\* Waiting parents never starve the Runs they wait for: a tree that start has
\* admitted always has a Run that can go on (the claim of the documentation;
\* #claimNext and selectPiWorkerExecutionReferences break it).
DelegationNeverStalls == ~Stalled

\* The Runs that d descends from.
Above(d) ==
  LET up[n \in 0 .. MaximumDepth] ==
        IF n = 0 THEN d
        ELSE IF up[n - 1] = NoRun THEN NoRun ELSE node[up[n - 1]].parent
  IN  {up[n] : n \in 1 .. MaximumDepth} \ {NoRun}

\* The Run d, which is to share its parent's Workspace, waits for the Turn of a
\* Run above its parent to leave it, and that Turn waits for d.
HeldAbove(d) ==
  /\ run[d] = "queued" /\ node[d].mode = "shared_serialized"
  /\ \E q \in Above(node[d].parent) :
       Waits(q) /\ node[q].workspace = node[d].workspace

\* With a slot and a lane for every Run, a tree stalls for one reason only: a
\* Run that shares a Workspace is two or more levels below the Turn that holds
\* it, whose exemption reaches the direct parent (WorkspaceBusy).
StallsOnlyBelowHolder == Stalled => \E d \in Runs \ Roots : HeldAbove(d)

\* Nothing is in progress for x or its children that could still cancel them.
Quiescent(x) ==
  /\ call[x].step = "none" /\ relay[x] = {} /\ tool[x] # "aborted"
  /\ reap = NoReap
  /\ execution[x] \notin {"queued", "running"}
  /\ \A d \in Runs : node[d].parent = x =>
       /\ d \notin admitting /\ preparing[d] = "none"
       /\ call[d].step = "none"

\* When a Run whose cancellation was requested has ended and nothing is left to
\* do for it, each of its children has ended or has been told to.
CancellationReachesDescendants ==
  \A x \in Runs :
    request[x] # "none" /\ Settled(x) /\ Quiescent(x) =>
      \A d \in Children(x) : Settled(d) \/ request[d] # "none"

\* The tree of a root Run, its budget and its Workspaces are in order together,
\* whichever of start, cancel, the fork, the status calls and the reaper came last.
TreeSound == TypeOK /\ TreeWithinBudget /\ WorkspacesAccounted
=============================================================================
