---------------------------- MODULE RunLifecycle ----------------------------
(***************************************************************************)
(* The life of a Run in PiCloud, from the message that creates it to the   *)
(* transaction that settles it.                                            *)
(*                                                                         *)
(* PostgreSQL holds every authority.  A Run has one row in each of turns,  *)
(* commands, runs and outbox, one run_attempts row per claim, and at most  *)
(* one turn.cancel command.  A Session has at most one session_leases row. *)
(* A Worker is one boot of a Pi Worker process together with its row in    *)
(* sandboxes: it claims Runs (run-command-executor.ts), leases their       *)
(* Session (session-lease-coordinator.ts), executes them                   *)
(* (agent-run-execution-backend.ts), cancels them                          *)
(* (run-cancellation-executor.ts) and settles them.  The control plane     *)
(* accepts Turns and cancellations (control-plane-store.ts) and reconciles *)
(* what a dead boot left behind (supervisor-connection-manager.ts,         *)
(* assignment-reconciler.ts).                                              *)
(*                                                                         *)
(* One action is one database transaction or one in-memory step of a       *)
(* Worker.  The claim is the exception: its SELECT and its writes are two  *)
(* actions, because what the SELECT saw may be stale at the writes.  All   *)
(* Sessions belong to one tenant and are human conversations.              *)
(***************************************************************************)
EXTENDS Naturals, FiniteSets

CONSTANTS
  Sessions, Runs, Workers, Workspaces,
  SessionOf,      \* the Session a Run belongs to
  WorkspaceOf,    \* the Workspace a Session works in
  Forked,         \* the Sessions with a forked_from_session_id
  MaxAttempts,    \* RunCommandExecutor's maxAttempts: retries before the ACK
  MaxClaims,      \* bound on the claims of one command (unbounded in the code)
  Capacity,       \* sandboxes.max_concurrent_sessions
  TenantLimit,    \* policy.maximum_concurrent_turns
  QueueLimit,     \* policy.maximum_unsettled_turns
  Env             \* the environment events an instance includes

NoRun == "no run"
NoWorker == "no worker"

EnvEvents ==
  {"crash", "fence", "heartbeat", "lease", "claim", "projection",
   "delivery", "abort", "block", "cancel", "events", "checkpoint"}

ASSUME ConstantsAssumption ==
  /\ SessionOf \in [Runs -> Sessions]
  /\ WorkspaceOf \in [Sessions -> Workspaces]
  /\ Forked \subseteq Sessions
  /\ NoRun \notin Runs
  /\ NoWorker \notin Workers
  /\ Env \subseteq EnvEvents

\* The rows of the sessions table, which a reservation counter counts.
ASSUME SessionsAssumption == IsFiniteSet(Sessions)

ASSUME BoundsAssumption ==
  /\ MaxAttempts \in Nat \ {0}
  /\ MaxClaims \in Nat \ {0}
  /\ Capacity \in Nat \ {0}
  /\ TenantLimit \in Nat
  /\ QueueLimit \in Nat

VARIABLES
  session,      \* sessions.state
  fence,        \* sessions.last_fencing_token
  nextPosition, \* sessions.next_mailbox_position
  version,      \* sessions.current_workspace_version_id
  head,         \* workspaces.current_workspace_version_id
  position,     \* commands.mailbox_position, 0 before the Run is accepted
  turn,         \* turns.state
  command,      \* commands.state of the turn.execute command
  run,          \* runs.state
  outbox,       \* the turn.execute outbox row: attempts, available, published
  base,         \* runs.workspace_base_version_id
  staged,       \* the Run's attempt has a staged workspace_versions row
  terminal,     \* number of session_terminal_events of the Turn
  attempt,      \* run_attempts: state, claim owner, fencing token (0: unbound)
  lease,        \* session_leases: owner sandbox, fencing token, unexpired
  sandbox,      \* sandboxes: state, active_sessions
  retirement,   \* sandbox_retirements and the reconciler's loaded candidates
  cancel,       \* the turn.cancel command and its outbox row
  projected,    \* session_event_cursors: projected = persisted
  blocked,      \* Workspaces with an active terminal (or policy disabled)
  up,           \* the Worker process is alive
  job,          \* RunCommandExecutor.#dispatch in flight, per Worker and Run
  cancelJob     \* RunCancellationExecutor.#dispatch in flight

sessionVars == <<session, fence, nextPosition, version, head>>
runVars == <<position, turn, command, run, outbox, base, staged, terminal, attempt>>
leaseVars == <<lease, sandbox>>
cancelVars == <<cancel, cancelJob>>
envVars == <<retirement, projected, blocked, up>>
vars == <<sessionVars, runVars, leaseVars, cancelVars, envVars, job>>

-----------------------------------------------------------------------------
(* The state machines of domain/src/state-machines.ts.  Left out: states no  *)
(* code path writes (waiting_approval, recovering, evicting), starting,      *)
(* which markStarted passes through inside one transaction, provisioning and *)
(* draining Sandboxes (registration), and timed_out, a label of failed.      *)

SessionStates == {"cold", "idle", "running", "cancelling", "failed"}
TurnStates == {"absent", "queued", "dispatching", "running", "cancelling",
               "completed", "failed", "cancelled"}
CommandStates == {"absent", "pending", "dispatched", "acknowledged",
                  "completed", "failed"}
ExecutingStates == {"provisioning", "restoring", "running", "checkpointing"}
RunStates == {"absent", "queued", "claimed", "cancel_requested",
              "completed", "failed", "cancelled"} \cup ExecutingStates
AttemptStates == {"absent", "claimed", "cancel_requested", "completed",
                  "failed", "cancelled", "superseded"} \cup ExecutingStates
SandboxStates == {"ready", "leased", "failed", "terminated"}

ActiveTurnStates == {"dispatching", "running", "cancelling"}
UnsettledTurnStates == ActiveTurnStates \cup {"queued"}
OpenCommandStates == {"pending", "dispatched", "acknowledged"}
TerminalRunStates == {"completed", "failed", "cancelled"}
TerminalAttemptStates == TerminalRunStates \cup {"superseded"}

JobPhases == {"none", "selected", "claimed", "leased", "started", "succeeded",
              "failed", "revoked", "unprojected", "rejected", "refused"}
CancelPhases == {"none", "scanned", "claimed", "assigned", "acknowledged",
                 "confirmed", "unconfirmed", "refused", "rejected"}
RetirementStates == {"none", "pending", "stopped", "loaded", "completed"}

\* The transition tables the code asserts on every write, on these states.
TurnTransitions ==
  [queued |-> {"dispatching", "cancelling"},
   dispatching |-> {"queued", "running", "cancelling", "failed"},
   running |-> {"cancelling", "completed", "failed"},
   cancelling |-> {"cancelled", "failed"},
   completed |-> {}, failed |-> {}, cancelled |-> {}]
CommandTransitions ==
  [pending |-> {"dispatched", "failed"},
   dispatched |-> {"pending", "acknowledged", "failed"},
   acknowledged |-> {"completed", "failed"},
   completed |-> {}, failed |-> {}]
RunTransitions ==
  [queued |-> {"claimed", "cancel_requested", "failed"},
   claimed |-> {"queued", "provisioning", "cancel_requested", "failed"},
   provisioning |-> {"queued", "restoring", "running", "cancel_requested", "failed"},
   restoring |-> {"queued", "running", "cancel_requested", "failed"},
   running |-> {"checkpointing", "cancel_requested", "completed", "failed"},
   checkpointing |-> {"cancel_requested", "completed", "failed"},
   cancel_requested |-> {"cancelled", "failed"},
   completed |-> {}, failed |-> {}, cancelled |-> {}]
AttemptTransitions ==
  [claimed |-> {"provisioning", "failed", "superseded"},
   provisioning |-> {"restoring", "running", "cancel_requested", "failed", "superseded"},
   restoring |-> {"running", "cancel_requested", "failed", "superseded"},
   running |-> {"checkpointing", "cancel_requested", "completed", "failed", "superseded"},
   checkpointing |-> {"cancel_requested", "completed", "failed", "superseded"},
   cancel_requested |-> {"cancelled", "failed", "superseded"},
   completed |-> {}, failed |-> {}, cancelled |-> {}, superseded |-> {}]

Versions == Runs \cup {NoRun}
Claims == 1 .. MaxClaims
NoAttempt == [state |-> "absent", owner |-> NoWorker, fence |-> 0]
NoLease == [owner |-> NoWorker, fence |-> 0, live |-> FALSE]
NoJob == [phase |-> "none", attempt |-> 0, fence |-> 0, base |-> NoRun]
NoCancelJob == [phase |-> "none", attempt |-> 0, target |-> 0, fence |-> 0]
NoCancel == [state |-> "absent", attempts |-> 0, available |-> FALSE,
             published |-> FALSE]

Init ==
  /\ session = [s \in Sessions |-> "cold"]
  /\ fence = [s \in Sessions |-> 0]
  /\ nextPosition = [s \in Sessions |-> 1]
  /\ version = [s \in Sessions |-> NoRun]
  /\ head = [k \in Workspaces |-> NoRun]
  /\ position = [r \in Runs |-> 0]
  /\ turn = [r \in Runs |-> "absent"]
  /\ command = [r \in Runs |-> "absent"]
  /\ run = [r \in Runs |-> "absent"]
  /\ outbox = [r \in Runs |->
                 [attempts |-> 0, available |-> FALSE, published |-> FALSE]]
  /\ base = [r \in Runs |-> NoRun]
  /\ staged = [r \in Runs |-> FALSE]
  /\ terminal = [r \in Runs |-> 0]
  /\ attempt = [r \in Runs |-> [a \in Claims |-> NoAttempt]]
  /\ lease = [s \in Sessions |-> NoLease]
  /\ sandbox = [w \in Workers |-> [state |-> "ready", active |-> 0]]
  /\ retirement = [w \in Workers |-> [state |-> "none", candidates |-> {}]]
  /\ cancel = [r \in Runs |-> NoCancel]
  /\ projected = [s \in Sessions |-> TRUE]
  /\ blocked = {}
  /\ up = [w \in Workers |-> TRUE]
  /\ job = [w \in Workers |-> [r \in Runs |-> NoJob]]
  /\ cancelJob = [w \in Workers |-> [r \in Runs |-> NoCancelJob]]

-----------------------------------------------------------------------------
(* Reading the rows.                                                         *)

InWorkspace(s, t) == WorkspaceOf[s] = WorkspaceOf[t]

\* runs.current_attempt_id: attempt_count and outbox.attempts advance together.
Current(r) == outbox[r].attempts
CurrentAttempt(r) == attempt[r][Current(r)]

\* The turns whose state a claim counts against its Session or its tenant.
ActiveTurns == {r \in Runs : turn[r] \in ActiveTurnStates}

\* Mutant: the SELECT does not lock the Session's row.
NeverLocked(s) == s \in Sessions

\* No open claim transaction holds FOR UPDATE on the Session's row.
Unlocked(s) ==
  \A w \in Workers, r \in Runs :
    job[w][r].phase = "selected" => SessionOf[r] # s

\* Another active Turn of an unforked Session works in r's Workspace.
WorkspaceBusy(r) ==
  \E q \in ActiveTurns :
    /\ q # r
    /\ SessionOf[q] \notin Forked
    /\ InWorkspace(SessionOf[q], SessionOf[r])

\* The version a claim records as workspace_base_version_id.
WorkspaceBase(r) ==
  IF SessionOf[r] \in Forked THEN version[SessionOf[r]]
                             ELSE head[WorkspaceOf[SessionOf[r]]]

\* #lockLifecycleRows finds the claimed attempt still current.
HoldsClaim(w, r) == job[w][r].attempt = Current(r)

\* #currentLease and #currentRunAttempt without the expiry check.
HoldsFence(w, r, token) ==
  LET s == SessionOf[r] IN
  /\ lease[s].owner = w
  /\ lease[s].fence = token
  /\ CurrentAttempt(r).owner = w
  /\ CurrentAttempt(r).fence = token

HoldsLease(w, r) == HoldsClaim(w, r) /\ HoldsFence(w, r, job[w][r].fence)

\* #releaseLeaseRow accepts the reservation the lease refers to.
Releasable(s) ==
  /\ lease[s].owner # NoWorker
  /\ sandbox[lease[s].owner].active >= 1
  /\ sandbox[lease[s].owner].state \in {"leased", "failed"}

-----------------------------------------------------------------------------
(* Writing the rows: the parts several transactions share.                   *)

\* Mutant: the Session's next state is written to the sandboxes row.
ReleasedToIdle(sb) == [state |-> "idle", active |-> sb.active - 1]

\* #releaseLeaseRow: one reservation less, and ready again when it was the last.
Released(sb) ==
  [state |-> IF sb.active = 1 /\ sb.state = "leased" THEN "ready" ELSE sb.state,
   active |-> sb.active - 1]

ReleaseLease(s) ==
  /\ Releasable(s)
  /\ lease' = [lease EXCEPT ![s] = NoLease]
  /\ sandbox' = [sandbox EXCEPT ![lease[s].owner] = Released(@)]

\* Mutant: the release does not check that the lease is still this Worker's.
ReleaseUnfenced(w, r) ==
  IF Releasable(SessionOf[r])
  THEN ReleaseLease(SessionOf[r])
  ELSE UNCHANGED leaseVars

\* releaseAcquired: the release of a lease whose Run never started; its
\* errors are swallowed, and the lease then waits for its expiry.
ReleaseAcquired(w, r) ==
  IF HoldsLease(w, r) /\ Releasable(SessionOf[r])
  THEN ReleaseLease(SessionOf[r])
  ELSE UNCHANGED leaseVars

\* transitionCurrentRunAttempt for runs and run_attempts.
MoveRun(r, state) ==
  /\ run' = [run EXCEPT ![r] = state]
  /\ attempt' = [attempt EXCEPT ![r][Current(r)].state = state]

\* The compare-and-set on workspaces.current_workspace_version_id.
HeadUnmoved(r) ==
  (staged[r] /\ SessionOf[r] \notin Forked)
    => head[WorkspaceOf[SessionOf[r]]] = base[r]

\* Mutant: the Workspace's head advances without touching the other Sessions.
AdvanceHeadsUnlocked(r) ==
  IF ~staged[r]
  THEN UNCHANGED <<version, head, staged>>
  ELSE /\ head' = [head EXCEPT ![WorkspaceOf[SessionOf[r]]] = r]
       /\ version' = [version EXCEPT ![SessionOf[r]] = r]
       /\ staged' = [staged EXCEPT ![r] = FALSE]

\* transitionCurrentRunAttempt's tail for a completed Run: the staged version
\* is settled and becomes the head, of the Workspace and its unforked Sessions
\* (whose rows it must lock), or of the forked Session alone.
AdvanceHeads(r) ==
  LET s == SessionOf[r]
      shared == s \notin Forked
      follows(t) == t = s \/ (shared /\ t \notin Forked /\ InWorkspace(s, t))
  IN IF ~staged[r]
     THEN UNCHANGED <<version, head, staged>>
     ELSE /\ shared => \A t \in Sessions : follows(t) => Unlocked(t)
          /\ head' = IF shared THEN [head EXCEPT ![WorkspaceOf[s]] = r] ELSE head
          /\ version' = [t \in Sessions |-> IF follows(t) THEN r ELSE version[t]]
          /\ staged' = [staged EXCEPT ![r] = FALSE]

\* Mutant: a failed Run's staged version is settled like a completed one's.
SettleStaged(r) ==
  /\ staged' = [staged EXCEPT ![r] = FALSE]
  /\ head' = IF staged[r]
             THEN [head EXCEPT ![WorkspaceOf[SessionOf[r]]] = r] ELSE head
  /\ UNCHANGED version

\* transitionCurrentRunAttempt's tail for any other terminal state.
AbandonStaged(r) ==
  /\ staged' = [staged EXCEPT ![r] = FALSE]
  /\ UNCHANGED <<version, head>>

\* commitTerminalTurnEvent refuses a stream whose projection lags.
CommitTerminalEvent(r) ==
  /\ projected[SessionOf[r]]
  /\ terminal' = [terminal EXCEPT ![r] = @ + 1]

EndJob(w, r) == job' = [job EXCEPT ![w][r] = NoJob]
SetPhase(w, r, phase) == job' = [job EXCEPT ![w][r].phase = phase]

-----------------------------------------------------------------------------
(* The control plane accepts Turns.                                          *)

\* #acceptNewTurn: the tenant's policy, the Session and the Workspace are
\* locked, so the unsettled-Turn quota is exact.
AcceptTurn(r) ==
  LET s == SessionOf[r] IN
  /\ turn[r] = "absent"
  /\ Unlocked(s)
  /\ session[s] # "failed"
  /\ Cardinality({q \in Runs : turn[q] \in UnsettledTurnStates}) < QueueLimit
  /\ turn' = [turn EXCEPT ![r] = "queued"]
  /\ command' = [command EXCEPT ![r] = "pending"]
  /\ run' = [run EXCEPT ![r] = "queued"]
  /\ outbox' = [outbox EXCEPT ![r].available = TRUE]
  /\ position' = [position EXCEPT ![r] = nextPosition[s]]
  /\ nextPosition' = [nextPosition EXCEPT ![s] = @ + 1]
  /\ base' = [base EXCEPT ![r] = WorkspaceBase(r)]
  /\ version' = [version EXCEPT ![s] = WorkspaceBase(r)]
  /\ UNCHANGED <<session, fence, head, staged, terminal, attempt, job>>
  /\ UNCHANGED <<leaseVars, cancelVars, envVars>>

\* A web terminal opens or closes in a Workspace, or an operator disables and
\* enables the tenant: what a claim's SELECT reads and nobody else changes.
ToggleWorkspace(k) ==
  /\ "block" \in Env
  /\ blocked' = IF k \in blocked THEN blocked \ {k} ELSE blocked \cup {k}
  /\ UNCHANGED <<sessionVars, runVars, leaseVars, cancelVars, job>>
  /\ UNCHANGED <<retirement, projected, up>>

-----------------------------------------------------------------------------
(* A Worker claims a Run: RunCommandExecutor.#claimNext.                     *)

\* Mutant: the claim does not look for earlier commands of the mailbox.
ClaimableOutOfOrder(r) ==
  LET s == SessionOf[r] IN
  /\ ~outbox[r].published /\ outbox[r].available
  /\ \/ /\ command[r] = "pending" /\ turn[r] = "queued"
        /\ \A q \in ActiveTurns : SessionOf[q] # s
     \/ command[r] = "dispatched" /\ turn[r] = "dispatching"
  /\ s \in Forked \/ ~WorkspaceBusy(r)
  /\ session[s] \in {"cold", "idle"}

\* Mutant: a command whose claim expired is not claimed again.
ClaimableOnce(r) ==
  LET s == SessionOf[r] IN
  /\ command[r] = "pending" /\ turn[r] = "queued" /\ outbox[r].available
  /\ \A q \in ActiveTurns : SessionOf[q] # s
  /\ \A q \in Runs :
       (SessionOf[q] = s /\ command[q] \in OpenCommandStates)
         => position[q] >= position[r]
  /\ session[s] \in {"cold", "idle"}

\* The WHERE clause of the claim's SELECT.
Claimable(r) ==
  LET s == SessionOf[r] IN
  /\ WorkspaceOf[s] \notin blocked
  /\ ~outbox[r].published /\ outbox[r].available
  /\ \/ /\ command[r] = "pending" /\ turn[r] = "queued"
        /\ \A q \in ActiveTurns : SessionOf[q] # s
     \/ command[r] = "dispatched" /\ turn[r] = "dispatching"
  /\ \A q \in Runs :
       (SessionOf[q] = s /\ command[q] \in OpenCommandStates)
         => position[q] >= position[r]
  /\ s \in Forked \/ ~WorkspaceBusy(r)
  /\ session[s] \in {"cold", "idle"}
  /\ Cardinality(ActiveTurns \ {r}) < TenantLimit

\* SELECT ... FOR UPDATE (outbox, session, run) SKIP LOCKED.  The transaction
\* stays open: the Session's row is locked until it commits or rolls back.
ClaimSelect(w, r) ==
  /\ up[w]
  /\ job[w][r].phase = "none"
  /\ Current(r) < MaxClaims
  /\ Unlocked(SessionOf[r])
  /\ Claimable(r)
  /\ job' = [job EXCEPT ![w][r] = [phase |-> "selected",
                                  attempt |-> Current(r) + 1,
                                  fence |-> 0,
                                  base |-> WorkspaceBase(r)]]
  /\ UNCHANGED <<sessionVars, runVars, leaseVars, cancelVars, envVars>>

\* Mutant: the Workspace is not checked again under its lock.
WorkspaceUnchecked(r) == r \in Runs

\* What the claim checks again once it holds the Workspace's row lock.
WorkspaceFree(r) == SessionOf[r] \in Forked \/ ~WorkspaceBusy(r)

\* The attempt a claim replaces is superseded unless it is already settled.
Supersede(a) ==
  IF a.state \in TerminalAttemptStates \cup {"absent"}
  THEN a
  ELSE [a EXCEPT !.state = "superseded"]

\* The rest of #claimNext: a new current attempt for this Worker, and the
\* outbox row leased until the claim expires.
ClaimCommit(w, r) ==
  LET next == job[w][r].attempt IN
  /\ job[w][r].phase = "selected"
  /\ WorkspaceFree(r)
  /\ attempt' = [attempt EXCEPT ![r] =
       [a \in Claims |->
          IF a = next
          THEN [state |-> "claimed", owner |-> w, fence |-> 0]
          ELSE IF a = Current(r) THEN Supersede(attempt[r][a])
                                 ELSE attempt[r][a]]]
  /\ run' = [run EXCEPT ![r] = "claimed"]
  /\ base' = [base EXCEPT ![r] = job[w][r].base]
  /\ command' = [command EXCEPT ![r] = "dispatched"]
  /\ turn' = [turn EXCEPT ![r] = "dispatching"]
  /\ outbox' = [outbox EXCEPT ![r] =
       [attempts |-> next, available |-> FALSE, published |-> FALSE]]
  /\ SetPhase(w, r, "claimed")
  /\ UNCHANGED <<position, staged, terminal>>
  /\ UNCHANGED <<sessionVars, leaseVars, cancelVars, envVars>>

\* Another Turn took the Workspace between the SELECT and the lock: rollback.
ClaimBlocked(w, r) ==
  /\ job[w][r].phase = "selected"
  /\ ~WorkspaceFree(r)
  /\ EndJob(w, r)
  /\ UNCHANGED <<sessionVars, runVars, leaseVars, cancelVars, envVars>>

\* claim_expires_at passes.  While the claiming Worker is at work that takes a
\* stall of 30 seconds before the ACK, the event "claim".
ClaimExpires(r) ==
  /\ command[r] = "dispatched" /\ ~outbox[r].published /\ ~outbox[r].available
  /\ \/ "claim" \in Env
     \/ \A w \in Workers :
          job[w][r].phase = "none" \/ job[w][r].attempt # Current(r)
  /\ outbox' = [outbox EXCEPT ![r].available = TRUE]
  /\ UNCHANGED <<position, turn, command, run, base, staged, terminal, attempt>>
  /\ UNCHANGED <<sessionVars, leaseVars, cancelVars, envVars, job>>

-----------------------------------------------------------------------------
(* The Worker leases the Session: SessionLeaseCoordinator.acquire.           *)

\* The attempt acquire binds: current, claimed, without a fence.
Unbound(w, r) ==
  /\ HoldsClaim(w, r)
  /\ run[r] = "claimed"
  /\ CurrentAttempt(r).state = "claimed"
  /\ CurrentAttempt(r).fence = 0

LeaseExpired(s) == lease[s].owner # NoWorker /\ ~lease[s].live

\* Mutant: the expired lease's reservation is not given back.
SandboxesUnreleased(s) == sandbox

\* The sandboxes rows as acquire sees them once it removed an expired lease.
SandboxesWithout(s) ==
  IF LeaseExpired(s)
  THEN [sandbox EXCEPT ![lease[s].owner] = Released(@)]
  ELSE sandbox

Acquirable(w, r) ==
  LET s == SessionOf[r]
      sb == SandboxesWithout(s)[w]
  IN /\ session[s] \in {"cold", "idle"}
     /\ Unbound(w, r)
     /\ ~lease[s].live
     /\ LeaseExpired(s) => Releasable(s)
     /\ sb.state \in {"ready", "leased"}
     /\ sb.active < Capacity

\* stale_attempt and lease_invariant are the errors that may not be retried.
AcquireRefused(w, r) ==
  LET s == SessionOf[r] IN
  /\ session[s] \in {"cold", "idle"}
  /\ \/ ~Unbound(w, r)
     \/ LeaseExpired(s) /\ ~Releasable(s)

\* The Session's fence advances and the attempt is bound to it.
Acquire(w, r) ==
  LET s == SessionOf[r]
      token == fence[s] + 1
      freed == SandboxesWithout(s)
  IN /\ job[w][r].phase = "claimed"
     /\ Unlocked(s)
     /\ Acquirable(w, r)
     /\ fence' = [fence EXCEPT ![s] = token]
     /\ lease' = [lease EXCEPT ![s] =
                    [owner |-> w, fence |-> token, live |-> TRUE]]
     /\ sandbox' = [freed EXCEPT ![w] =
                      [state |-> "leased", active |-> freed[w].active + 1]]
     /\ attempt' = [attempt EXCEPT ![r][Current(r)].fence = token]
     /\ job' = [job EXCEPT ![w][r].phase = "leased", ![w][r].fence = token]
     /\ UNCHANGED <<session, nextPosition, version, head>>
     /\ UNCHANGED <<position, turn, command, run, outbox, base, staged, terminal>>
     /\ UNCHANGED <<cancelVars, envVars>>

\* acquire throws; an error of the database itself counts as retryable.
AcquireFails(w, r) ==
  /\ job[w][r].phase = "claimed"
  /\ Unlocked(SessionOf[r])
  /\ "abort" \notin Env => ~Acquirable(w, r)
  /\ SetPhase(w, r, IF AcquireRefused(w, r) THEN "refused" ELSE "rejected")
  /\ UNCHANGED <<sessionVars, runVars, leaseVars, cancelVars, envVars>>

\* AgentRunSupervisor.prepare rejects the command (its own capacity, an event
\* spool in recovery, a stale fence): the lease is released, best effort.
DeliveryRejected(w, r, phase) ==
  /\ "delivery" \in Env
  /\ job[w][r].phase = "leased"
  /\ Unlocked(SessionOf[r])
  /\ ReleaseAcquired(w, r)
  /\ SetPhase(w, r, phase)
  /\ UNCHANGED <<sessionVars, runVars, cancelVars, envVars>>

\* valid_until passes.  Heartbeats renew the lease of a running execution, and
\* the steps around it take milliseconds: an expiry under a live owner that
\* still works on the lease is the event "lease".
LeaseExpires(s) ==
  /\ lease[s].live
  /\ \/ "lease" \in Env
     \/ \A w \in Workers, r \in Runs :
          (SessionOf[r] = s /\ lease[s].owner = w /\ job[w][r].phase # "none")
            => job[w][r].fence # lease[s].fence
  /\ lease' = [lease EXCEPT ![s].live = FALSE]
  /\ UNCHANGED <<sessionVars, runVars, sandbox, cancelVars, envVars, job>>

-----------------------------------------------------------------------------
(* The Worker starts, executes and settles the Run: #dispatch.               *)

\* What #markStarted checks under the lifecycle row locks.
Startable(w, r) ==
  /\ HoldsLease(w, r)
  /\ lease[SessionOf[r]].live
  /\ command[r] = "dispatched" /\ turn[r] = "dispatching"
  /\ ~outbox[r].published
  /\ session[SessionOf[r]] \in {"cold", "idle"}

\* #markStarted, the durable ACK: from here the Run is never replayed.
MarkStarted(w, r) ==
  /\ job[w][r].phase = "leased"
  /\ Unlocked(SessionOf[r])
  /\ Startable(w, r)
  /\ MoveRun(r, "provisioning")
  /\ session' = [session EXCEPT ![SessionOf[r]] = "running"]
  /\ command' = [command EXCEPT ![r] = "acknowledged"]
  /\ turn' = [turn EXCEPT ![r] = "running"]
  /\ outbox' = [outbox EXCEPT ![r].published = TRUE]
  /\ SetPhase(w, r, "started")
  /\ UNCHANGED <<fence, nextPosition, version, head>>
  /\ UNCHANGED <<position, base, staged, terminal>>
  /\ UNCHANGED <<leaseVars, cancelVars, envVars>>

\* #markStarted throws: the error is rethrown and nothing is recorded; the
\* claim is left to expire.
MarkStartedFails(w, r) ==
  /\ job[w][r].phase = "leased"
  /\ Unlocked(SessionOf[r])
  /\ "abort" \notin Env => ~Startable(w, r)
  /\ ReleaseAcquired(w, r)
  /\ EndJob(w, r)
  /\ UNCHANGED <<sessionVars, runVars, cancelVars, envVars>>

\* The running agent publishes events, which the Event Gateway persists and
\* projects later.
EmitEvents(w, r) ==
  /\ "events" \in Env
  /\ job[w][r].phase = "started"
  /\ HoldsLease(w, r)
  /\ projected' = [projected EXCEPT ![SessionOf[r]] = FALSE]
  /\ UNCHANGED <<sessionVars, runVars, leaseVars, cancelVars, job>>
  /\ UNCHANGED <<retirement, blocked, up>>

ProjectEvents(s) ==
  /\ ~projected[s]
  /\ projected' = [projected EXCEPT ![s] = TRUE]
  /\ UNCHANGED <<sessionVars, runVars, leaseVars, cancelVars, job>>
  /\ UNCHANGED <<retirement, blocked, up>>

\* Mutant: a phase signal is applied whatever the Run's phase is.
AnyPhase(state) == ExecutingStates

\* What both tables allow between the executing states.
NextPhases(state) ==
  RunTransitions[state] \cap AttemptTransitions[state] \cap ExecutingStates

\* PostgresRunAttemptPhaseObserver.transition: fenced by the attempt row alone.
ObservePhase(w, r, phase) ==
  /\ "checkpoint" \in Env
  /\ job[w][r].phase = "started"
  /\ HoldsClaim(w, r) /\ CurrentAttempt(r).fence = job[w][r].fence
  /\ phase \in NextPhases(run[r])
  /\ MoveRun(r, phase)
  /\ UNCHANGED <<position, turn, command, outbox, base, staged, terminal, job>>
  /\ UNCHANGED <<sessionVars, leaseVars, cancelVars, envVars>>

\* SandboxCheckpointStore.save, which the runner calls while checkpointing:
\* the fenced attempt stages a Workspace version on top of the current one.
SaveCheckpoint(w, r) ==
  LET s == SessionOf[r] IN
  /\ "checkpoint" \in Env
  /\ job[w][r].phase = "started"
  /\ Unlocked(s)
  /\ HoldsLease(w, r) /\ lease[s].live /\ lease[s].fence = fence[s]
  /\ session[s] = "running" /\ turn[r] = "running"
  /\ command[r] = "acknowledged"
  /\ run[r] = "checkpointing"
  /\ WorkspaceBase(r) = base[r]
  /\ staged' = [staged EXCEPT ![r] = TRUE]
  /\ UNCHANGED <<position, turn, command, run, outbox, base, terminal, attempt>>
  /\ UNCHANGED <<sessionVars, leaseVars, cancelVars, envVars, job>>

\* The agent loop returns a result or throws.
ExecutionEnds(w, r, phase) ==
  /\ job[w][r].phase = "started"
  /\ SetPhase(w, r, phase)
  /\ UNCHANGED <<sessionVars, runVars, leaseVars, cancelVars, envVars>>

\* renewFromHeartbeat skips an assignment that is no longer current, and the
\* supervisor revokes the execution.
Renewable(w, r) ==
  LET s == SessionOf[r] IN
  /\ HoldsLease(w, r) /\ lease[s].live /\ lease[s].fence = fence[s]
  /\ session[s] \in {"running", "cancelling"}
  /\ turn[r] \in {"running", "cancelling"}
  /\ command[r] = "acknowledged"
  /\ CurrentAttempt(r).state \notin TerminalAttemptStates

HeartbeatRevokes(w, r) ==
  /\ job[w][r].phase = "started"
  /\ Unlocked(SessionOf[r])
  /\ ~Renewable(w, r)
  /\ SetPhase(w, r, "revoked")
  /\ UNCHANGED <<sessionVars, runVars, leaseVars, cancelVars, envVars>>

\* The heartbeat itself fails: the Sandbox is quarantined and every execution
\* of the Worker is revoked.
HeartbeatFails(w) ==
  /\ \E r \in Runs : job[w][r].phase = "started"
  /\ "heartbeat" \in Env \/ sandbox[w].state \notin {"ready", "leased"}
  /\ sandbox' = [sandbox EXCEPT ![w].state =
                   IF @ = "terminated" THEN @ ELSE "failed"]
  /\ job' = [job EXCEPT ![w] =
       [r \in Runs |-> IF job[w][r].phase = "started"
                       THEN [job[w][r] EXCEPT !.phase = "revoked"]
                       ELSE job[w][r]]]
  /\ UNCHANGED <<sessionVars, runVars, lease, cancelVars, envVars>>

\* EventProjectionBarrier.waitForSession gives up.  After a success the failure
\* event_projection_unavailable is recorded; after a failure the wait is
\* outside any handler and #dispatch throws.
BarrierTimesOut(w, r) ==
  /\ "projection" \in Env
  /\ ~projected[SessionOf[r]]
  /\ \/ job[w][r].phase = "succeeded" /\ SetPhase(w, r, "unprojected")
     \/ job[w][r].phase \in {"failed", "revoked"} /\ EndJob(w, r)
  /\ UNCHANGED <<sessionVars, runVars, leaseVars, cancelVars, envVars>>

\* Mutant: #complete does not check that the Turn is still running.
CompletableWhileCancelling(w, r) ==
  /\ HoldsLease(w, r) /\ lease[SessionOf[r]].live
  /\ command[r] = "acknowledged" /\ outbox[r].published
  /\ HeadUnmoved(r) /\ Releasable(SessionOf[r])

\* What #complete checks before it writes.
Completable(w, r) ==
  LET s == SessionOf[r] IN
  /\ HoldsLease(w, r) /\ lease[s].live
  /\ command[r] = "acknowledged" /\ turn[r] = "running"
  /\ session[s] = "running"
  /\ outbox[r].published
  /\ HeadUnmoved(r)
  /\ Releasable(s)

\* The end of every settling transaction: command, turn and session together.
Settle(r, commandState, turnState, sessionState) ==
  /\ command' = [command EXCEPT ![r] = commandState]
  /\ turn' = [turn EXCEPT ![r] = turnState]
  /\ session' = [session EXCEPT ![SessionOf[r]] = sessionState]

\* #complete: one transaction settles the Run, advances the heads, commits the
\* terminal event and releases the lease.
Complete(w, r) ==
  LET s == SessionOf[r] IN
  /\ job[w][r].phase = "succeeded"
  /\ Unlocked(s)
  /\ Completable(w, r)
  /\ MoveRun(r, "completed")
  /\ AdvanceHeads(r)
  /\ Settle(r, "completed", "completed", "idle")
  /\ CommitTerminalEvent(r)
  /\ ReleaseLease(s)
  /\ EndJob(w, r)
  /\ UNCHANGED <<fence, nextPosition, position, outbox, base>>
  /\ UNCHANGED <<cancelVars, envVars>>

\* #complete throws: #dispatch records nothing and the Run stays as it is.  So
\* does an Event Gateway that cannot prepare the terminal projection.
CompleteFails(w, r) ==
  /\ job[w][r].phase = "succeeded"
  /\ projected[SessionOf[r]]
  /\ Unlocked(SessionOf[r])
  /\ "projection" \notin Env => ~Completable(w, r)
  /\ EndJob(w, r)
  /\ UNCHANGED <<sessionVars, runVars, leaseVars, cancelVars, envVars>>

\* Before the ACK #recordFailure requires the claim, unacknowledged.
Unacknowledged(w, r) ==
  /\ HoldsClaim(w, r)
  /\ command[r] = "dispatched" /\ turn[r] = "dispatching"
  /\ ~outbox[r].published

Retries(w, r) ==
  job[w][r].phase = "rejected" /\ job[w][r].attempt < MaxAttempts

\* #recordFailure, shouldRetry: the command returns to the mailbox.
RecordRetry(w, r) ==
  /\ Retries(w, r)
  /\ Unlocked(SessionOf[r])
  /\ Unacknowledged(w, r)
  /\ attempt' = [attempt EXCEPT ![r][Current(r)].state = "failed"]
  /\ run' = [run EXCEPT ![r] = "queued"]
  /\ command' = [command EXCEPT ![r] = "pending"]
  /\ turn' = [turn EXCEPT ![r] = "queued"]
  /\ outbox' = [outbox EXCEPT ![r].available = TRUE]
  /\ EndJob(w, r)
  /\ UNCHANGED <<position, base, staged, terminal>>
  /\ UNCHANGED <<sessionVars, leaseVars, cancelVars, envVars>>

\* #recordFailure of a Run that never started: the Session is left alone.
RecordFailureBeforeStart(w, r) ==
  /\ job[w][r].phase \in {"rejected", "refused"} /\ ~Retries(w, r)
  /\ Unlocked(SessionOf[r])
  /\ Unacknowledged(w, r)
  /\ MoveRun(r, "failed")
  /\ AbandonStaged(r)
  /\ command' = [command EXCEPT ![r] = "failed"]
  /\ turn' = [turn EXCEPT ![r] = "failed"]
  /\ CommitTerminalEvent(r)
  /\ outbox' = [outbox EXCEPT ![r].published = TRUE]
  /\ EndJob(w, r)
  /\ UNCHANGED <<session, fence, nextPosition, position, base>>
  /\ UNCHANGED <<leaseVars, cancelVars, envVars>>

\* After the ACK #recordFailure requires the fence, expired or not.
FailsCurrentRun(w, r) ==
  /\ HoldsLease(w, r)
  /\ command[r] = "acknowledged" /\ turn[r] = "running"
  /\ session[SessionOf[r]] = "running"
  /\ outbox[r].published
  /\ Releasable(SessionOf[r])

\* #recordFailure of a started Run; a revoked lease quarantines the Session.
RecordFailureAfterStart(w, r) ==
  LET s == SessionOf[r] IN
  /\ job[w][r].phase \in {"failed", "revoked", "unprojected"}
  /\ Unlocked(s)
  /\ FailsCurrentRun(w, r)
  /\ MoveRun(r, "failed")
  /\ AbandonStaged(r)
  /\ Settle(r, "failed", "failed",
            IF job[w][r].phase = "revoked" THEN "failed" ELSE "idle")
  /\ CommitTerminalEvent(r)
  /\ ReleaseLease(s)
  /\ EndJob(w, r)
  /\ UNCHANGED <<fence, nextPosition, position, outbox, base>>
  /\ UNCHANGED <<cancelVars, envVars>>

\* #observeCancellation finds the Run settled or being cancelled, or
\* #recordFailure throws: a stale claim, a changed phase, or (before the ACK
\* and once the barrier gave up) a terminal event the stream cannot take.
RecordFailureStale(w, r) ==
  LET before == job[w][r].phase \in {"rejected", "refused"}
      after == job[w][r].phase \in {"failed", "revoked", "unprojected"}
      lags == ~projected[SessionOf[r]]
  IN /\ Unlocked(SessionOf[r])
     /\ \/ before /\ ~Unacknowledged(w, r)
        \/ before /\ ~Retries(w, r) /\ lags
        \/ after /\ ~FailsCurrentRun(w, r)
        \/ job[w][r].phase = "unprojected" /\ lags
     /\ EndJob(w, r)
     /\ UNCHANGED <<sessionVars, runVars, leaseVars, cancelVars, envVars>>

\* The database aborts a transaction of #dispatch (a deadlock, a lost
\* connection): the error leaves #dispatch and the Worker only logs it.
CommitAborts(w, r) ==
  /\ "abort" \in Env
  /\ job[w][r].phase \notin {"none", "claimed", "leased", "started"}
  /\ EndJob(w, r)
  /\ UNCHANGED <<sessionVars, runVars, leaseVars, cancelVars, envVars>>

-----------------------------------------------------------------------------
(* A user cancels a running Turn: acceptTurnCancellation and                 *)
(* RunCancellationExecutor.  One request per Run (the code allows another    *)
(* once the first has failed).                                               *)

AcceptTurnCancellation(r) ==
  /\ "cancel" \in Env
  /\ cancel[r].state = "absent"
  /\ Unlocked(SessionOf[r])
  /\ turn[r] = "running" /\ session[SessionOf[r]] = "running"
  /\ command[r] = "acknowledged"
  /\ cancel' = [cancel EXCEPT ![r] = [state |-> "pending", attempts |-> 0,
                                     available |-> TRUE, published |-> FALSE]]
  /\ UNCHANGED <<sessionVars, runVars, leaseVars, cancelJob, envVars, job>>

CancelDue(r) ==
  /\ cancel[r].state \in {"pending", "dispatched"}
  /\ ~cancel[r].published /\ cancel[r].available

SetCancelPhase(w, r, phase) ==
  cancelJob' = [cancelJob EXCEPT ![w][r].phase = phase]
EndCancelJob(w, r) == cancelJob' = [cancelJob EXCEPT ![w][r] = NoCancelJob]

\* PostgresPiWorker.#cancellationReferences: a Worker with active commands
\* looks for cancellations of the Runs it owns and executes.
ScanCancel(w, r) ==
  /\ up[w]
  /\ cancelJob[w][r].phase = "none"
  /\ \E q \in Runs : job[w][q].phase # "none"
  /\ CancelDue(r)
  /\ CurrentAttempt(r).owner = w
  /\ CurrentAttempt(r).state \in ExecutingStates
  /\ SetCancelPhase(w, r, "scanned")
  /\ UNCHANGED <<sessionVars, runVars, leaseVars, cancel, envVars, job>>

\* #claimNext of the cancellation; the state of the target is not looked at.
\* Only the Worker that executes a Run scans for its cancellation, one scan at
\* a time, so the row is still due here and only its lock can make it wait.
ClaimCancel(w, r) ==
  /\ cancelJob[w][r].phase = "scanned"
  /\ Unlocked(SessionOf[r])
  /\ cancel[r].attempts < MaxClaims
  /\ CancelDue(r)
  /\ cancel' = [cancel EXCEPT ![r] =
       [state |-> "dispatched", attempts |-> @.attempts + 1,
        available |-> FALSE, published |-> FALSE]]
  /\ cancelJob' = [cancelJob EXCEPT ![w][r] =
       [phase |-> "claimed", attempt |-> cancel[r].attempts + 1,
        target |-> Current(r), fence |-> 0]]
  /\ UNCHANGED <<sessionVars, runVars, leaseVars, envVars, job>>

\* currentAssignment and AgentRunSupervisor.prepareCancellation: the lease is
\* this Worker's, and so is a running execution under it.
Assigned(w, r) ==
  LET s == SessionOf[r] IN
  /\ session[s] = "running"
  /\ cancelJob[w][r].target = Current(r)
  /\ HoldsFence(w, r, fence[s]) /\ lease[s].live
  /\ job[w][r].phase = "started" /\ job[w][r].fence = fence[s]

CancelAssign(w, r) ==
  /\ cancelJob[w][r].phase = "claimed"
  /\ Unlocked(SessionOf[r])
  /\ \/ /\ Assigned(w, r)
        /\ cancelJob' = [cancelJob EXCEPT ![w][r].phase = "assigned",
                                         ![w][r].fence = fence[SessionOf[r]]]
     \/ ~Assigned(w, r) /\ SetCancelPhase(w, r, "refused")
     \/ "abort" \in Env /\ SetCancelPhase(w, r, "rejected")
  /\ UNCHANGED <<sessionVars, runVars, leaseVars, cancel, envVars, job>>

\* #lockLifecycleRows of the cancellation.
HoldsCancel(w, r) ==
  /\ cancelJob[w][r].attempt = cancel[r].attempts
  /\ cancelJob[w][r].target = Current(r)

\* The cancellation_too_late checks of #markStarted.
InTime(r) ==
  /\ cancel[r].state = "dispatched" /\ ~cancel[r].published
  /\ command[r] = "acknowledged"
  /\ turn[r] = "running" /\ session[SessionOf[r]] = "running"
  /\ terminal[r] = 0

FenceIsCurrent(w, r) ==
  HoldsFence(w, r, cancelJob[w][r].fence) /\ lease[SessionOf[r]].live

\* #markStarted of the cancellation revokes the Run's authority to complete.
CancelMarkStarted(w, r) ==
  /\ cancelJob[w][r].phase = "assigned"
  /\ Unlocked(SessionOf[r])
  /\ HoldsCancel(w, r)
  /\ InTime(r)
  /\ FenceIsCurrent(w, r)
  /\ MoveRun(r, "cancel_requested")
  /\ cancel' = [cancel EXCEPT ![r].state = "acknowledged", ![r].published = TRUE]
  /\ turn' = [turn EXCEPT ![r] = "cancelling"]
  /\ session' = [session EXCEPT ![SessionOf[r]] = "cancelling"]
  /\ SetCancelPhase(w, r, "acknowledged")
  /\ UNCHANGED <<fence, nextPosition, version, head>>
  /\ UNCHANGED <<position, command, outbox, base, staged, terminal>>
  /\ UNCHANGED <<leaseVars, envVars, job>>

\* Too late is recorded as a failure before start; any other error is thrown
\* and the cancellation is left to its claim expiry.
CancelMarkStartedFails(w, r) ==
  /\ cancelJob[w][r].phase = "assigned"
  /\ Unlocked(SessionOf[r])
  /\ \/ HoldsCancel(w, r) /\ ~InTime(r) /\ SetCancelPhase(w, r, "refused")
     \/ ~HoldsCancel(w, r) /\ EndCancelJob(w, r)
     \/ /\ HoldsCancel(w, r) /\ InTime(r) /\ ~FenceIsCurrent(w, r)
        /\ EndCancelJob(w, r)
  /\ UNCHANGED <<sessionVars, runVars, leaseVars, cancel, envVars, job>>

\* AgentRunSupervisor.#runCancellation aborts the execution, which confirms or
\* ends otherwise; its #dispatch then finds the Run cancelling and returns.
CancelExecution(w, r, phase) ==
  /\ cancelJob[w][r].phase = "acknowledged"
  /\ phase = "confirmed" => job[w][r].phase = "started"
  /\ IF job[w][r].phase = "started" THEN EndJob(w, r) ELSE UNCHANGED job
  /\ SetCancelPhase(w, r, phase)
  /\ UNCHANGED <<sessionVars, runVars, leaseVars, cancel, envVars>>

CancelOwnsTurn(r) ==
  /\ cancel[r].state = "acknowledged" /\ cancel[r].published
  /\ command[r] = "acknowledged"
  /\ turn[r] = "cancelling" /\ session[SessionOf[r]] = "cancelling"

\* #complete of the cancellation.
CancelComplete(w, r) ==
  LET s == SessionOf[r] IN
  /\ cancelJob[w][r].phase = "confirmed"
  /\ Unlocked(s)
  /\ HoldsCancel(w, r) /\ CancelOwnsTurn(r) /\ FenceIsCurrent(w, r)
  /\ MoveRun(r, "cancelled")
  /\ AbandonStaged(r)
  /\ Settle(r, "completed", "cancelled", "idle")
  /\ cancel' = [cancel EXCEPT ![r].state = "completed"]
  /\ CommitTerminalEvent(r)
  /\ ReleaseLease(s)
  /\ EndCancelJob(w, r)
  /\ UNCHANGED <<fence, nextPosition, position, outbox, base>>
  /\ UNCHANGED <<envVars, job>>

\* #complete throws, or the barrier in front of it or of #recordFailure does.
CancelSettleFails(w, r) ==
  LET s == SessionOf[r] IN
  /\ \/ /\ cancelJob[w][r].phase = "confirmed" /\ projected[s]
        /\ ~(HoldsCancel(w, r) /\ CancelOwnsTurn(r) /\ FenceIsCurrent(w, r))
     \/ /\ cancelJob[w][r].phase = "unconfirmed" /\ projected[s]
        /\ ~(HoldsCancel(w, r) /\ CancelOwnsTurn(r))
     \/ /\ cancelJob[w][r].phase \in {"confirmed", "unconfirmed"}
        /\ "projection" \in Env /\ ~projected[s]
     \/ /\ cancelJob[w][r].phase \in {"refused", "rejected"}
        /\ ~(HoldsCancel(w, r) /\ cancel[r].state = "dispatched"
                               /\ ~cancel[r].published)
  /\ Unlocked(s)
  /\ EndCancelJob(w, r)
  /\ UNCHANGED <<sessionVars, runVars, leaseVars, cancel, envVars, job>>

\* #recordFailure of the cancellation before its ACK: the Turn runs on.
CancelRecordFailureBeforeStart(w, r) ==
  LET retry == /\ cancelJob[w][r].phase = "rejected"
               /\ cancelJob[w][r].attempt < MaxAttempts
  IN /\ cancelJob[w][r].phase \in {"refused", "rejected"}
     /\ Unlocked(SessionOf[r])
     /\ HoldsCancel(w, r)
     /\ cancel[r].state = "dispatched" /\ ~cancel[r].published
     /\ cancel' = [cancel EXCEPT
          ![r].state = IF retry THEN "pending" ELSE "failed",
          ![r].published = ~retry]
     /\ EndCancelJob(w, r)
     /\ UNCHANGED <<sessionVars, runVars, leaseVars, envVars, job>>

\* #recordFailure of a cancellation that had started: Run and Session fail.  No
\* terminal event is committed and the lease is not released.
CancelRecordFailureAfterStart(w, r) ==
  /\ cancelJob[w][r].phase = "unconfirmed"
  /\ projected[SessionOf[r]]
  /\ Unlocked(SessionOf[r])
  /\ HoldsCancel(w, r) /\ CancelOwnsTurn(r)
  /\ MoveRun(r, "failed")
  /\ AbandonStaged(r)
  /\ Settle(r, "failed", "failed", "failed")
  /\ cancel' = [cancel EXCEPT ![r].state = "failed"]
  /\ EndCancelJob(w, r)
  /\ UNCHANGED <<fence, nextPosition, position, outbox, base, terminal>>
  /\ UNCHANGED <<leaseVars, envVars, job>>

\* available_at of the cancellation passes: its claim expired, or the delay of
\* a retry is over.
CancelExpires(r) ==
  /\ cancel[r].state \in {"pending", "dispatched"}
  /\ ~cancel[r].published /\ ~cancel[r].available
  /\ \/ "claim" \in Env
     \/ \A w \in Workers : cancelJob[w][r].phase \in {"none", "scanned"}
  /\ cancel' = [cancel EXCEPT ![r].available = TRUE]
  /\ UNCHANGED <<sessionVars, runVars, leaseVars, cancelJob, envVars, job>>

-----------------------------------------------------------------------------
(* A Worker dies and the control plane retires its Sandbox.                  *)

\* The process is gone and its transactions are rolled back.
Kill(w) ==
  /\ up' = [up EXCEPT ![w] = FALSE]
  /\ job' = [job EXCEPT ![w] = [r \in Runs |-> NoJob]]
  /\ cancelJob' = [cancelJob EXCEPT ![w] = [r \in Runs |-> NoCancelJob]]

WorkerCrashes(w) ==
  /\ "crash" \in Env
  /\ up[w]
  /\ Kill(w)
  /\ UNCHANGED <<sessionVars, runVars, leaseVars, cancel>>
  /\ UNCHANGED <<retirement, projected, blocked>>

\* #expireConnection or a newer boot's registration, through #fenceSandbox.  A
\* live Worker is fenced when its heartbeats do not arrive: the event "fence".
FenceSandbox(w) ==
  /\ ~up[w] \/ "fence" \in Env
  /\ retirement[w].state = "none"
  /\ retirement' = [retirement EXCEPT ![w].state = "pending"]
  /\ sandbox' = [sandbox EXCEPT ![w].state = "failed"]
  /\ UNCHANGED <<sessionVars, runVars, lease, cancelVars, job>>
  /\ UNCHANGED <<projected, blocked, up>>

\* Mutant: the assignments are reconciled without stopping their owner.
SkipStop(w) ==
  /\ retirement[w].state = "pending"
  /\ retirement' = [retirement EXCEPT ![w].state = "stopped"]
  /\ UNCHANGED <<sessionVars, runVars, leaseVars, cancelVars, job>>
  /\ UNCHANGED <<projected, blocked, up>>

\* processNextRetirement: ownerBoundary.stopAndConfirm kills the process.
StopAndConfirm(w) ==
  /\ retirement[w].state = "pending"
  /\ retirement' = [retirement EXCEPT ![w].state = "stopped"]
  /\ Kill(w)
  /\ UNCHANGED <<sessionVars, runVars, leaseVars, cancel>>
  /\ UNCHANGED <<projected, blocked>>

\* retireSandbox: #loadDurableAssignments reads the Sandbox's leases.
LoadAssignments(w) ==
  /\ retirement[w].state = "stopped"
  /\ retirement' = [retirement EXCEPT ![w] =
       [state |-> "loaded",
        candidates |-> {<<s, lease[s].fence>> :
                          s \in {t \in Sessions : lease[t].owner = w}}]]
  /\ UNCHANGED <<sessionVars, runVars, leaseVars, cancelVars, job>>
  /\ UNCHANGED <<projected, blocked, up>>

\* The loaded leases that are still there: the others are skipped.
Orphaned(w) ==
  {s \in Sessions : /\ lease[s].owner = w
                    /\ <<s, lease[s].fence>> \in retirement[w].candidates}

\* #finalizeLease looks at the active Turn of the lease's Session, whichever
\* attempt of it acquired the lease.
OrphanedRuns(w) == {r \in ActiveTurns : SessionOf[r] \in Orphaned(w)}

\* Mutant: any unsettled command of a dead owner returns to the mailbox.
AnyUnsettled(r) == command[r] \in OpenCommandStates

SafelyUnacknowledged(r) ==
  /\ command[r] = "dispatched" /\ turn[r] = "dispatching"
  /\ session[SessionOf[r]] \in {"cold", "idle"}
  /\ ~outbox[r].published
  /\ cancel[r].state \notin OpenCommandStates

\* The assertions of #finalizeLease and retireSandbox.
Reconcilable(w) ==
  /\ \A s \in Sessions : lease[s].owner = w => s \in Orphaned(w)
  /\ \A s \in Orphaned(w) :
       session[s] \in {"running", "cancelling"}
         => \E r \in OrphanedRuns(w) : SessionOf[r] = s
  /\ \A q, r \in OrphanedRuns(w) : SessionOf[q] = SessionOf[r] => q = r
  /\ \A r \in OrphanedRuns(w) :
       SafelyUnacknowledged(r)
         \/ (/\ session[SessionOf[r]] \in {"running", "cancelling"}
             /\ turn[r] \in {"running", "cancelling"}
             /\ command[r] \in OpenCommandStates)

\* Unacknowledged Runs return to the mailbox; the others are lost.
RequeuedRuns(w) == {r \in OrphanedRuns(w) : SafelyUnacknowledged(r)}
LostRuns(w) == OrphanedRuns(w) \ RequeuedRuns(w)

\* The transaction of retireSandbox: lost Runs fail with their Session, and the
\* Sandbox is terminated.
FinalizeRetirement(w) ==
  LET requeued == RequeuedRuns(w)
      lost == LostRuns(w)
      lostSessions == {SessionOf[r] : r \in lost}
      Update(f, onRequeue, onLoss) ==
        [r \in Runs |-> IF r \in requeued THEN onRequeue
                        ELSE IF r \in lost THEN onLoss ELSE f[r]]
  IN /\ retirement[w].state = "loaded"
     /\ \A s \in Orphaned(w) : Unlocked(s)
     /\ Reconcilable(w)
     /\ \A s \in lostSessions : projected[s]
     /\ run' = Update(run, "queued", "failed")
     /\ command' = Update(command, "pending", "failed")
     /\ turn' = Update(turn, "queued", "failed")
     /\ attempt' = [r \in Runs |-> [a \in Claims |->
          IF r \in OrphanedRuns(w) /\ a = Current(r)
          THEN [attempt[r][a] EXCEPT !.state = "failed"]
          ELSE attempt[r][a]]]
     /\ outbox' = [r \in Runs |-> [outbox[r] EXCEPT
          !.available = @ \/ r \in requeued, !.published = @ \/ r \in lost]]
     /\ staged' = [r \in Runs |-> staged[r] /\ r \notin lost]
     /\ terminal' = [r \in Runs |-> IF r \in lost THEN terminal[r] + 1 ELSE terminal[r]]
     /\ cancel' = [r \in Runs |->
          IF r \in lost /\ cancel[r].state \in OpenCommandStates
          THEN [cancel[r] EXCEPT !.state = "failed", !.published = TRUE]
          ELSE cancel[r]]
     /\ session' = [s \in Sessions |->
          IF s \in lostSessions THEN "failed" ELSE session[s]]
     /\ lease' = [s \in Sessions |->
          IF s \in Orphaned(w) THEN NoLease ELSE lease[s]]
     /\ sandbox' = [sandbox EXCEPT ![w] = [state |-> "terminated", active |-> 0]]
     /\ retirement' = [retirement EXCEPT ![w] =
          [state |-> "completed", candidates |-> {}]]
     /\ UNCHANGED <<fence, nextPosition, version, head, position, base>>
     /\ UNCHANGED <<cancelJob, projected, blocked, up, job>>

\* retireSandbox throws a retryable error: the projection of a lost Run lags, or
\* the database does.  The retirement is claimed again later.
RetirementFails(w) ==
  /\ retirement[w].state = "loaded"
  /\ \/ "abort" \in Env
     \/ \E r \in LostRuns(w) : ~projected[SessionOf[r]]
  /\ retirement' = [retirement EXCEPT ![w] =
       [state |-> "pending", candidates |-> {}]]
  /\ UNCHANGED <<sessionVars, runVars, leaseVars, cancelVars, job>>
  /\ UNCHANGED <<projected, blocked, up>>

-----------------------------------------------------------------------------
\* The steps of RunCommandExecutor.#dispatch once it has selected a Run.
Dispatch(w, r) ==
  \/ ClaimCommit(w, r) \/ ClaimBlocked(w, r)
  \/ Acquire(w, r) \/ AcquireFails(w, r)
  \/ MarkStarted(w, r) \/ MarkStartedFails(w, r)
  \/ \E phase \in {"succeeded", "failed"} : ExecutionEnds(w, r, phase)
  \/ HeartbeatRevokes(w, r)
  \/ Complete(w, r) \/ CompleteFails(w, r)
  \/ RecordRetry(w, r)
  \/ RecordFailureBeforeStart(w, r) \/ RecordFailureAfterStart(w, r)
  \/ RecordFailureStale(w, r)

\* The steps of RunCancellationExecutor.#dispatch.
CancelDispatch(w, r) ==
  \/ ScanCancel(w, r) \/ ClaimCancel(w, r)
  \/ CancelAssign(w, r)
  \/ CancelMarkStarted(w, r) \/ CancelMarkStartedFails(w, r)
  \/ \E phase \in {"confirmed", "unconfirmed"} : CancelExecution(w, r, phase)
  \/ CancelComplete(w, r) \/ CancelSettleFails(w, r)
  \/ CancelRecordFailureBeforeStart(w, r)
  \/ CancelRecordFailureAfterStart(w, r)

\* What a running agent does to its Run without ending it.
Execution(w, r) ==
  \/ EmitEvents(w, r)
  \/ \E phase \in ExecutingStates : ObservePhase(w, r, phase)
  \/ SaveCheckpoint(w, r)

\* What may go wrong around one Run of one Worker.
Fault(w, r) ==
  \/ \E phase \in {"rejected", "refused"} : DeliveryRejected(w, r, phase)
  \/ BarrierTimesOut(w, r)
  \/ CommitAborts(w, r)

\* SupervisorConnectionManager.runMaintenanceCycle.
Retire(w) ==
  \/ FenceSandbox(w) \/ StopAndConfirm(w) \/ LoadAssignments(w)
  \/ FinalizeRetirement(w) \/ RetirementFails(w)

Next ==
  \/ \E r \in Runs : AcceptTurn(r) \/ AcceptTurnCancellation(r)
  \/ \E k \in Workspaces : ToggleWorkspace(k)
  \/ \E w \in Workers, r \in Runs :
       ClaimSelect(w, r) \/ Dispatch(w, r) \/ CancelDispatch(w, r)
         \/ Execution(w, r) \/ Fault(w, r)
  \/ \E r \in Runs : ClaimExpires(r) \/ CancelExpires(r)
  \/ \E s \in Sessions : LeaseExpires(s) \/ ProjectEvents(s)
  \/ \E w \in Workers : HeartbeatFails(w) \/ WorkerCrashes(w) \/ Retire(w)

Spec == Init /\ [][Next]_vars

\* A live Worker polls the queue every second and its event loop runs every
\* continuation; an execution is bounded by maximum_run_duration_ms; clocks
\* advance; the projector and the one-second maintenance cycle run.  A dead
\* Worker promises nothing: Kill has cleared its jobs.
Fairness ==
  /\ \A r \in Runs : WF_vars(\E w \in Workers : ClaimSelect(w, r))
  /\ \A w \in Workers, r \in Runs :
       WF_vars(Dispatch(w, r)) /\ WF_vars(CancelDispatch(w, r))
  /\ \A r \in Runs : WF_vars(ClaimExpires(r)) /\ WF_vars(CancelExpires(r))
  /\ \A s \in Sessions : WF_vars(LeaseExpires(s)) /\ WF_vars(ProjectEvents(s))
  /\ \A w \in Workers : WF_vars(~up[w] /\ FenceSandbox(w))
  /\ \A w \in Workers : WF_vars(StopAndConfirm(w) \/ LoadAssignments(w)
                                 \/ FinalizeRetirement(w) \/ RetirementFails(w))

FairSpec == Spec /\ Fairness

-----------------------------------------------------------------------------
(* Properties.                                                               *)

\* The shapes of the rows and of the Workers' in-memory records.
OutboxRow == [attempts : 0 .. MaxClaims, available : BOOLEAN, published : BOOLEAN]
AttemptRow == [state : AttemptStates, owner : Workers \cup {NoWorker}, fence : Nat]
LeaseRow == [owner : Workers \cup {NoWorker}, fence : Nat, live : BOOLEAN]
SandboxRow == [state : SandboxStates, active : Nat]
RetirementRow == [state : RetirementStates, candidates : SUBSET (Sessions \X Nat)]
CancelRow == [state : CommandStates, attempts : 0 .. MaxClaims,
              available : BOOLEAN, published : BOOLEAN]
JobRecord == [phase : JobPhases, attempt : 0 .. MaxClaims, fence : Nat,
              base : Versions]
CancelJobRecord == [phase : CancelPhases, attempt : 0 .. MaxClaims,
                    target : 0 .. MaxClaims, fence : Nat]

SessionTypes ==
  /\ session \in [Sessions -> SessionStates]
  /\ fence \in [Sessions -> Nat]
  /\ nextPosition \in [Sessions -> Nat \ {0}]
  /\ version \in [Sessions -> Versions]
  /\ head \in [Workspaces -> Versions]

RunTypes ==
  /\ position \in [Runs -> Nat]
  /\ turn \in [Runs -> TurnStates]
  /\ command \in [Runs -> CommandStates]
  /\ run \in [Runs -> RunStates]
  /\ outbox \in [Runs -> OutboxRow]
  /\ base \in [Runs -> Versions]
  /\ staged \in [Runs -> BOOLEAN]
  /\ terminal \in [Runs -> Nat]
  /\ attempt \in [Runs -> [Claims -> AttemptRow]]

LeaseTypes ==
  /\ lease \in [Sessions -> LeaseRow]
  /\ sandbox \in [Workers -> SandboxRow]

CancelTypes ==
  /\ cancel \in [Runs -> CancelRow]
  /\ cancelJob \in [Workers -> [Runs -> CancelJobRecord]]

EnvTypes ==
  /\ retirement \in [Workers -> RetirementRow]
  /\ projected \in [Sessions -> BOOLEAN]
  /\ blocked \in SUBSET Workspaces
  /\ up \in [Workers -> BOOLEAN]

JobTypes == job \in [Workers -> [Runs -> JobRecord]]

\* Every row has a state its state machine knows, and every counter stays in
\* its range: no reservation is given back twice.
TypeOK ==
  SessionTypes /\ RunTypes /\ LeaseTypes /\ CancelTypes /\ EnvTypes /\ JobTypes

\* What a claim's SELECT saw of its Run is still true when the claim commits,
\* and nobody else has a claim open in the Session: FOR UPDATE SKIP LOCKED on
\* the Session's row keeps every other transition of the Run out.
OpenClaimIsCurrent ==
  \A w \in Workers, r \in Runs :
    job[w][r].phase = "selected" =>
      /\ \/ turn[r] = "queued" /\ command[r] = "pending"
         \/ turn[r] = "dispatching" /\ command[r] = "dispatched"
      /\ job[w][r].attempt = Current(r) + 1
      /\ session[SessionOf[r]] \in {"cold", "idle"}
      /\ \A v \in Workers, q \in Runs :
           job[v][q].phase = "selected" /\ SessionOf[q] = SessionOf[r]
             => v = w /\ q = r

\* A Session executes one Turn at a time, and so does a Workspace among its
\* unforked Sessions: two claims whose SELECTs both saw the Workspace free do
\* not both commit (#claimNext's recheck under the Workspace lock).
OneActiveTurn ==
  \A q, r \in ActiveTurns :
    LET s == SessionOf[q]  t == SessionOf[r] IN
    (s = t \/ (InWorkspace(s, t) /\ s \notin Forked /\ t \notin Forked)) => q = r

\* Turns of a Session leave the mailbox in the order they entered it: when one
\* is being executed, or was, all earlier ones are settled.
MailboxOrder ==
  \A q, r \in Runs :
    (/\ SessionOf[q] = SessionOf[r]
     /\ 0 < position[q] /\ position[q] < position[r]
     /\ turn[r] \notin {"absent", "queued"})
    => turn[q] \in TerminalRunStates

\* A live execution is the one the database knows: as long as a Worker runs the
\* agent loop, its claim is current, the Session's lease and its newest fence
\* are this execution's, and the Turn is unsettled.  Two processes therefore
\* never execute the same Session, whatever expires or is retired meanwhile.
ExecutionOwnsSession ==
  \A w \in Workers, r \in Runs :
    job[w][r].phase = "started" =>
      /\ HoldsLease(w, r)
      /\ job[w][r].fence = fence[SessionOf[r]]
      /\ command[r] = "acknowledged"
      /\ turn[r] \in {"running", "cancelling"}

\* An acknowledged Run always has its lease, under the Session's newest fence:
\* a late Worker whose claim expired never releases or replaces it.
AcknowledgedHoldsLease ==
  \A r \in Runs :
    command[r] = "acknowledged" =>
      /\ CurrentAttempt(r).owner # NoWorker
      /\ HoldsFence(CurrentAttempt(r).owner, r, fence[SessionOf[r]])

\* The rows of a Run, its attempt, its Session and its cancellation agree after
\* every commit: of a completion and a cancellation that race, one wins whole.
RowsOfRunAgree ==
  \A r \in Runs :
    LET s == SessionOf[r] IN
    /\ (cancel[r].state = "acknowledged") = (turn[r] = "cancelling")
    /\ CASE turn[r] = "absent" -> command[r] = "absent" /\ run[r] = "absent"
         [] turn[r] = "queued" ->
              command[r] = "pending" /\ run[r] = "queued" /\ ~outbox[r].published
         [] turn[r] = "dispatching" ->
              /\ command[r] = "dispatched" /\ run[r] = "claimed"
              /\ CurrentAttempt(r).state = "claimed"
              /\ ~outbox[r].published /\ session[s] \in {"cold", "idle"}
         [] turn[r] = "running" ->
              /\ command[r] = "acknowledged" /\ run[r] \in ExecutingStates
              /\ CurrentAttempt(r).state = run[r]
              /\ outbox[r].published /\ session[s] = "running"
         [] turn[r] = "cancelling" ->
              /\ command[r] = "acknowledged" /\ run[r] = "cancel_requested"
              /\ CurrentAttempt(r).state = run[r]
              /\ session[s] = "cancelling"
         [] OTHER ->
              /\ turn[r] = run[r] /\ CurrentAttempt(r).state = run[r]
              /\ command[r] = IF turn[r] = "failed" THEN "failed" ELSE "completed"
              /\ outbox[r].published

\* A Turn gets at most one public terminal event and only when it is settled;
\* only the failure of a started cancellation settles a Turn without one.
TerminalEventAtSettlement ==
  \A r \in Runs :
    /\ terminal[r] <= 1
    /\ terminal[r] = 1 => turn[r] \in TerminalRunStates
    /\ (turn[r] \in TerminalRunStates /\ terminal[r] = 0)
         => turn[r] = "failed" /\ cancel[r].state = "failed"

\* Completion, cancellation, failure and retirement, in whatever order they come,
\* leave rows that agree and one public terminal event.
LifecycleAgreement == RowsOfRunAgree /\ TerminalEventAtSettlement

\* sandboxes.active_sessions counts the leases of the Sandbox exactly, through
\* expiry, takeover and retirement, and never exceeds its capacity.
CapacityAccounting ==
  \A w \in Workers :
    /\ sandbox[w].active = Cardinality({s \in Sessions : lease[s].owner = w})
    /\ sandbox[w].active <= Capacity
    /\ sandbox[w].state = "ready" => sandbox[w].active = 0
    /\ sandbox[w].state = "leased" => sandbox[w].active > 0

\* A Run in an unforked Session executes on the Workspace's head: no other Run
\* moves the head between the moment the claim read it and the Run's end.
BaseIsHead ==
  \A r \in ActiveTurns :
    SessionOf[r] \notin Forked => base[r] = head[WorkspaceOf[SessionOf[r]]]

\* Versions do not cross a fork, although both sides run at the same time: a
\* forked Session stands on its own completed Runs, the Workspace and its other
\* Sessions on theirs.
BranchesKeepApart ==
  /\ \A s \in Sessions :
       version[s] \in Runs =>
         /\ run[version[s]] = "completed"
         /\ IF s \in Forked THEN SessionOf[version[s]] = s
                           ELSE SessionOf[version[s]] \notin Forked
  /\ \A k \in Workspaces :
       head[k] \in Runs => SessionOf[head[k]] \notin Forked

\* The heads of Workspaces and Sessions: a Run works on the head it read, and
\* no version crosses a fork.
BranchesSound == BaseIsHead /\ BranchesKeepApart

\* A step leaves an acknowledged Run with its claim and a settled one as it is.
Final(r) ==
  /\ command[r] = "acknowledged" =>
       /\ command'[r] \in {"acknowledged", "completed", "failed"}
       /\ outbox'[r].attempts = outbox[r].attempts
  /\ run[r] \in TerminalRunStates => run'[r] = run[r] /\ turn'[r] = turn[r]

\* The durable ACK is the point of no return: an acknowledged Run is never
\* claimed again or returned to the mailbox, and its outcome is final.
RunSettlesOnce == [][\A r \in Runs : Final(r)]_vars

\* assertTransition, for a row that may not exist yet.
Legal(table, from, to) == from \in {to, "absent"} \/ to \in table[from]

\* #complete takes a Run it finds in one of these through running.
Lagging == {"provisioning", "restoring"}

\* No write is one the transition tables of the domain forbid: the assertions of
\* transitionTurn, transitionCommand, transitionRun and transitionRunAttempt
\* never fire.
TransitionsAreLegal ==
  [][\A r \in Runs :
       /\ Legal(TurnTransitions, turn[r], turn'[r])
       /\ Legal(CommandTransitions, command[r], command'[r])
       /\ Legal(CommandTransitions, cancel[r].state, cancel'[r].state)
       /\ \/ Legal(RunTransitions, run[r], run'[r])
          \/ run[r] \in Lagging /\ run'[r] = "completed"
       /\ \A a \in Claims :
            LET from == attempt[r][a].state  to == attempt'[r][a].state IN
            Legal(AttemptTransitions, from, to)
              \/ (from \in Lagging /\ to = "completed")
    ]_vars

\* The heads follow settled Runs only: the head of a Workspace moves in the step
\* that completes the Run it moves to, from that Run's own base.
HeadFollowsCompletion ==
  [][\A k \in Workspaces :
       head'[k] # head[k] =>
         /\ head'[k] \in Runs
         /\ run[head'[k]] = "checkpointing" /\ run'[head'[k]] = "completed"
         /\ base[head'[k]] = head[k]
    ]_vars

\* An accepted Turn is settled, unless its Session was quarantined under an
\* earlier Turn or every Worker is gone.
AcceptedTurnSettles ==
  \A r \in Runs :
    []<>(\/ turn[r] \in TerminalRunStates \cup {"absent"}
         \/ session[SessionOf[r]] = "failed"
         \/ \A w \in Workers : ~up[w])

\* docs/RUN_LIFECYCLE.md says a claim transactionally rechecks that tenant
\* concurrency allows the execution.
TenantConcurrencyLimit == Cardinality(ActiveTurns) <= TenantLimit

\* terminal-turn-event.ts: a settled Turn has its public terminal event.
SettledTurnHasTerminalEvent ==
  \A r \in Runs : turn[r] \in TerminalRunStates => terminal[r] = 1

\* run-command-executor.ts: an outage of the event projection must not strand
\* a Run that has started.
StartedRunSettles ==
  \A r \in Runs :
    run[r] \in ExecutingStates ~> run[r] \in TerminalRunStates

-----------------------------------------------------------------------------
(* The abstract life of a Run.                                               *)

\* The Turns whose Run is acknowledged and unsettled.
Executing(r) == turn[r] \in {"running", "cancelling"}

\* Claims, leases and retries are hidden.
Status(r) ==
  IF turn[r] \in {"queued", "dispatching"} THEN "queued"
  ELSE IF Executing(r) THEN "executing" ELSE turn[r]

Executor(r) == IF Executing(r) THEN CurrentAttempt(r).owner ELSE NoWorker

Contract == INSTANCE RunContract WITH
  status <- [r \in Runs |-> Status(r)],
  place <- position,
  executor <- [r \in Runs |-> Executor(r)]

\* Acceptance, claims, leases, cancellation and retirement together implement the
\* life of a message: first come first served, executed once, by one Worker at a
\* time and alone in its Session and Workspace, and settled for good.
ImplementsContract == Contract!Spec

=============================================================================
