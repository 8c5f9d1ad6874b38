---------------------------- MODULE SandboxBroker ----------------------------
(***************************************************************************)
(* The Tool Broker: replicas that give Runs, Web Terminals and development *)
(* environments a Cube microVM on a Workspace's persistent Volume.         *)
(*                                                                         *)
(* Three kinds of holder can own a Workspace: an activation (the Sandbox   *)
(* of a Run), a terminal and a development environment.  Each has a row in *)
(* PostgreSQL, written by the replica that owns it under that replica's    *)
(* instance lease; the replica keeps the rest in process memory.  VMs live *)
(* in Cube, outside both, and survive a crash of the replica.              *)
(*                                                                         *)
(* An activation is named after the Run that first created it; a warm VM   *)
(* keeps its activation when a later Run (or a delegated child) takes it.  *)
(***************************************************************************)
EXTENDS Naturals, Sequences, FiniteSets

CONSTANTS Brokers, Runs, Terminals, Envs, Workspaces,
          WorkspaceOf,    \* holder -> Workspace
          SessionOf,      \* Run -> Session
          Delegations,    \* shared_serialized Subagents: {<<parent, child Session>>}
          MaxAdmitted,    \* maximumActiveSandboxes of one replica
          DomainLimit,    \* maximum_active_sandboxes of the Sandbox Domain
          MaxWarm,        \* maximumWarmActivations
          Forks,          \* the Runs that start isolated Subagents
          Dispositions,   \* how a Run gives its Sandbox up
          MaxFaults,      \* bound: crashes, shutdowns and expired leases of live
                          \*   replicas, and failed calls to Cube, together
          None

Holders == Runs \cup Terminals \cup Envs

ASSUME SandboxBrokerAssumption ==
    /\ WorkspaceOf \in [Holders -> Workspaces]
    /\ Runs \cap Terminals = {} /\ Runs \cap Envs = {} /\ Terminals \cap Envs = {}
    /\ None \notin Brokers \cup Holders
    /\ Dispositions \subseteq {"ephemeral", "persistent", "destroy"}
    /\ MaxAdmitted \in Nat \ {0} /\ DomainLimit \in Nat /\ MaxWarm \in Nat \ {0}
    /\ MaxFaults \in Nat /\ Forks \subseteq Runs

VARIABLES
    inst,     \* tool_broker_instances: state and lease of each replica
    up,       \* is the replica's process running?
    row,      \* the rows of the three holder tables
    op,       \* tool_broker_operations: one operation per Run
    ran,      \* how often the guest started the Run's operation
    run,      \* the Run as PostgreSQL knows it
    vm,       \* the microVM of a holder, as Cube knows it
    mem,      \* process memory of a replica
    flow,     \* the call that provisions (and uses) a Sandbox for a Run,
              \*   a terminal or an environment
    closing,  \* the release of a Run's Sandbox in progress
    withdraw, \* environments whose release read an unstarted state
    faults

vars == <<inst, up, row, op, ran, run, vm, mem, flow, closing, withdraw, faults>>

NoVm == [state |-> "none", run |-> None, prov |-> None, stray |-> FALSE]
NoAct == [run |-> None, handle |-> FALSE, mat |-> FALSE]
NoWarm == [id |-> None, run |-> None, keep |-> "none"]
NoFlow == [phase |-> "none", by |-> None, kind |-> "none", id |-> None]
NoClose == [how |-> "none", by |-> None, id |-> None, handle |-> FALSE]

\* A replica's #activations, #warm, #suspended, #terminals and
\* #developmentEnvironments (open), terminals attached to the latter (ptys),
\* #admitted, #admissionWaiters, and the rows its reapers have claimed.
EmptyMemory ==
    [act |-> [a \in Runs |-> NoAct], warm |-> [w \in Workspaces |-> NoWarm],
     susp |-> [w \in Workspaces |-> NoWarm], open |-> {}, ptys |-> {},
     admitted |-> {}, waiters |-> <<>>, reaping |-> {}]

LiveActivation == {"reserved", "materializing", "active", "warm", "cleaning", "unknown"}
LiveTerminal == {"reserved", "materializing", "active", "cleaning", "unknown"}
LiveEnvironment == {"requested", "provisioning", "running", "paused", "releasing", "unknown"}
RowState == LiveActivation \cup LiveEnvironment \cup {"none", "failed", "released"}
Phases == {"none", "admit", "wait", "provide", "creating", "created", "exec"}

Live(h) == row[h].state \in IF h \in Runs THEN LiveActivation
                            ELSE IF h \in Terminals THEN LiveTerminal ELSE LiveEnvironment
At(w) == {h \in Holders : WorkspaceOf[h] = w}

----------------------------------------------------------------------------
(* Instance leases and row ownership (activation-state-repository.ts)      *)

\* #assertCurrentOwner: the instance row is ready and its lease has not
\* passed.  Every write below that needs it throws ownership_lost without it.
Current(b) == up[b] /\ inst[b] = "ready"

\* setActivationState, setTerminalState and setDevelopmentEnvironmentState
\* touch a row only while this replica owns it and it is not released.
CanSet(b, h) == Current(b) /\ row[h].owner = b /\ row[h].state # "released"
SetState(b, h, s) == IF CanSet(b, h) THEN [row EXCEPT ![h].state = s] ELSE row

SettleOperation(b, r, s) ==
    IF Current(b) /\ op[r] = [state |-> "running", by |-> b]
    THEN [op EXCEPT ![r].state = s] ELSE op

\* What #markExpiredOwnersLost and close() do with the rows of replicas bs.
\* close() leaves the terminal rows alone (ts).
Orphaned(bs, ts) ==
    [h \in Holders |->
        IF row[h].owner \in bs /\ Live(h) /\ row[h].state \notin {"requested", "unknown"}
              /\ h \notin ts
        THEN [row[h] EXCEPT !.state = "unknown"] ELSE row[h]]

OperationsLost(bs) ==
    [r \in Runs |-> IF op[r].state = "running" /\ op[r].by \in bs
                    THEN [op[r] EXCEPT !.state = "unknown"] ELSE op[r]]

\* The expired, still ready instances become lost, and with them all they owned.
MarkExpiredOwnersLost(i) ==
    LET lost == {b \in Brokers : i[b] = "expired"}
    IN  /\ inst' = [b \in Brokers |-> IF b \in lost THEN "lost" ELSE i[b]]
        /\ row' = Orphaned(lost, {})
        /\ op' = OperationsLost(lost)

Start(b) ==
    /\ inst[b] = "absent"
    /\ MarkExpiredOwnersLost([inst EXCEPT ![b] = "ready"])
    /\ up' = [up EXCEPT ![b] = TRUE]
    /\ UNCHANGED <<ran, run, vm, mem, flow, closing, withdraw, faults>>

\* The heartbeat.  A replica whose own lease has passed marks itself lost too.
Renew(b) ==
    /\ up[b] /\ inst[b] \in {"ready", "expired"}
    /\ \E c \in Brokers : inst[c] = "expired"
    /\ MarkExpiredOwnersLost(inst)
    /\ UNCHANGED <<up, ran, run, vm, mem, flow, closing, withdraw, faults>>

\* The lease of a dead replica passes; that of a live one passes when its
\* process or its database stalls for longer than the lease.
LeaseExpires(b) ==
    /\ inst[b] = "ready"
    /\ IF up[b] THEN faults < MaxFaults /\ faults' = faults + 1
                ELSE UNCHANGED faults
    /\ inst' = [inst EXCEPT ![b] = "expired"]
    /\ UNCHANGED <<up, row, op, ran, run, vm, mem, flow, closing, withdraw>>

----------------------------------------------------------------------------
(* Admission: at most MaxAdmitted VMs per replica, waiters in arrival order *)

\* #releaseAdmission: the slot passes to the first waiter.
ReleaseAdmission(m, h) ==
    IF h \notin m.admitted THEN m
    ELSE IF m.waiters = <<>> THEN [m EXCEPT !.admitted = @ \ {h}]
    ELSE [m EXCEPT !.admitted = (@ \ {h}) \cup {Head(m.waiters)}, !.waiters = Tail(@)]

\* #cancelAdmissionWaiter: the entry of h leaves the queue (h has one at most).
CancelAdmissionWaiter(m, h) ==
    LET waits == {i \in 1..Len(m.waiters) : m.waiters[i] = h}
        i == CHOOSE i \in waits : TRUE
    IN  IF waits = {} THEN m
        ELSE [m EXCEPT !.waiters = SubSeq(@, 1, i - 1) \o SubSeq(@, i + 1, Len(@))]

Revoke(m, h) == CancelAdmissionWaiter([m EXCEPT !.act[h] = NoAct], h)

Warm(b) == {w \in Workspaces : mem[b].warm[w] # NoWarm}
Evictable(b) == {w \in Warm(b) : mem[b].warm[w].keep = "ephemeral"}

----------------------------------------------------------------------------
(* Cube and the provider's table of it (cubesandbox-sandbox-provider.ts)   *)

Call(ok) == \/ ok /\ UNCHANGED faults
            \/ ~ok /\ faults < MaxFaults /\ faults' = faults + 1

\* destroy: the VM is read by name, so it works for a VM this replica's
\* provider does not know.  ok = FALSE is a failed call.
Destroyed(v, h, ok) == IF ok THEN [v EXCEPT ![h] = NoVm] ELSE v

\* The same with the error swallowed: nobody will try again.
Discarded(v, h, ok) ==
    IF ok \/ v[h].state = "none" THEN [v EXCEPT ![h] = NoVm]
    ELSE [v EXCEPT ![h].stray = TRUE, ![h].prov = None]

\* #owned: the provider knows the VM, bound to the Run of the handle.
Owned(b, h, r) == vm[h].state # "none" /\ vm[h].prov = b /\ vm[h].run = r

\* destroyActivation: by the provider's table when it has the VM (and then
\* the assignment must match), by Cube's inventory otherwise.
Destroyable(b, h) == vm[h].prov = b => vm[h].run = row[h].run

\* rebind gives a detached (idle) VM a new authority epoch and the next Run.
Rebindable(b, h) == vm[h].prov = b /\ vm[h].state = "idle"
Rebound(v, h, r) == [v EXCEPT ![h].state = "running", ![h].run = r]

----------------------------------------------------------------------------
(* Reservation: who may hold a Workspace                                   *)

\* A shared_serialized Subagent links the two Sessions, either way round.
Delegated(p, r) == \/ <<SessionOf[p], SessionOf[r]>> \in Delegations
                   \/ <<SessionOf[r], SessionOf[p]>> \in Delegations

\* Rows that count against the Domain's (and the tenant's) Sandbox limit.
Counted == {h \in Holders : Live(h) /\ row[h].state # "requested"}

RoomFor(n) == Cardinality(Counted) - n < DomainLimit

LiveOf(kind, w) == {h \in kind \cap At(w) : Live(h)}

\* reserve: a live row of the same owner is taken over when it is warm at the
\* requested revision, or when parent and child hand the Sandbox to each other.
Reusable(e, r, same) ==
    \/ /\ row[e].state = "warm" /\ same
       /\ SessionOf[row[e].run] = SessionOf[r]
    \/ /\ Delegated(row[e].run, r)
       /\ row[e].state \in {"reserved", "materializing", "active", "warm"}
       /\ op[row[e].run].state # "running"

\* The reservation looks only at activations.
ReserveIgnoresOthers(b, a, r, same) ==
    LET existing == LiveOf(Runs, WorkspaceOf[a])
    IN  /\ Current(b)
        /\ IF existing # {}
           THEN \A e \in existing : row[e].owner = b /\ e = a /\ Reusable(e, r, same)
           ELSE row[a].state = "none" /\ RoomFor(0)

Reserve(b, a, r, same) ==
    LET w == WorkspaceOf[a]
        existing == LiveOf(Runs, w)
    IN  /\ Current(b)
        /\ LiveOf(Terminals, w) = {} /\ LiveOf(Envs, w) = {}
        /\ IF existing # {}
           THEN \A e \in existing : row[e].owner = b /\ e = a /\ Reusable(e, r, same)
           ELSE row[a].state = "none" /\ RoomFor(0)

Reserved(b, a, r) == [row EXCEPT ![a] = [state |-> "reserved", owner |-> b, run |-> r]]
Activation(r, handle) == [run |-> r, handle |-> handle, mat |-> FALSE]
ActiveAt(b, w) == {a \in Runs \cap At(w) : mem[b].act[a] # NoAct}

\* create, no Sandbox of this Workspace in memory.
CreateCold(b, r) ==
    /\ up[b] /\ run[r] = "queued"
    /\ ActiveAt(b, WorkspaceOf[r]) = {} /\ mem[b].warm[WorkspaceOf[r]] = NoWarm
    /\ Reserve(b, r, r, FALSE)
    /\ row' = Reserved(b, r, r)
    /\ mem' = [mem EXCEPT ![b].act[r] = Activation(r, FALSE)]
    /\ run' = [run EXCEPT ![r] = "open"]
    /\ UNCHANGED <<inst, up, op, ran, vm, flow, closing, withdraw, faults>>

\* May the warm Sandbox of another Session's Run p pass to r?
Inheritable(p, r) == SessionOf[p] = SessionOf[r] \/ Delegated(p, r)

\* create, taking over the warm Sandbox at the revision it was captured at.
\* The warm entry is gone even when the reservation is then refused.
CreateWarm(b, r) ==
    LET w == WorkspaceOf[r]
        e == mem[b].warm[w]
    IN  /\ up[b] /\ run[r] = "queued"
        /\ ActiveAt(b, w) = {} /\ e # NoWarm /\ Inheritable(e.run, r)
        /\ IF Reserve(b, e.id, r, TRUE)
           THEN /\ row' = Reserved(b, e.id, r)
                /\ mem' = [mem EXCEPT ![b].warm[w] = NoWarm,
                                      ![b].act[e.id] = Activation(r, TRUE)]
                /\ run' = [run EXCEPT ![r] = "open"]
           ELSE mem' = [mem EXCEPT ![b].warm[w] = NoWarm] /\ UNCHANGED <<row, run>>
        /\ UNCHANGED <<inst, up, op, ran, vm, flow, closing, withdraw, faults>>

\* create by a delegated child while its parent's Sandbox is idle between
\* Tool calls: the parent is checkpointed and set aside.
CreateDelegated(b, r) ==
    \E a \in ActiveAt(b, WorkspaceOf[r]) :
        LET p == mem[b].act[a].run
            sealed == mem[b].act[a].handle /\ mem[b].act[a].mat
        IN  /\ up[b] /\ run[r] = "queued"
            /\ Delegated(p, r) /\ flow[p] = NoFlow
            /\ sealed => Owned(b, a, p)
            /\ vm' = IF sealed THEN [vm EXCEPT ![a].state = "idle"] ELSE vm
            /\ IF Reserve(b, a, r, FALSE)
               THEN /\ row' = Reserved(b, a, r)
                    /\ mem' = [mem EXCEPT ![b].susp[WorkspaceOf[r]] =
                                              [id |-> a, run |-> p, keep |-> "suspended"],
                                          ![b].act[a] = Activation(r, mem[b].act[a].handle)]
                    /\ run' = [run EXCEPT ![r] = "open"]
               ELSE mem' = [mem EXCEPT ![b].act[a].mat = FALSE] /\ UNCHANGED <<row, run>>
            /\ UNCHANGED <<inst, up, op, ran, flow, closing, withdraw, faults>>

\* #discardWarm: out of memory first, then the VM, the slot and the row.
DiscardWarm(b, w, ok, otherwise) ==
    LET e == mem[b].warm[w]
        m == [mem[b] EXCEPT !.warm[w] = NoWarm]
    IN  /\ e # NoWarm /\ Call(ok)
        /\ vm' = Destroyed(vm, e.id, ok)
        /\ mem' = [mem EXCEPT ![b] = IF ok THEN ReleaseAdmission(m, e.id) ELSE m]
        /\ row' = IF ok THEN SetState(b, e.id, "released") ELSE otherwise
        /\ UNCHANGED <<inst, up, ran, run, closing, withdraw>>

\* create finds a warm Sandbox it may not inherit and discards it before it
\* reserves a new one.  One kept for another conversation is refused instead.
CreateDiscards(b, r) ==
    LET w == WorkspaceOf[r]
        e == mem[b].warm[w]
    IN  /\ up[b] /\ run[r] = "queued" /\ ActiveAt(b, w) = {}
        /\ e # NoWarm
        /\ e.keep = "persistent" => Inheritable(e.run, r)
        /\ \E ok \in BOOLEAN : DiscardWarm(b, w, ok, row)
        /\ UNCHANGED <<flow, op>>

\* reapWarm: the idle time of an ephemeral Sandbox has passed.
ReapWarm(b, w) ==
    /\ up[b] /\ w \in Evictable(b)
    /\ \E ok \in BOOLEAN : DiscardWarm(b, w, ok, row)
    /\ UNCHANGED <<flow, op>>

\* reapRetiredWarm: the user archived the Session that kept it.
ReapRetiredWarm(b, w) ==
    /\ Current(b) /\ w \in Warm(b)
    /\ row[mem[b].warm[w].id].owner = b /\ row[mem[b].warm[w].id].state = "warm"
    /\ \E ok \in BOOLEAN : DiscardWarm(b, w, ok, row)
    /\ UNCHANGED <<flow, op>>

----------------------------------------------------------------------------
(* Tool operations and the VM they need (execute, #materialize)            *)

\* beginOperation and #materialize up to the admission.  The operation's row
\* is inserted once; a second delivery of the same operation gets "unknown".
BeginOperation(b, a, r) ==
    /\ Current(b) /\ row[a].owner = b
    /\ row[a].state \in {"reserved", "materializing", "active"}
    /\ op[r].state = "none"

EnterMaterialize(b, a, r, kind) ==
    LET ready == mem[b].act[a].mat /\ mem[b].act[a].handle
    IN  /\ flow' = [flow EXCEPT ![r] = [phase |-> IF ready THEN "exec" ELSE "admit",
                                        by |-> b, kind |-> kind, id |-> a]]
        /\ row' = IF ready THEN row ELSE SetState(b, a, "materializing")

Execute(b, r) ==
    \E a \in Runs :
        /\ up[b] /\ mem[b].act[a].run = r /\ flow[r] = NoFlow
        /\ BeginOperation(b, a, r)
        /\ op' = [op EXCEPT ![r] = [state |-> "running", by |-> b]]
        /\ EnterMaterialize(b, a, r, "exec")
        /\ UNCHANGED <<inst, up, ran, run, vm, mem, closing, withdraw, faults>>

\* forkWorkspace takes an activation nobody is using.
BeginFork(b, r) ==
    \E a \in Runs :
        /\ r \in Forks /\ up[b] /\ mem[b].act[a].run = r /\ flow[r] = NoFlow
        /\ mem[b].act[a].mat \/ CanSet(b, a)
        /\ EnterMaterialize(b, a, r, "fork")
        /\ UNCHANGED <<inst, up, op, ran, run, vm, mem, closing, withdraw, faults>>

\* #acquireAdmission: a slot, the slot of an ephemeral warm Sandbox, or the queue.
AcquireAdmission(b, x) ==
    LET h == flow[x].id
        m == mem[b]
    IN  /\ flow[x].phase = "admit" /\ flow[x].by = b
        /\ IF h \in m.admitted \/ Cardinality(m.admitted) < MaxAdmitted
           THEN /\ mem' = [mem EXCEPT ![b].admitted = @ \cup {h}]
                /\ flow' = [flow EXCEPT ![x].phase = "provide"]
           ELSE /\ Evictable(b) = {}
                /\ mem' = [mem EXCEPT ![b].waiters = Append(@, h)]
                /\ flow' = [flow EXCEPT ![x].phase = "wait"]
        /\ UNCHANGED <<inst, up, row, op, ran, run, vm, closing, withdraw, faults>>

\* What the row of a terminal or an environment becomes when its start fails.
GivenUp(x) == IF x \in Envs THEN "failed" ELSE "unknown"

\* The call fails before it holds a slot; an operation settles as cancelled.
RefuseAdmission(b, x) ==
    /\ flow' = [flow EXCEPT ![x] = NoFlow]
    /\ op' = IF x \in Runs /\ flow[x].kind = "exec"
             THEN SettleOperation(b, x, "cancelled") ELSE op

EvictForAdmission(b, x) ==
    /\ flow[x].phase = "admit" /\ flow[x].by = b /\ flow[x].id \notin mem[b].admitted
    /\ Cardinality(mem[b].admitted) >= MaxAdmitted
    /\ \E w \in Evictable(b), ok \in BOOLEAN :
          /\ DiscardWarm(b, w, ok, IF x \in Runs THEN row ELSE SetState(b, x, GivenUp(x)))
          /\ IF ok THEN UNCHANGED <<flow, op>> ELSE RefuseAdmission(b, x)

\* The slot came, or the waiter was rejected.
WaitEnds(b, x) ==
    LET h == flow[x].id
    IN  /\ flow[x].phase = "wait" /\ flow[x].by = b
        /\ \/ /\ h \in mem[b].admitted
              /\ flow' = [flow EXCEPT ![x].phase = "provide"] /\ UNCHANGED op
           \/ /\ h \notin mem[b].admitted
              /\ ~\E i \in 1..Len(mem[b].waiters) : mem[b].waiters[i] = h
              /\ RefuseAdmission(b, x)
        /\ UNCHANGED <<inst, up, row, ran, run, vm, mem, closing, withdraw, faults>>

\* The caller goes away while its operation waits for a slot.
AbortWait(b, r) ==
    /\ flow[r].phase = "wait" /\ flow[r].by = b /\ flow[r].kind = "exec"
    /\ flow[r].id \notin mem[b].admitted
    /\ mem' = [mem EXCEPT ![b] = CancelAdmissionWaiter(@, flow[r].id)]
    /\ RefuseAdmission(b, r)
    /\ UNCHANGED <<inst, up, row, ran, run, vm, closing, withdraw, faults>>

\* The catch of #materialize; m and v are memory and VMs after the failure.
FailMaterialize(b, r, m, v, why) ==
    LET a == flow[r].id
    IN  /\ mem' = [mem EXCEPT ![b] = m]
        /\ vm' = v
        /\ row' = SetState(b, a, "unknown")
        /\ op' = IF flow[r].kind = "exec" THEN SettleOperation(b, r, why) ELSE op
        /\ flow' = [flow EXCEPT ![r] = NoFlow]

\* Is the activation this call started from still the one in #activations?
StillMine(b, r) == mem[b].act[flow[r].id].run = r

\* Admitted: the Sandbox that came with the activation is rebound, else a new
\* VM is asked for.  A failed rebind destroys the VM and is retried cold; a VM
\* that cannot be rebound is stopped and the call fails.
Provide(b, r) ==
    LET a == flow[r].id
        m == mem[b]
        bare == [m EXCEPT !.act[a].handle = FALSE]
        kept == <<inst, up, ran, run, closing, withdraw>>
    IN  /\ flow[r].phase = "provide" /\ flow[r].by = b
        /\ \/ /\ ~StillMine(b, r)
              /\ FailMaterialize(b, r, ReleaseAdmission(m, a), vm, "cancelled")
              /\ UNCHANGED faults
           \/ /\ StillMine(b, r) /\ ~m.act[a].handle
              /\ flow' = [flow EXCEPT ![r].phase = "creating"]
              /\ UNCHANGED <<row, op, mem, vm, faults>>
           \/ /\ StillMine(b, r) /\ m.act[a].handle /\ Rebindable(b, a)
              /\ \E ok \in BOOLEAN :
                    /\ Call(ok)
                    /\ vm' = IF ok THEN Rebound(vm, a, r) ELSE [vm EXCEPT ![a] = NoVm]
                    /\ mem' = IF ok THEN mem ELSE [mem EXCEPT ![b] = bare]
                    /\ flow' = [flow EXCEPT ![r].phase = IF ok THEN "created" ELSE "creating"]
              /\ UNCHANGED <<row, op>>
           \/ /\ StillMine(b, r) /\ m.act[a].handle /\ ~Rebindable(b, a)
              /\ \E ok \in BOOLEAN :
                    /\ Call(ok)
                    /\ FailMaterialize(b, r, IF ok THEN ReleaseAdmission(bare, a) ELSE m,
                                       Destroyed(vm, a, ok), "failed")
        /\ UNCHANGED kept

\* A VM that comes up after its row was claimed away has no reservation.
NewVm(b, h, r) == [state |-> "running", run |-> r, prov |-> b,
                   stray |-> ~(row[h].owner = b /\ Live(h))]

\* provider.create returns.
CreateReturns(b, x) ==
    LET h == flow[x].id
    IN  /\ flow[x].phase = "creating" /\ flow[x].by = b /\ vm[h].state = "none"
        /\ vm' = [vm EXCEPT ![h] = NewVm(b, h, IF x \in Runs THEN x ELSE None)]
        /\ flow' = [flow EXCEPT ![x].phase = "created"]
        /\ UNCHANGED <<inst, up, row, op, ran, run, mem, closing, withdraw, faults>>

\* provider.create fails and removes what it had started, or it still has a
\* VM of that name.
CreateFails(b, r) ==
    /\ r \in Runs /\ flow[r].phase = "creating" /\ flow[r].by = b
    /\ IF vm[flow[r].id].prov = b THEN UNCHANGED faults ELSE Call(FALSE)
    /\ FailMaterialize(b, r, ReleaseAdmission(mem[b], flow[r].id), vm, "failed")
    /\ UNCHANGED <<inst, up, ran, run, closing, withdraw>>

\* The VM is recorded as active, unless the activation was revoked or the
\* caller gave up meanwhile: then it is destroyed at once.
RecordActive(b, r) ==
    LET a == flow[r].id
        held == [mem[b] EXCEPT !.act[a].handle = TRUE, !.act[a].mat = TRUE]
    IN  /\ r \in Runs /\ flow[r].phase = "created" /\ flow[r].by = b
        /\ \/ \E ok \in BOOLEAN :
                 /\ ~StillMine(b, r) \/ flow[r].kind = "exec"
                 /\ Call(ok)
                 /\ FailMaterialize(b, r, ReleaseAdmission(mem[b], a),
                                    Discarded(vm, a, ok), "cancelled")
           \/ /\ StillMine(b, r) /\ CanSet(b, a)
              /\ mem' = [mem EXCEPT ![b] = held]
              /\ row' = SetState(b, a, "active")
              /\ flow' = [flow EXCEPT ![r].phase = "exec"]
              /\ UNCHANGED <<op, vm, faults>>
           \/ /\ StillMine(b, r) /\ ~CanSet(b, a)
              /\ FailMaterialize(b, r, ReleaseAdmission(held, a), vm, "failed")
              /\ UNCHANGED faults
        /\ UNCHANGED <<inst, up, ran, run, closing, withdraw>>

\* provider.exec: the handle must be the provider's current one.  A sealed VM
\* refuses the operation, and a failed attachment destroys the VM.
Exec(b, r) ==
    LET a == flow[r].id
        runs == Owned(b, a, r) /\ vm[a].state = "running"
    IN  /\ flow[r].phase = "exec" /\ flow[r].by = b /\ flow[r].kind = "exec"
        /\ \E ok \in BOOLEAN :
              /\ ok \/ runs
              /\ Call(ok)
              /\ ran' = IF runs THEN [ran EXCEPT ![r] = @ + 1] ELSE ran
              /\ vm' = IF (runs /\ ok) \/ ~Owned(b, a, r) THEN vm ELSE [vm EXCEPT ![a] = NoVm]
              /\ op' = SettleOperation(b, r, IF runs /\ ok THEN "succeeded" ELSE "failed")
        /\ flow' = [flow EXCEPT ![r] = NoFlow]
        /\ UNCHANGED <<inst, up, row, run, mem, closing, withdraw>>

\* capture: checkpoint and detach.  A failure it cannot undo destroys the VM.
Capture(b, r) ==
    \E a \in Runs :
        /\ up[b] /\ mem[b].act[a].run = r /\ mem[b].act[a].mat
        /\ Owned(b, a, r) /\ vm[a].state = "running"
        /\ \E ok \in BOOLEAN :
              /\ Call(ok)
              /\ vm' = IF ok THEN [vm EXCEPT ![a].state = "idle"] ELSE [vm EXCEPT ![a] = NoVm]
        /\ UNCHANGED <<inst, up, row, op, ran, run, mem, flow, closing, withdraw>>

\* forkWorkspace with the VM at hand: checkpoint, copy of the Volume, rebind.
ForkWorkspace(b, r) ==
    LET a == flow[r].id
    IN  /\ flow[r].phase = "exec" /\ flow[r].by = b /\ flow[r].kind = "fork"
        /\ \E ok \in BOOLEAN :
              /\ Call(ok)
              /\ vm' = IF ~Owned(b, a, r) THEN vm
                       ELSE IF ok THEN Rebound(vm, a, r) ELSE [vm EXCEPT ![a] = NoVm]
        /\ flow' = [flow EXCEPT ![r] = NoFlow]
        /\ UNCHANGED <<inst, up, row, op, ran, run, mem, closing, withdraw>>

----------------------------------------------------------------------------
(* Giving the Sandbox up                                                   *)

Materializing(r) == flow[r].phase \in {"admit", "wait", "provide", "creating", "created"}

\* release and stop revoke the capability at once and then wait for a
\* provisioning in flight, which fails: its handle, inherited or not, is then
\* no longer at hand.
Release(b, r, how) ==
    \E a \in Runs :
        /\ up[b] /\ mem[b].act[a].run = r /\ closing[r] = NoClose
        /\ mem' = [mem EXCEPT ![b] = Revoke(@, a)]
        /\ closing' = [closing EXCEPT ![r] =
                          [how |-> how, by |-> b, id |-> a,
                           handle |-> mem[b].act[a].handle /\ ~Materializing(r)]]
        /\ UNCHANGED <<inst, up, row, op, ran, run, vm, flow, withdraw, faults>>

\* #restoreSuspended: the parent gets the Workspace (and, when it was kept,
\* the VM) back; a refused reservation gives all of it up.
RestoreSuspended(b, w, m, v, handle, ok) ==
    LET s == m.susp[w]
        idle == handle /\ v[s.id].state = "idle" /\ v[s.id].prov = b
        kept == idle /\ ok
        back == Reserve(b, s.id, s.run, FALSE)
    IN  /\ mem' = [mem EXCEPT ![b] =
                      IF back THEN [m EXCEPT !.susp[w] = NoWarm,
                                             !.act[s.id] = [run |-> s.run, handle |-> kept, mat |-> kept]]
                      ELSE ReleaseAdmission([m EXCEPT !.susp[w] = NoWarm], s.id)]
        /\ row' = IF back THEN Reserved(b, s.id, s.run) ELSE row
        /\ vm' = IF kept /\ back THEN Rebound(v, s.id, s.run)
                 ELSE IF idle THEN [v EXCEPT ![s.id] = NoVm] ELSE v

\* The last warm Sandboxes beyond the limit go, the oldest first.
EnforceWarmLimit(b, m, v, w) ==
    LET others == {u \in Workspaces \ {w} : m.warm[u].keep = "ephemeral"}
    IN  IF Cardinality(others) < MaxWarm THEN {[m |-> m, v |-> v, out |-> {}]}
        ELSE {[m |-> ReleaseAdmission([m EXCEPT !.warm[u] = NoWarm], m.warm[u].id),
               v |-> [v EXCEPT ![m.warm[u].id] = NoVm], out |-> {m.warm[u].id}] : u \in others}

FinishRelease(b, r) ==
    LET c == closing[r]
        w == WorkspaceOf[r]
        retained == c.how # "destroy" /\ c.handle /\ Owned(b, c.id, r) /\ vm[c.id].state = "idle"
        dropped == c.how # "destroy" /\ c.handle /\ ~retained
        freed == IF dropped THEN ReleaseAdmission(mem[b], c.id) ELSE mem[b]
        gone(ok) == IF retained \/ ~c.handle THEN vm ELSE Discarded(vm, c.id, ok)
    IN  /\ c.by = b /\ ~Materializing(r)
        /\ \E ok \in BOOLEAN :
              /\ ok \/ (c.handle /\ (retained => freed.susp[w] # NoWarm))
              /\ Call(ok)
              /\ \/ /\ freed.susp[w] # NoWarm
                    /\ RestoreSuspended(b, w, freed, gone(ok), c.handle, ok)
                 \/ /\ freed.susp[w] = NoWarm /\ retained /\ ok
                    /\ \E e \in EnforceWarmLimit(b,
                            [freed EXCEPT !.warm[w] = [id |-> c.id, run |-> r, keep |-> c.how]],
                            vm, w) :
                          /\ mem' = [mem EXCEPT ![b] = e.m]
                          /\ vm' = e.v
                          /\ row' = [h \in Holders |->
                                        IF h = c.id THEN SetState(b, h, "warm")[h]
                                        ELSE IF h \in e.out THEN SetState(b, h, "released")[h]
                                        ELSE row[h]]
                 \/ /\ freed.susp[w] = NoWarm /\ ~retained
                    /\ IF c.how = "destroy" /\ c.handle /\ ~ok
                       THEN UNCHANGED <<mem, row, vm>>
                       ELSE /\ mem' = [mem EXCEPT ![b] = ReleaseAdmission(freed, c.id)]
                            /\ row' = SetState(b, c.id, "released")
                            /\ vm' = IF ~c.handle /\ CanSet(b, c.id) THEN Discarded(vm, c.id, FALSE)
                                     ELSE gone(ok)
        /\ closing' = [closing EXCEPT ![r] = NoClose]
        /\ UNCHANGED <<inst, up, op, ran, run, flow, withdraw>>

\* stop for an activation this replica does not know: its VM, not its row.
StopUnknown(b, r) ==
    \E a \in Runs :
        /\ up[b] /\ run[r] # "queued" /\ row[a].run = r
        /\ mem[b].act[a] = NoAct /\ vm[a].state # "none"
        /\ vm[a].prov = b => vm[a].run = r
        /\ vm' = [vm EXCEPT ![a] = NoVm]
        /\ mem' = [mem EXCEPT ![b] = ReleaseAdmission(@, a)]
        /\ UNCHANGED <<inst, up, row, op, ran, run, flow, closing, withdraw, faults>>

\* The assignment reconciler has the runtime of a Run terminated and its
\* absence confirmed.  Every terminal of the replica becomes unknown.
TerminateAndConfirmAbsent(b, r) ==
    \E a \in Runs :
        LET w == WorkspaceOf[a]
            mine == mem[b].act[a].handle
            m1 == IF mine THEN Revoke(mem[b], a) ELSE mem[b]
            m2 == IF m1.warm[w].id = a THEN [m1 EXCEPT !.warm[w] = NoWarm] ELSE m1
        IN  /\ Current(b) /\ vm[a].state # "none" /\ vm[a].run = r
            /\ run[r] = "ended"
            /\ \E ok \in BOOLEAN :
                  /\ Call(ok)
                  /\ vm' = Destroyed(vm, a, ok)
                  /\ mem' = [mem EXCEPT ![b] = IF ok THEN ReleaseAdmission(m2, a) ELSE m2]
                  /\ row' = IF ~ok THEN row ELSE
                       [h \in Holders |->
                          IF h = a /\ row[a].run = r /\ Live(a) /\ row[a].state # "unknown"
                          THEN [row[h] EXCEPT !.state = "released"]
                          ELSE IF h \in Terminals /\ row[h].owner = b /\ Live(h)
                          THEN [row[h] EXCEPT !.state = "unknown"] ELSE row[h]]
            /\ UNCHANGED <<inst, up, op, ran, run, flow, closing, withdraw>>

----------------------------------------------------------------------------
(* Reapers: claim in one transaction, clean up, record the outcome         *)

\* claimOrphanedActivations, -Terminals and -DevelopmentEnvironments.
ClaimOrphaned(b, h) ==
    /\ Current(b) /\ row[h].state = "unknown"
    /\ row' = [row EXCEPT ![h].state = IF h \in Envs THEN "releasing" ELSE "cleaning",
                          ![h].owner = b]
    /\ mem' = [mem EXCEPT ![b].reaping = @ \cup {h},
                          ![b].open = IF h \in Envs THEN @ \ {h} ELSE @,
                          ![b].ptys = @ \ {h}]
    /\ UNCHANGED <<inst, up, op, ran, run, vm, flow, closing, withdraw, faults>>

\* claimTerminalRunActivations: whoever owns it, the Sandbox of a Run that
\* has ended is taken, its operation failed, and its slot given back.
ClaimTerminalRun(b, a) ==
    LET r == row[a].run
        m == IF mem[b].act[a] = NoAct THEN mem[b] ELSE Revoke(mem[b], a)
    IN  /\ Current(b) /\ row[a].state \in {"reserved", "materializing", "active"}
        /\ run[r] = "ended"
        /\ row' = [row EXCEPT ![a].state = "cleaning", ![a].owner = b]
        /\ op' = IF op[r].state = "running" THEN [op EXCEPT ![r].state = "failed"] ELSE op
        /\ mem' = [mem EXCEPT ![b] = [ReleaseAdmission(m, a) EXCEPT !.reaping = @ \cup {a}]]
        /\ UNCHANGED <<inst, up, ran, run, vm, flow, closing, withdraw, faults>>

\* The row is released whatever became of the VM.
CleanUpAnyway(b, h) ==
    /\ h \in mem[b].reaping
    /\ \E ok \in BOOLEAN : Call(ok) /\ vm' = Destroyed(vm, h, ok)
    /\ mem' = [mem EXCEPT ![b].reaping = @ \ {h}]
    /\ row' = SetState(b, h, "released")
    /\ UNCHANGED <<inst, up, op, ran, run, flow, closing, withdraw>>

CleanUp(b, h) ==
    /\ h \in mem[b].reaping
    /\ \E ok \in BOOLEAN :
          LET done == ok /\ Destroyable(b, h)
              m == [mem[b] EXCEPT !.reaping = @ \ {h}]
          IN  /\ Call(ok)
              /\ vm' = Destroyed(vm, h, done)
              /\ mem' = [mem EXCEPT ![b] = IF done /\ h \in Envs THEN ReleaseAdmission(m, h) ELSE m]
              /\ row' = SetState(b, h, IF ~done THEN "unknown"
                                       ELSE IF h \in Envs THEN "failed" ELSE "released")
    /\ UNCHANGED <<inst, up, op, ran, run, flow, closing, withdraw>>

----------------------------------------------------------------------------
(* Web Terminals                                                           *)

Starting(b, x, phase, kind, id) ==
    [flow EXCEPT ![x] = [phase |-> phase, by |-> b, kind |-> kind, id |-> id]]

\* reserveTerminal: nobody else holds the Workspace, except a warm Sandbox of
\* this replica, which is retired in the same transaction.
OpenTerminal(b, t) ==
    LET w == WorkspaceOf[t]
        acts == LiveOf(Runs, w)
    IN  /\ Current(b) /\ row[t].state = "none"
        /\ LiveOf(Envs, w) = {} /\ LiveOf(Terminals, w) = {}
        /\ \A a \in acts : row[a].state = "warm" /\ row[a].owner = b
        /\ RoomFor(Cardinality(acts))
        /\ row' = [h \in Holders |->
                      IF h = t THEN [state |-> "reserved", owner |-> b, run |-> None]
                      ELSE IF h \in acts THEN [row[h] EXCEPT !.state = "cleaning"] ELSE row[h]]
        /\ flow' = IF acts = {} THEN Starting(b, t, "admit", "terminal", t)
                   ELSE Starting(b, t, "retire", "terminal", CHOOSE a \in acts : TRUE)
        /\ UNCHANGED <<inst, up, op, ran, run, vm, mem, closing, withdraw, faults>>

\* The retired Sandbox goes before the terminal's VM is created: out of the
\* warm ones with its slot, or, when a failed discard already took it out of
\* memory, by its row.  If it cannot be stopped the terminal becomes unknown.
RetireWarm(b, t) ==
    LET a == flow[t].id
        w == WorkspaceOf[t]
        kept == mem[b].warm[w].id = a
        m == IF kept THEN [mem[b] EXCEPT !.warm[w] = NoWarm] ELSE mem[b]
    IN  /\ flow[t].phase = "retire" /\ flow[t].by = b
        /\ \E ok \in BOOLEAN :
              LET stopped == ok /\ (kept \/ Destroyable(b, a))
                  retired == stopped /\ CanSet(b, a)
              IN  /\ Call(ok)
                  /\ vm' = Destroyed(vm, a, stopped)
                  /\ mem' = [mem EXCEPT ![b] = IF stopped /\ kept THEN ReleaseAdmission(m, a) ELSE m]
                  /\ row' = IF retired THEN SetState(b, a, "released") ELSE SetState(b, t, "unknown")
                  /\ flow' = IF retired THEN Starting(b, t, "admit", "terminal", t)
                             ELSE [flow EXCEPT ![t] = NoFlow]
        /\ UNCHANGED <<inst, up, op, ran, run, closing, withdraw>>

\* A terminal or an environment holds its slot and calls provider.create.
ProvideHolder(b, x) ==
    /\ x \in Terminals \cup Envs /\ flow[x].phase = "provide" /\ flow[x].by = b
    /\ flow' = [flow EXCEPT ![x].phase = "creating"]
    /\ UNCHANGED <<inst, up, row, op, ran, run, vm, mem, closing, withdraw, faults>>

\* The catch of openTerminal and of provisionDevelopmentEnvironment.
FailHolder(b, x, v) ==
    /\ vm' = v
    /\ mem' = [mem EXCEPT ![b] = ReleaseAdmission(@, x)]
    /\ row' = SetState(b, x, GivenUp(x))
    /\ flow' = [flow EXCEPT ![x] = NoFlow]

CreateHolderFails(b, x) ==
    /\ x \in Terminals \cup Envs /\ flow[x].phase = "creating" /\ flow[x].by = b
    /\ Call(FALSE) /\ FailHolder(b, x, vm)
    /\ UNCHANGED <<inst, up, op, ran, run, closing, withdraw>>

RecordHolder(b, x) ==
    /\ x \in Terminals \cup Envs /\ flow[x].phase = "created" /\ flow[x].by = b
    /\ \/ /\ CanSet(b, x)
          /\ row' = SetState(b, x, IF x \in Envs THEN "running" ELSE "active")
          /\ mem' = [mem EXCEPT ![b].open = @ \cup {x}]
          /\ flow' = [flow EXCEPT ![x] = NoFlow]
          /\ UNCHANGED <<vm, faults>>
       \/ \E ok \in BOOLEAN :
             /\ ~CanSet(b, x) \/ x \in Terminals
             /\ Call(ok) /\ FailHolder(b, x, Discarded(vm, x, ok))
    /\ UNCHANGED <<inst, up, op, ran, run, closing, withdraw>>

\* #closeTerminal: the browser left.  A VM that cannot be destroyed keeps its
\* slot, and the row tells the reaper.
CloseTerminal(b, t) ==
    /\ up[b] /\ t \in mem[b].open
    /\ \E ok \in BOOLEAN :
          LET m == [mem[b] EXCEPT !.open = @ \ {t}]
          IN  /\ Call(ok)
              /\ vm' = Destroyed(vm, t, ok)
              /\ mem' = [mem EXCEPT ![b] = IF ok THEN ReleaseAdmission(m, t) ELSE m]
              /\ row' = SetState(b, t, IF ok THEN "released" ELSE "unknown")
    /\ UNCHANGED <<inst, up, op, ran, run, flow, closing, withdraw>>

----------------------------------------------------------------------------
(* Development environments                                                *)

\* The Control Plane's create and its start of a failed environment: no Run
\* is active in the Workspace and no other environment is live there.
RequestEnvironment(e) ==
    /\ row[e].state \in {"none", "failed"}
    /\ \A r \in Runs \cap At(WorkspaceOf[e]) : run[r] # "open"
    /\ LiveOf(Envs, WorkspaceOf[e]) = {}
    /\ row' = [row EXCEPT ![e].state = "requested", ![e].owner = None]
    /\ UNCHANGED <<inst, up, op, ran, run, vm, mem, flow, closing, withdraw, faults>>

\* The Control Plane's release of an environment it read as not started ...
WithdrawEnvironment(e) ==
    /\ row[e].state \in {"requested", "failed"} /\ e \notin withdraw
    /\ withdraw' = withdraw \cup {e}
    /\ UNCHANGED <<inst, up, row, op, ran, run, vm, mem, flow, closing, faults>>

\* ... writes "released" without looking at the state again.
WithdrawCommits(e) ==
    /\ e \in withdraw
    /\ withdraw' = withdraw \ {e}
    /\ row' = [row EXCEPT ![e].state = "released", ![e].owner = None]
    /\ vm' = IF vm[e].state = "none" THEN vm ELSE [vm EXCEPT ![e].stray = TRUE]
    /\ UNCHANGED <<inst, up, op, ran, run, mem, flow, closing, faults>>

\* reserveDevelopmentEnvironment.  That no other environment is live in the
\* Workspace is left to the unique index of the table.
ProvisionEnvironment(b, e) ==
    LET w == WorkspaceOf[e]
    IN  /\ Current(b) /\ e \notin mem[b].open /\ flow[e] = NoFlow
        /\ row[e].state \in {"requested", "failed"}
        /\ LiveOf(Runs, w) = {} /\ LiveOf(Terminals, w) = {}
        /\ LiveOf(Envs, w) \subseteq {e}
        /\ RoomFor(0)
        /\ row' = [row EXCEPT ![e].state = "provisioning", ![e].owner = b]
        /\ flow' = Starting(b, e, "admit", "environment", e)
        /\ UNCHANGED <<inst, up, op, ran, run, vm, mem, closing, withdraw, faults>>

\* developmentEnvironmentOwner, and the environment is in this replica's memory.
OwnsEnvironment(b, e) ==
    /\ Current(b) /\ e \in mem[b].open /\ row[e].owner = b
    /\ row[e].state \notin {"requested", "released", "failed"}

PauseEnvironment(b, e) ==
    /\ OwnsEnvironment(b, e) /\ row[e].state = "running" /\ e \notin mem[b].ptys
    /\ \E ok \in BOOLEAN :
          /\ ok => vm[e].state = "running" /\ vm[e].prov = b
          /\ Call(ok)
          /\ vm' = IF ok THEN [vm EXCEPT ![e].state = "paused"] ELSE vm
          /\ row' = SetState(b, e, IF ok THEN "paused" ELSE "unknown")
    /\ UNCHANGED <<inst, up, op, ran, run, mem, flow, closing, withdraw>>

ResumeEnvironment(b, e) ==
    /\ OwnsEnvironment(b, e) /\ row[e].state = "paused"
    /\ \E ok \in BOOLEAN :
          /\ ok => vm[e].state = "paused" /\ vm[e].prov = b
          /\ Call(ok)
          /\ vm' = IF ok THEN [vm EXCEPT ![e].state = "running"] ELSE vm
          /\ row' = SetState(b, e, IF ok THEN "running" ELSE "unknown")
    /\ UNCHANGED <<inst, up, op, ran, run, mem, flow, closing, withdraw>>

ReleaseEnvironment(b, e) ==
    /\ OwnsEnvironment(b, e)
    /\ \E ok \in BOOLEAN :
          LET m == [mem[b] EXCEPT !.open = @ \ {e}, !.ptys = @ \ {e}]
          IN  /\ Call(ok)
              /\ vm' = Destroyed(vm, e, ok)
              /\ mem' = IF ok THEN [mem EXCEPT ![b] = ReleaseAdmission(m, e)] ELSE mem
              /\ row' = SetState(b, e, IF ok THEN "released" ELSE "unknown")
    /\ UNCHANGED <<inst, up, op, ran, run, flow, closing, withdraw>>

\* openDevelopmentEnvironmentTerminal and the close of its connection.
AttachPty(b, e) ==
    /\ \/ /\ OwnsEnvironment(b, e) /\ row[e].state = "running"
          /\ e \notin mem[b].ptys /\ vm[e].state = "running" /\ vm[e].prov = b
          /\ mem' = [mem EXCEPT ![b].ptys = @ \cup {e}]
       \/ /\ e \in mem[b].ptys
          /\ mem' = [mem EXCEPT ![b].ptys = @ \ {e}]
    /\ UNCHANGED <<inst, up, row, op, ran, run, vm, flow, closing, withdraw, faults>>

----------------------------------------------------------------------------
(* The end of a replica, and of a Run                                      *)

\* VMs whose creation was in flight may come up after the process is gone.
InFlight(b) == {x \in Holders : flow[x].by = b /\ flow[x].phase = "creating"}
Vanish(b, late, v, stray) ==
    [h \in Holders |->
        IF \E x \in late : flow[x].id = h
        THEN [NewVm(b, h, None) EXCEPT !.prov = None, !.stray = @ \/ stray]
        ELSE IF v[h].prov = b THEN [v[h] EXCEPT !.prov = None] ELSE v[h]]
Stopped(b) ==
    /\ up' = [up EXCEPT ![b] = FALSE]
    /\ mem' = [mem EXCEPT ![b] = EmptyMemory]
    /\ flow' = [x \in Holders |-> IF flow[x].by = b THEN NoFlow ELSE flow[x]]
    /\ closing' = [r \in Runs |-> IF closing[r].by = b THEN NoClose ELSE closing[r]]

Crash(b) ==
    /\ up[b] /\ faults < MaxFaults /\ faults' = faults + 1
    /\ \E late \in SUBSET InFlight(b) : vm' = Vanish(b, late, vm, FALSE)
    /\ Stopped(b)
    /\ UNCHANGED <<inst, row, op, ran, run, withdraw>>

\* close: terminals and environments are closed, every VM the provider knows
\* is destroyed (its errors ignored), the activations are released, and what
\* is left of the rows becomes unknown.  Terminal rows are not part of that.
Known(b) == {a \in Runs : mem[b].act[a] # NoAct
                          \/ \E w \in Workspaces : mem[b].warm[w].id = a}
Close(b) ==
    LET swept == {h \in Holders : vm[h].prov = b \/ h \in mem[b].open}
        done(h) == IF ~CanSet(b, h) THEN row[h].state
                   ELSE IF h \in Known(b) THEN "released"
                   ELSE IF h \in mem[b].open THEN IF h \in Envs THEN "failed" ELSE "released"
                   ELSE IF Live(h) /\ h \notin Terminals /\ row[h].state # "requested"
                   THEN "unknown" ELSE row[h].state
    IN  /\ up[b] /\ faults < MaxFaults /\ faults' = faults + 1
        /\ \E late \in SUBSET InFlight(b) :
              vm' = Vanish(b, late, [h \in Holders |-> IF h \in swept THEN NoVm ELSE vm[h]], TRUE)
        /\ row' = [h \in Holders |-> [row[h] EXCEPT !.state = done(h)]]
        /\ op' = OperationsLost({b})
        /\ inst' = [inst EXCEPT ![b] = IF @ = "ready" THEN "stopped" ELSE @]
        /\ Stopped(b)
        /\ UNCHANGED <<ran, run, withdraw>>

\* The Run settles, whether or not its Worker released the Sandbox.
EndRun(r) ==
    /\ run[r] = "open" /\ run' = [run EXCEPT ![r] = "ended"]
    /\ UNCHANGED <<inst, up, row, op, ran, vm, mem, flow, closing, withdraw, faults>>

----------------------------------------------------------------------------
Init ==
    /\ inst \in {[b \in Brokers |-> IF b \in early THEN "ready" ELSE "absent"] :
                    early \in {bs \in SUBSET Brokers : Cardinality(bs) = 1}}
    /\ up = [b \in Brokers |-> inst[b] = "ready"]
    /\ row = [h \in Holders |-> [state |-> "none", owner |-> None, run |-> None]]
    /\ op = [r \in Runs |-> [state |-> "none", by |-> None]]
    /\ ran = [r \in Runs |-> 0]
    /\ run = [r \in Runs |-> "queued"]
    /\ vm = [h \in Holders |-> NoVm]
    /\ mem = [b \in Brokers |-> EmptyMemory]
    /\ flow = [x \in Holders |-> NoFlow]
    /\ closing = [r \in Runs |-> NoClose]
    /\ withdraw = {} /\ faults = 0

\* The steps that concern these Runs, terminals and environments.
StepsOf(rs, ts, es) ==
    \/ \E b \in Brokers :
          \/ Start(b) \/ Renew(b) \/ LeaseExpires(b) \/ Crash(b) \/ Close(b)
          \/ \E w \in Workspaces : ReapWarm(b, w) \/ ReapRetiredWarm(b, w)
          \/ \E h \in rs \cup ts \cup es : ClaimOrphaned(b, h) \/ CleanUp(b, h)
          \/ \E x \in rs \cup ts \cup es : AcquireAdmission(b, x) \/ EvictForAdmission(b, x)
                                \/ WaitEnds(b, x) \/ CreateReturns(b, x)
          \/ \E x \in ts \cup es : ProvideHolder(b, x) \/ CreateHolderFails(b, x)
                                            \/ RecordHolder(b, x)
          \/ \E t \in ts : OpenTerminal(b, t) \/ RetireWarm(b, t) \/ CloseTerminal(b, t)
          \/ \E e \in es : ProvisionEnvironment(b, e) \/ PauseEnvironment(b, e)
                             \/ ResumeEnvironment(b, e) \/ ReleaseEnvironment(b, e)
                             \/ AttachPty(b, e)
          \/ \E r \in rs :
                \/ CreateCold(b, r) \/ CreateWarm(b, r) \/ CreateDelegated(b, r)
                \/ CreateDiscards(b, r) \/ Execute(b, r)
                \/ BeginFork(b, r) \/ AbortWait(b, r) \/ Provide(b, r)
                \/ CreateFails(b, r) \/ RecordActive(b, r) \/ Exec(b, r)
                \/ Capture(b, r) \/ ForkWorkspace(b, r)
                \/ FinishRelease(b, r) \/ StopUnknown(b, r)
                \/ TerminateAndConfirmAbsent(b, r) \/ ClaimTerminalRun(b, r)
                \/ \E how \in Dispositions : Release(b, r, how)
    \/ \E e \in es : RequestEnvironment(e) \/ WithdrawEnvironment(e) \/ WithdrawCommits(e)
    \/ \E r \in rs : EndRun(r)

Next == StepsOf(Runs, Terminals, Envs)

Spec == Init /\ [][Next]_vars

----------------------------------------------------------------------------
(* Properties                                                              *)

BrokerTypeOK ==
    /\ inst \in [Brokers -> {"absent", "ready", "expired", "lost", "stopped"}]
    /\ up \in [Brokers -> BOOLEAN]
    /\ row \in [Holders -> [state : RowState, owner : Brokers \cup {None}, run : Runs \cup {None}]]
    /\ vm \in [Holders -> [state : {"none", "running", "idle", "paused"},
                           run : Runs \cup {None}, prov : Brokers \cup {None}, stray : BOOLEAN]]
    /\ op \in [Runs -> [state : {"none", "running", "succeeded", "failed", "cancelled", "unknown"},
                        by : Brokers \cup {None}]]
    /\ \A b \in Brokers : mem[b].admitted \subseteq Holders
    /\ \A x \in Holders : flow[x].phase \in Phases \cup {"retire"}

Up(h) == vm[h].state # "none"

\* Two VMs never write to one Workspace at the same time.  The exceptions are
\* the VMs the code itself has lost sight of (stray): their creation outlived
\* the reservation, or an error from destroying them was ignored.
OneWriter ==
    \A g, h \in Holders :
        Up(g) /\ Up(h) /\ ~vm[g].stray /\ ~vm[h].stray /\ WorkspaceOf[g] = WorkspaceOf[h] => g = h

Remembers(b, h) ==
    \/ h \in mem[b].open \cup mem[b].reaping
    \/ h \in Runs /\ mem[b].act[h].handle
    \/ \E w \in Workspaces : mem[b].warm[w].id = h
    \/ \E x \in Holders : flow[x].by = b /\ flow[x].id = h
    \/ \E r \in Runs : closing[r].by = b /\ closing[r].id = h

\* Every VM is found again: it has a live row, which the reapers of any
\* replica will come to, or a running replica holds it in memory.
RuntimesAccounted ==
    \A h \in Holders : Up(h) /\ ~vm[h].stray =>
        Live(h) \/ \E b \in Brokers : up[b] /\ Remembers(b, h)

\* The replica's limit is kept, and nobody waits while a slot is free: every
\* path that gives a slot up hands it to the first waiter.
AdmissionSound ==
    \A b \in Brokers :
        /\ Cardinality(mem[b].admitted) <= MaxAdmitted
        /\ mem[b].waiters # <<>> => Cardinality(mem[b].admitted) = MaxAdmitted

\* While a child has the Sandbox its parent has not: no guest runs under the
\* authority of a Run that was set aside.
ParentWaits ==
    \A b \in Brokers, w \in Workspaces :
        LET s == mem[b].susp[w]
        IN  s # NoWarm => ~(vm[s.id].state = "running" /\ vm[s.id].run = s.run)

\* An operation is started in a guest at most once, whatever replica its
\* caller reaches and however often it asks.
ExecutedAtMostOnce == \A r \in Runs : ran[r] <= 1

\* Every VM, slot, handed-over Sandbox and operation has exactly one keeper,
\* through crashes, lapsed leases and shutdowns of the replicas.
RuntimesManaged ==
    BrokerTypeOK /\ RuntimesAccounted /\ AdmissionSound /\ ParentWaits /\ ExecutedAtMostOnce
=============================================================================
