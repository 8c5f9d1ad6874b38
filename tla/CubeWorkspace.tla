--------------------------- MODULE CubeWorkspace ----------------------------
(***************************************************************************)
(* One Workspace behind the Tool Broker: its persistent Volume, the Cube   *)
(* guest that mounts it, the Tool Worker inside the guest, the provider    *)
(* that drives the guest over HTTP, the Runner that drives one Turn after  *)
(* another, and the Workspace seed the Workers import before the first.    *)
(*                                                                         *)
(* SandboxBroker decides which activation owns the Workspace; here one     *)
(* does, and the question is what its requests do to the files.  A Tool    *)
(* call crosses three hops and each of them retries: Pi to Broker, Broker  *)
(* to guest, guest to Tool Worker.  A file is named by what wrote it: the  *)
(* seed, an operation, or a process an operation left running.             *)
(***************************************************************************)
EXTENDS Naturals, FiniteSets

CONSTANTS Ops,               \* operationIds, in the order Pi may issue them
          Workers,           \* Pi Workers that import the seed
          MaxTurns,          \* bound: Turns of the Workspace
          MaxCubeFaults          \* bound: losses, crashes and lapses together

ASSUME CubeAssumption ==
  /\ {MaxTurns, MaxCubeFaults} \subseteq Nat
  /\ Workers # {}

Nobody == "nobody"
Seed == "seed"          \* the files of the seed, all of them
Part == "part"          \* the files of a seed that was not written to the end
Late == "late"          \* what a process left behind by an operation writes
Volumes == {"source", "target"}

VARIABLES
  turn,      \* the Runner: number, Worker, phase, base and captured revision
  call,      \* operation -> what Pi knows of it, and of which Turn it is
  exec,      \* operation -> where Broker and provider are with it
  prov,      \* the provider's CubeActivation
  guestVm,        \* the Cube Tool service in the guest
  wk,        \* the Tool Worker and the bridge's operation ledger
  reqs,      \* operation requests between provider and guest
  vol,       \* Volume -> what lies on its disk
  seed,      \* the workspace_sources row
  imp,       \* Worker -> its import of the seed
  head,      \* the Workspace revision that PostgreSQL holds
  executed,       \* operation -> how often it ran (kept for the properties)
  cubeFaults

workspaceVars == <<turn, call, exec, prov, guestVm, wk, reqs, vol, seed, imp, head, executed, cubeFaults>>

-----------------------------------------------------------------------------
(* State. *)

NoVolume == [dir |-> FALSE, gen |-> 0, state |-> 0, base |-> FALSE, files |-> {},
             from |-> [gen |-> 0, files |-> {}]]
NoRevision == [gen |-> 0, files |-> {}]
Revision(v) == [gen |-> vol[v].gen, files |-> vol[v].files]

NoWorker == [active |-> Nobody, seen |-> {}, ledger |-> [o \in Ops |-> "none"],
             runs |-> [o \in Ops |-> 0]]

(* The globals of cube-tool-service.ts: authority, initialized, sealed,     *)
(* the bridge, the frozen processes and the checkpoint request in progress. *)
NoGuest == [up |-> FALSE, auth |-> <<0, 0>>, ready |-> FALSE, sealed |-> FALSE,
            bridge |-> FALSE, job |-> "none", bg |-> "none", escaped |-> FALSE]

(* turn is the assignment of the handle: 0 until the activation has one.    *)
NoActivation == [st |-> "none", auth |-> <<0, 0>>, attached |-> FALSE,
                 why |-> "settle", turn |-> 0, ref |-> NoRevision]

NoTurn == [n |-> 0, worker |-> Nobody, phase |-> "off", base |-> NoRevision,
           ref |-> NoRevision]

CubeInit ==
  /\ turn = NoTurn
  /\ call = [o \in Ops |-> [st |-> "new", tries |-> 0, turn |-> 0]]
  /\ exec = [o \in Ops |-> "none"]
  /\ prov = NoActivation
  /\ guestVm = NoGuest
  /\ wk = NoWorker
  /\ reqs = {}
  /\ vol = [v \in Volumes |-> NoVolume]
  /\ seed = [status |-> "pending", lease |-> Nobody, expired |-> FALSE, stored |-> FALSE]
  /\ imp = [w \in Workers |-> "idle"]
  /\ head = NoRevision
  /\ executed = [o \in Ops |-> 0]
  /\ cubeFaults = 0

Fault == cubeFaults < MaxCubeFaults /\ cubeFaults' = cubeFaults + 1

(* The operations that still want an answer from the provider.              *)
Pending == {o \in Ops : exec[o] \in {"waiting", "attach1", "attach2"}}
Settled == {"ok", "failed"}

(* The states of the activation in which no capture or fork is under way.   *)
Restful == {"none", "idle", "running", "unmade", "lost"}

(* Requests to a guest that is destroyed fail, the second time as well.     *)
Broken == [o \in Ops |-> IF exec[o] \in {"attach1", "attach2"} THEN "failed" ELSE exec[o]]

(* Whatever happens to the guest, its memory goes with it.                  *)
GuestDestroyed(st) ==
  /\ prov' = [NoActivation EXCEPT !.st = st, !.turn = IF st = "lost" THEN prov.turn ELSE 0]
  /\ guestVm' = NoGuest
  /\ wk' = NoWorker
  /\ reqs' = {}

-----------------------------------------------------------------------------
(* The Workspace seed. *)

turnVars == <<turn, call, exec>>
cubeVars == <<prov, guestVm, wk, reqs, vol, executed>>

Claimable ==
  \/ seed.status \in {"pending", "failed"}
  \/ seed.status = "importing" /\ seed.expired

(* resolve finds the row ready and loads the object, or takes the import   *)
(* over with a lease of its own; otherwise it polls.                        *)
ResolveReady(w) ==
  /\ turn.phase = "seeding" /\ turn.worker = w /\ imp[w] = "idle"
  /\ seed.status = "ready" /\ seed.stored
  /\ turn' = [turn EXCEPT !.phase = "seeded"]
  /\ UNCHANGED <<call, exec, cubeVars, seed, imp, head, cubeFaults>>

ClaimImport(w) ==
  /\ turn.phase = "seeding" /\ turn.worker = w /\ imp[w] = "idle"
  /\ Claimable
  /\ seed' = [seed EXCEPT !.status = "importing", !.lease = w, !.expired = FALSE]
  /\ imp' = [imp EXCEPT ![w] = "importing"]
  /\ UNCHANGED <<turnVars, cubeVars, head, cubeFaults>>

StoreObject(w) ==
  /\ imp[w] = "importing"
  /\ imp' = [imp EXCEPT ![w] = "stored"]
  /\ seed' = [seed EXCEPT !.stored = TRUE]
  /\ UNCHANGED <<turnVars, cubeVars, head, cubeFaults>>

HoldsLease(w) == seed.status = "importing" /\ seed.lease = w

(* What an import that ended badly writes, if the row is still its own.     *)
Unimported(w) ==
  IF HoldsLease(w) THEN [seed EXCEPT !.status = "failed", !.lease = Nobody] ELSE seed

SeedTurn(w, ok) ==
  turn' = IF turn.phase = "seeding" /\ turn.worker = w
          THEN [turn EXCEPT !.phase = IF ok THEN "seeded" ELSE "off"]
          ELSE turn

(* The publishing transaction: the row becomes ready only under the lease; *)
(* without it the import is worth nothing and its Turn fails.               *)
Publish(w) ==
  /\ imp[w] = "stored"
  /\ imp' = [imp EXCEPT ![w] = "idle"]
  /\ seed' = IF HoldsLease(w)
             THEN [seed EXCEPT !.status = "ready", !.lease = Nobody]
             ELSE Unimported(w)
  /\ SeedTurn(w, HoldsLease(w))
  /\ UNCHANGED <<call, exec, cubeVars, head, cubeFaults>>

ImportFails(w) ==
  /\ imp[w] \in {"importing", "stored"} /\ Fault
  /\ imp' = [imp EXCEPT ![w] = "idle"]
  /\ seed' = Unimported(w)
  /\ SeedTurn(w, FALSE)
  /\ UNCHANGED <<call, exec, cubeVars, head>>

ImportLeaseLapses ==
  /\ seed.status = "importing" /\ ~seed.expired /\ Fault
  /\ seed' = [seed EXCEPT !.expired = TRUE]
  /\ UNCHANGED <<turnVars, cubeVars, imp, head>>

(* The Attempt is fenced while its Worker still imports: the next Attempt   *)
(* runs elsewhere, and the old import goes on.                              *)
TakeOver(w) ==
  /\ turn.phase = "seeding" /\ turn.worker # w /\ Fault
  /\ turn' = [turn EXCEPT !.worker = w]
  /\ UNCHANGED <<call, exec, cubeVars, seed, imp, head>>

-----------------------------------------------------------------------------
(* The Runner. *)

StartTurn(w) ==
  /\ turn.phase = "off" /\ turn.n < MaxTurns
  /\ turn' = [n |-> turn.n + 1, worker |-> w, phase |-> "seeding", base |-> head,
              ref |-> NoRevision]
  /\ UNCHANGED <<call, exec, cubeVars, seed, imp, head, cubeFaults>>

(* broker.create reserves; the guest comes with the first Tool call.        *)
ReserveOperation ==
  /\ turn.phase = "seeded"
  /\ turn' = [turn EXCEPT !.phase = "running"]
  /\ UNCHANGED <<call, exec, cubeVars, seed, imp, head, cubeFaults>>

(* Tools run one at a time (executionMode "sequential").                    *)
AskTool(o) ==
  /\ turn.phase = "running" /\ prov.st \in Restful
  /\ call[o].st = "new"
  /\ \A p \in Ops : call[p].st # "asked"
  /\ call' = [call EXCEPT ![o] = [st |-> "asked", tries |-> 1, turn |-> turn.n]]
  /\ UNCHANGED <<turn, exec, cubeVars, seed, imp, head, cubeFaults>>

PiAnswered(o) ==
  /\ call[o].st = "asked" /\ exec[o] \in Settled
  /\ call' = [call EXCEPT ![o].st = exec[o]]
  /\ UNCHANGED <<turn, exec, cubeVars, seed, imp, head, cubeFaults>>

(* The connection to the Broker breaks: one more request with the same      *)
(* operationId, then the Tool call has failed for Pi.  The Broker goes on.  *)
PiTransportFails(o) ==
  /\ call[o].st = "asked" /\ exec[o] # "none" /\ Fault
  /\ call' = [call EXCEPT ![o].tries = 2,
                          ![o].st = IF call[o].tries = 2 THEN "failed" ELSE "asked"]
  /\ UNCHANGED <<turn, exec, cubeVars, seed, imp, head>>

NothingAsked == \A o \in Ops : call[o].st # "asked"

(* onSettled without a guest of this Turn: nothing to capture.              *)
SettleUnused ==
  /\ turn.phase = "running" /\ NothingAsked
  /\ prov.turn # turn.n /\ prov.st \in {"none", "idle", "unmade", "lost"}
  /\ turn' = [turn EXCEPT !.phase = "saved"]
  /\ UNCHANGED <<call, exec, cubeVars, seed, imp, head, cubeFaults>>

(* The guest was lost under a Tool call; the handle is no longer owned.     *)
SettleLost ==
  /\ turn.phase = "running" /\ NothingAsked /\ prov.st = "lost" /\ prov.turn = turn.n
  /\ turn' = [turn EXCEPT !.phase = "failed"]
  /\ UNCHANGED <<call, exec, cubeVars, seed, imp, head, cubeFaults>>

(* checkpointStore.save advances the revision with compare-and-swap.        *)
Save ==
  /\ turn.phase = "captured" /\ head = turn.base
  /\ head' = turn.ref
  /\ turn' = [turn EXCEPT !.phase = "saved"]
  /\ UNCHANGED <<call, exec, cubeVars, seed, imp, cubeFaults>>

SaveFails ==
  /\ turn.phase = "captured" /\ Fault
  /\ turn' = [turn EXCEPT !.phase = "failed"]
  /\ UNCHANGED <<call, exec, cubeVars, seed, imp, head>>

(* The end of a Turn: a saved one may keep its idle guest warm, any other   *)
(* stops it.  Executions nobody waits for end with the guest.               *)
Abandoned == [o \in Ops |-> IF o \in Pending THEN "failed" ELSE exec[o]]

KeepWarm ==
  /\ turn.phase = "saved" /\ prov.st = "idle" /\ head # NoRevision
  /\ turn' = [turn EXCEPT !.phase = "off"]
  /\ UNCHANGED <<call, exec, cubeVars, seed, imp, head, cubeFaults>>

StopGuest ==
  /\ turn.phase \in {"saved", "failed"}
  /\ turn' = [turn EXCEPT !.phase = "off"]
  /\ exec' = Abandoned
  /\ GuestDestroyed("none")
  /\ UNCHANGED <<call, vol, seed, imp, head, executed, cubeFaults>>

(* A cancelled Turn stops the guest at once, whatever runs in it.           *)
Abort ==
  /\ turn.phase = "running" /\ Fault
  /\ turn' = [turn EXCEPT !.phase = "off"]
  /\ call' = [o \in Ops |-> IF call[o].st = "asked" THEN [call[o] EXCEPT !.st = "failed"] ELSE call[o]]
  /\ exec' = Abandoned
  /\ GuestDestroyed("none")
  /\ UNCHANGED <<vol, seed, imp, head, executed>>

-----------------------------------------------------------------------------
(* Broker and provider: materialise the activation, then attach. *)

rest == <<turn, call, seed, imp, head>>
Failing == [o \in Ops |-> IF exec[o] = "waiting" THEN "failed" ELSE exec[o]]

(* exec: the first Tool call of an assignment creates a guest or rebinds the *)
(* idle one it inherited; an activation in state unknown executes nothing.   *)
BrokerExec(o) ==
  /\ call[o].st = "asked" /\ exec[o] = "none"
  /\ exec' = [exec EXCEPT ![o] = IF prov.st \in {"unmade", "lost"} THEN "failed" ELSE "waiting"]
  /\ prov' = CASE prov.st = "none" -> [prov EXCEPT !.st = "preparing"]
               [] prov.st = "idle" /\ prov.turn # turn.n -> [prov EXCEPT !.st = "rebinding"]
               [] OTHER -> prov
  /\ UNCHANGED <<rest, guestVm, wk, reqs, vol, executed, cubeFaults>>

(* A create that fails leaves no guest, and on the Volume what it had done.  *)
CubeCreateFails ==
  /\ GuestDestroyed("unmade")
  /\ exec' = Failing
  /\ UNCHANGED <<rest, executed>>

(* prepare: a bound Volume is attached, a pristine one gets a generation and *)
(* then a state file; half of the two is an invalid binding.                 *)
PrepareVolume ==
  LET v == vol["source"] IN
  /\ prov.st = "preparing"
  /\ \/ /\ v.gen # 0 /\ v.state = v.gen
        /\ prov' = [prov EXCEPT !.st = "booting", !.attached = TRUE]
        /\ UNCHANGED <<rest, exec, guestVm, wk, reqs, vol, executed, cubeFaults>>
     \/ /\ v.gen = 0 /\ v.state = 0
        /\ vol' = [vol EXCEPT !["source"].dir = TRUE, !["source"].gen = 1]
        /\ prov' = [prov EXCEPT !.st = "binding"]
        /\ UNCHANGED <<rest, exec, guestVm, wk, reqs, executed, cubeFaults>>
     \/ /\ v.gen # v.state
        /\ CubeCreateFails /\ UNCHANGED <<vol, cubeFaults>>

WriteState ==
  /\ prov.st = "binding"
  /\ \/ /\ vol' = [vol EXCEPT !["source"].state = vol["source"].gen]
        /\ prov' = [prov EXCEPT !.st = "booting"]
        /\ UNCHANGED <<rest, exec, guestVm, wk, reqs, executed, cubeFaults>>
     \/ Fault /\ CubeCreateFails /\ UNCHANGED vol

Boot ==
  /\ prov.st = "booting"
  /\ \/ /\ guestVm' = [NoGuest EXCEPT !.up = TRUE, !.bridge = TRUE]
        /\ prov' = [prov EXCEPT !.st = "initializing"]
        /\ UNCHANGED <<rest, exec, wk, reqs, vol, executed, cubeFaults>>
     \/ Fault /\ CubeCreateFails /\ UNCHANGED vol

(* worker.initialize: an attached Volume is only looked at, a new one is     *)
(* empty and receives seed and recipe.  The guest takes its authority last.  *)
InitializeGuest ==
  /\ prov.st = "initializing"
  /\ \/ /\ prov.attached \/ vol["source"].files = {}
        /\ guestVm' = [guestVm EXCEPT !.auth = <<turn.n, 0>>, !.ready = TRUE]
        /\ vol' = IF prov.attached THEN vol ELSE [vol EXCEPT !["source"].files = {Seed}]
        /\ prov' = [prov EXCEPT !.st = IF prov.attached THEN "created" ELSE "baseline",
                                !.auth = <<turn.n, 0>>]
        /\ UNCHANGED <<rest, exec, wk, reqs, executed, cubeFaults>>
     \/ /\ Fault /\ CubeCreateFails
        /\ \/ UNCHANGED vol
           \/ ~prov.attached /\ vol' = [vol EXCEPT !["source"].files = {Part}]

InitializeBaseline ==
  /\ prov.st = "baseline"
  /\ \/ /\ vol' = [vol EXCEPT !["source"].base = TRUE]
        /\ prov' = [prov EXCEPT !.st = "created"]
        /\ UNCHANGED <<rest, exec, guestVm, wk, reqs, executed, cubeFaults>>
     \/ Fault /\ CubeCreateFails /\ UNCHANGED vol

Created ==
  /\ prov.st = "created"
  /\ prov' = [prov EXCEPT !.st = "running", !.turn = turn.n]
  /\ UNCHANGED <<rest, exec, guestVm, wk, reqs, vol, executed, cubeFaults>>

(* rebind: the sealed guest takes the next epoch and a new Tool Worker with  *)
(* an empty ledger.  On failure the guest is destroyed: a Tool call that     *)
(* waits creates another one, a fork has lost its parent's.                  *)
Rebind ==
  /\ prov.st = "rebinding"
  /\ LET next == <<prov.auth[1] + 1, 0>> IN
     \/ /\ guestVm.auth = prov.auth /\ guestVm.sealed /\ ~guestVm.bridge /\ guestVm.job = "none"
        /\ guestVm' = [guestVm EXCEPT !.auth = next, !.bridge = TRUE, !.sealed = FALSE]
        /\ prov' = [prov EXCEPT !.st = "running", !.auth = next, !.turn = turn.n, !.why = "settle"]
        /\ wk' = NoWorker
        /\ UNCHANGED <<rest, exec, reqs, vol, executed, cubeFaults>>
     \/ /\ Fault
        /\ GuestDestroyed(IF prov.why = "fork" THEN "lost" ELSE "preparing")
        /\ exec' = Broken
        /\ UNCHANGED <<rest, vol, executed>>

(* exec in the provider: the handle must still be that of the assignment    *)
(* the operation was asked under; then the first request is sent.            *)
Attach(o) ==
  /\ exec[o] = "waiting" /\ prov.st \in Restful
  /\ IF prov.turn = call[o].turn /\ prov.st \in {"running", "idle"}
     THEN /\ exec' = [exec EXCEPT ![o] = "attach1"]
          /\ reqs' = reqs \cup {[op |-> o, auth |-> prov.auth, try |-> 1, at |-> "sent"]}
     ELSE exec' = [exec EXCEPT ![o] = "failed"] /\ UNCHANGED reqs
  /\ UNCHANGED <<rest, prov, guestVm, wk, vol, executed, cubeFaults>>

Attaching(q) == exec[q.op] = IF q.try = 1 THEN "attach1" ELSE "attach2"

(* One request more with the same operationId; after that the result is     *)
(* unknown and the guest is destroyed, whatever still runs in it.            *)
AttachError(o, pending) ==
  \/ /\ exec[o] = "attach1"
     /\ exec' = [exec EXCEPT ![o] = "attach2"]
     /\ reqs' = pending \cup {[op |-> o, auth |-> prov.auth, try |-> 2, at |-> "sent"]}
     /\ UNCHANGED <<prov, guestVm, wk>>
  \/ /\ exec[o] = "attach2"
     /\ exec' = Broken
     /\ GuestDestroyed("lost")

(* The provider stops waiting for an answer.  A request that is still under  *)
(* way may be lost, and it may arrive later.                                 *)
AttachBreaks(q) ==
  /\ q \in reqs /\ Attaching(q) /\ Fault
  /\ \/ AttachError(q.op, reqs \ {q})
     \/ q.at = "sent" /\ AttachError(q.op, reqs)
  /\ UNCHANGED <<rest, vol, executed>>

-----------------------------------------------------------------------------
(* The guest: operations. *)

(* A refused request is an error to whoever still waits for it.              *)
Refuse(q) ==
  /\ IF Attaching(q) THEN AttachError(q.op, reqs \ {q})
     ELSE reqs' = reqs \ {q} /\ UNCHANGED <<exec, prov, guestVm, wk>>
  /\ UNCHANGED <<rest, vol, executed, cubeFaults>>

(* requireAuthority and readyBridge.                                         *)
Admitted(q) == q.auth = guestVm.auth /\ ~guestVm.sealed /\ guestVm.bridge /\ guestVm.ready

(* A known operation is joined; a new one goes to the Tool Worker, which     *)
(* refuses it while another runs or when it has run it before.               *)
Join(q) ==
  IF wk.ledger[q.op] # "none" THEN UNCHANGED <<wk, executed, vol>>
  ELSE IF wk.active # Nobody \/ q.op \in wk.seen
  THEN wk' = [wk EXCEPT !.ledger[q.op] = "refused"] /\ UNCHANGED <<executed, vol>>
  ELSE /\ wk' = [wk EXCEPT !.active = q.op, !.seen = @ \cup {q.op}, !.ledger[q.op] = "open",
                           !.runs[q.op] = @ + 1]
       /\ executed' = [executed EXCEPT ![q.op] = @ + 1]
       /\ vol' = [vol EXCEPT !["source"].files = @ \cup {q.op}]

Operation(q) ==
  /\ q \in reqs /\ q.at = "sent" /\ guestVm.up
  /\ \/ ~Admitted(q) /\ Refuse(q)
     \/ /\ Admitted(q)
        /\ Join(q)
        /\ reqs' = (reqs \ {q}) \cup (IF Attaching(q) THEN {[q EXCEPT !.at = "joined"]} ELSE {})
        /\ UNCHANGED <<rest, exec, prov, guestVm, cubeFaults>>

(* The operation ends; a shell command may leave a process behind.           *)
FinishOperation(o) ==
  /\ wk.active = o
  /\ wk' = [wk EXCEPT !.active = Nobody, !.ledger[o] = "done"]
  /\ \/ UNCHANGED guestVm
     \/ guestVm.bg = "none" /\ ~guestVm.escaped /\ guestVm' = [guestVm EXCEPT !.bg = "running"]
  /\ UNCHANGED <<rest, exec, prov, reqs, vol, executed, cubeFaults>>

Answer(q) ==
  /\ q \in reqs /\ q.at = "joined" /\ wk.ledger[q.op] \in {"done", "refused"}
  /\ reqs' = reqs \ {q}
  /\ exec' = IF Attaching(q)
             THEN [exec EXCEPT ![q.op] = IF wk.ledger[q.op] = "done" THEN "ok" ELSE "failed"]
             ELSE exec
  /\ UNCHANGED <<rest, prov, guestVm, wk, vol, executed, cubeFaults>>

(* The ledger keeps a result for thirty seconds.                             *)
LedgerForgets(o) ==
  /\ wk.ledger[o] \in {"done", "refused"}
  /\ \A q \in reqs : q.op = o => q.at = "sent"
  /\ wk' = [wk EXCEPT !.ledger[o] = "none"]
  /\ UNCHANGED <<rest, exec, prov, guestVm, reqs, vol, executed, cubeFaults>>

(* What was left behind goes on writing, and ends when it likes.             *)
BackgroundWrites ==
  /\ guestVm.bg = "running" \/ guestVm.escaped
  /\ Late \notin vol["source"].files
  /\ vol' = [vol EXCEPT !["source"].files = @ \cup {Late}]
  /\ UNCHANGED <<rest, exec, prov, guestVm, wk, reqs, executed, cubeFaults>>

BackgroundEnds ==
  /\ guestVm.bg = "running" /\ guestVm.job = "none"
  /\ guestVm' = [guestVm EXCEPT !.bg = "none"]
  /\ UNCHANGED <<rest, exec, prov, wk, reqs, vol, executed, cubeFaults>>

-----------------------------------------------------------------------------
(* Capture and fork. *)

(* onSettled captures the guest of this Turn; an execution Pi has given up   *)
(* on may still be running in it.                                            *)
BeginCapture ==
  /\ turn.phase = "running" /\ NothingAsked
  /\ prov.turn = turn.n /\ prov.st \in {"running", "idle"}
  /\ prov' = [prov EXCEPT !.st = "checkpoint", !.why = "settle"]
  /\ UNCHANGED <<rest, exec, guestVm, wk, reqs, vol, executed, cubeFaults>>

(* A Tool call of the parent forks the Workspace for an isolated child, and  *)
(* may be repeated; the Broker admits it when it executes nothing else.      *)
BeginVolumeFork ==
  /\ turn.phase = "running" /\ NothingAsked /\ Pending = {}
  /\ prov.turn = turn.n /\ prov.st = "running"
  /\ IF vol["target"].gen = 0 THEN UNCHANGED cubeFaults ELSE Fault
  /\ prov' = [prov EXCEPT !.st = "checkpoint", !.why = "fork"]
  /\ UNCHANGED <<rest, exec, guestVm, wk, reqs, vol, executed>>

(* A capture that failed fails the Turn; a fork that failed is an answer to  *)
(* the parent, whose activation goes on as it is.                            *)
CaptureFailed(st) ==
  /\ prov' = [prov EXCEPT !.st = st, !.why = "settle"]
  /\ turn' = IF prov.why = "settle" THEN [turn EXCEPT !.phase = "failed"] ELSE turn

Busy == \E o \in Ops : wk.ledger[o] = "open"

(* closeToolWorker: sealed before anything else is awaited.                  *)
CloseToolWorker ==
  /\ prov.st = "checkpoint" /\ guestVm.job # "freezing"
  /\ \/ /\ guestVm.auth = prov.auth /\ ~guestVm.sealed /\ guestVm.bridge /\ ~Busy
        /\ guestVm' = [guestVm EXCEPT !.sealed = TRUE, !.bridge = FALSE, !.job = "freezing"]
        /\ wk' = NoWorker
        /\ UNCHANGED <<turn, prov>>
     \/ /\ guestVm.auth # prov.auth \/ guestVm.sealed \/ ~guestVm.bridge \/ Busy
        /\ CaptureFailed("running")
        /\ UNCHANGED <<guestVm, wk>>
  /\ UNCHANGED <<call, exec, reqs, vol, seed, imp, head, executed, cubeFaults>>

FrozenInName == [guestVm EXCEPT !.job = "frozen", !.auth[2] = 1]
Frozen == [guestVm EXCEPT !.job = "frozen", !.auth[2] = 1,
                     !.bg = IF guestVm.bg = "running" THEN "stopped" ELSE guestVm.bg]

(* freezeToolProcesses lists the processes once, stops them and waits until  *)
(* every one of them is stopped.  One that ended meanwhile never is; one     *)
(* that was started meanwhile is not on the list.                            *)
Freeze ==
  /\ prov.st = "checkpoint" /\ guestVm.job = "freezing"
  /\ \/ /\ guestVm' = Frozen
        /\ prov' = [prov EXCEPT !.st = "quiesced", !.auth[2] = 1]
        /\ UNCHANGED <<turn, cubeFaults>>
     \/ /\ guestVm.bg = "running" /\ Fault
        /\ guestVm' = [Frozen EXCEPT !.escaped = TRUE]
        /\ prov' = [prov EXCEPT !.st = "quiesced", !.auth[2] = 1]
        /\ UNCHANGED turn
     \/ /\ guestVm.bg = "running"
        /\ guestVm' = [guestVm EXCEPT !.job = "none", !.bg = "none"]
        /\ CaptureFailed("running")
        /\ UNCHANGED cubeFaults
     \/ /\ Fault
        /\ guestVm' = Frozen
        /\ CaptureFailed("running")
  /\ UNCHANGED <<call, exec, wk, reqs, vol, seed, imp, head, executed>>

(* The gateway reads the Volume while the guest is frozen; a Volume without  *)
(* a Git baseline has no patch.                                              *)
VolumeSnapshot ==
  /\ prov.st = "quiesced"
  /\ \/ /\ vol["source"].base /\ vol["source"].state = vol["source"].gen
        /\ prov' = [prov EXCEPT !.st = "completing", !.ref = Revision("source")]
        /\ UNCHANGED cubeFaults
     \/ /\ ~vol["source"].base
        /\ prov' = [prov EXCEPT !.st = "recovering"]
        /\ UNCHANGED cubeFaults
     \/ /\ Fault
        /\ prov' = [prov EXCEPT !.st = "recovering"]
  /\ UNCHANGED <<rest, exec, guestVm, wk, reqs, vol, executed>>

Resumed == [guestVm EXCEPT !.job = "none", !.bg = IF guestVm.bg = "stopped" THEN "running" ELSE guestVm.bg]

(* checkpoint/complete.  When its answer is lost the provider asks again.    *)
CompleteCheckpoint ==
  /\ prov.st = "completing" /\ guestVm.job = "frozen"
  /\ \/ /\ guestVm' = Resumed
        /\ IF prov.why = "settle"
           THEN /\ prov' = [prov EXCEPT !.st = "idle"]
                /\ turn' = [turn EXCEPT !.phase = "captured", !.ref = prov.ref]
           ELSE prov' = [prov EXCEPT !.st = "forking"] /\ UNCHANGED turn
        /\ UNCHANGED cubeFaults
     \/ /\ Fault
        /\ guestVm' \in {guestVm, Resumed}
        /\ prov' = [prov EXCEPT !.st = "recovering"]
        /\ UNCHANGED turn
  /\ UNCHANGED <<call, exec, wk, reqs, vol, seed, imp, head, executed>>

(* The capture has failed: resume the guest, or destroy it when it says that *)
(* nothing is frozen.                                                        *)
RecoverCheckpoint ==
  /\ prov.st = "recovering"
  /\ \/ /\ guestVm.job = "frozen"
        /\ guestVm' = Resumed
        /\ CaptureFailed("idle")
        /\ UNCHANGED <<exec, wk, reqs>>
     \/ /\ guestVm.job # "frozen"
        /\ GuestDestroyed("lost")
        /\ exec' = Broken
        /\ turn' = IF prov.why = "settle" THEN [turn EXCEPT !.phase = "failed"] ELSE turn
  /\ UNCHANGED <<call, vol, seed, imp, head, executed, cubeFaults>>

(* volume.fork: the source must still be at the captured revision.  A target *)
(* that was forked from it already is the answer to a repeated request.      *)
ForkIndex ==
  /\ prov.st = "forking"
  /\ prov' = [prov EXCEPT !.st = IF vol["target"].gen = 0 /\ Revision("source") = prov.ref
                                 THEN "copying" ELSE "rebinding"]
  /\ UNCHANGED <<rest, exec, guestVm, wk, reqs, vol, executed, cubeFaults>>

(* The copy takes the target's place only when it equals the index that was  *)
(* read before it.  A crash before that leaves the target as it was.         *)
ForkCopy ==
  /\ prov.st = "copying"
  /\ \/ /\ vol["source"].files = prov.ref.files
        /\ vol' = [vol EXCEPT !["target"] = [vol["source"] EXCEPT !.gen = 2, !.state = 2,
                                                                !.from = prov.ref]]
        /\ UNCHANGED cubeFaults
     \/ vol["source"].files # prov.ref.files /\ UNCHANGED <<vol, cubeFaults>>
     \/ Fault /\ UNCHANGED vol
  /\ prov' = [prov EXCEPT !.st = "rebinding"]
  /\ UNCHANGED <<rest, exec, guestVm, wk, reqs, executed>>

-----------------------------------------------------------------------------
Quiet == turn.phase = "off" /\ turn.n = MaxTurns

CubeNext ==
  \/ \E w \in Workers :
       \/ StartTurn(w) \/ ResolveReady(w) \/ ClaimImport(w) \/ StoreObject(w)
       \/ Publish(w) \/ ImportFails(w) \/ TakeOver(w)
  \/ ImportLeaseLapses \/ ReserveOperation \/ SettleUnused \/ SettleLost
  \/ Save \/ SaveFails \/ KeepWarm \/ StopGuest \/ Abort
  \/ \E o \in Ops :
       \/ AskTool(o) \/ PiAnswered(o) \/ PiTransportFails(o) \/ BrokerExec(o)
       \/ Attach(o) \/ FinishOperation(o) \/ LedgerForgets(o)
  \/ \E q \in reqs : AttachBreaks(q) \/ Operation(q) \/ Answer(q)
  \/ PrepareVolume \/ WriteState \/ Boot \/ InitializeGuest \/ InitializeBaseline
  \/ Created \/ Rebind \/ BackgroundWrites \/ BackgroundEnds
  \/ BeginCapture \/ BeginVolumeFork \/ CloseToolWorker \/ Freeze \/ VolumeSnapshot
  \/ CompleteCheckpoint \/ RecoverCheckpoint \/ ForkIndex \/ ForkCopy
  \/ Quiet /\ UNCHANGED workspaceVars

CubeSpec == CubeInit /\ [][CubeNext]_workspaceVars

-----------------------------------------------------------------------------
(* Properties. *)

Files == Ops \cup {Seed, Part, Late}
Revisions == [gen : 0..2, files : SUBSET Files]

(* The state of turn, calls, guest, Volumes and seed has the types that     *)
(* provider, guest service, gateway and importer give it.                    *)
CubeTypeOK ==
  /\ turn \in [n : 0..MaxTurns, worker : Workers \cup {Nobody},
                phase : {"off", "seeding", "seeded", "running", "captured", "saved", "failed"},
                base : Revisions, ref : Revisions]
  /\ call \in [Ops -> [st : {"new", "asked", "ok", "failed"}, tries : 0..2, turn : 0..MaxTurns]]
  /\ exec \in [Ops -> {"none", "waiting", "attach1", "attach2", "ok", "failed"}]
  /\ prov.st \in Restful \cup {"preparing", "binding", "booting", "initializing", "baseline", "created",
                               "rebinding", "checkpoint", "quiesced", "completing", "recovering",
                               "forking", "copying"}
  /\ prov.why \in {"settle", "fork"} /\ prov.turn \in 0..MaxTurns /\ prov.ref \in Revisions
  /\ guestVm.job \in {"none", "freezing", "frozen"} /\ guestVm.bg \in {"none", "running", "stopped"}
  /\ wk \in [active : Ops \cup {Nobody}, seen : SUBSET Ops,
              ledger : [Ops -> {"none", "open", "done", "refused"}], runs : [Ops -> Nat]]
  /\ vol \in [Volumes -> [dir : BOOLEAN, gen : 0..2, state : 0..2, base : BOOLEAN,
                           files : SUBSET Files, from : Revisions]]
  /\ seed \in [status : {"pending", "importing", "failed", "ready"}, lease : Workers \cup {Nobody},
                expired : BOOLEAN, stored : BOOLEAN]
  /\ imp \in [Workers -> {"idle", "importing", "stored"}]
  /\ head \in Revisions /\ cubeFaults \in 0..MaxCubeFaults

(* Retries at two hops, late requests and a ledger that forgets never make  *)
(* one Tool Worker run an operation twice.                                   *)
OncePerWorker == \A o \in Ops : wk.runs[o] <= 1

(* The revision PostgreSQL holds contains the seed and every operation that  *)
(* Pi saw succeed in a saved Turn, through warm rebinds, cold restarts and   *)
(* creates that failed half way.                                             *)
EffectsReachHead ==
  head # NoRevision =>
    /\ Seed \in head.files /\ Part \notin head.files
    /\ turn.phase = "saved" /\ prov.turn = turn.n =>
         {o \in Ops : call[o].st = "ok"} \subseteq head.files

(* Between the capture of a revision and the completion of the checkpoint    *)
(* nobody changes the Volume, but for a process the freeze missed.           *)
CaptureQuiet ==
  prov.st = "completing" /\ ~guestVm.escaped => prov.ref = Revision("source")

(* A guest that takes operations is not frozen, and its processes run.       *)
ResumedWhenInUse == prov.st \in {"idle", "rebinding", "forking", "copying"} => guestVm.job = "none" /\ guestVm.bg # "stopped"

(* A forked Volume is the whole revision it says it was forked from, bound   *)
(* to a generation of its own.                                               *)
ForkWhole ==
  LET t == vol["target"] IN
  t.gen # 0 => /\ t.state = t.gen /\ t.gen # vol["source"].gen /\ t.base
               /\ t.files = t.from.files /\ Seed \in t.files

(* The guest and its Volume: an operation runs once, what the model saw     *)
(* succeed is in the captured revision, a capture is of a still Volume, and *)
(* the guest and the fork that come out of it are whole.                    *)
VolumeSound ==
  /\ CubeTypeOK /\ OncePerWorker /\ EffectsReachHead
  /\ CaptureQuiet /\ ResumedWhenInUse /\ ForkWhole
=============================================================================
