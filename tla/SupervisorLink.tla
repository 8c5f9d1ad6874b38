--------------------------- MODULE SupervisorLink ---------------------------
(***************************************************************************)
(* The Worker control channel: how a Pi Worker host boots, gets its        *)
(* Sandbox identity and credential from the Control Plane, keeps one       *)
(* WebSocket connection registered and alive, and how the Control Plane    *)
(* fences a boot that is silent or replaced and retires it only after the  *)
(* host has confirmed that it stopped.                                     *)
(*                                                                         *)
(* One Supervisor identity (a StatefulSet pod) whose processes run one     *)
(* after another, each with a fresh boot and Sandbox identity; several     *)
(* Control Plane replicas share the database.  Boots and sockets are       *)
(* numbered in the order in which they appear.                             *)
(***************************************************************************)
EXTENDS Naturals, Sequences, FiniteSets, SequencesExt

CONSTANTS Replicas,     \* Control Plane processes
          MaxBoots,     \* bound: boots of the host
          MaxSockets,   \* bound: sockets the host opens
          MaxHistory,   \* generations the boot ledger remembers (MAX_HISTORY)
          MaxFaults     \* bound: crashes, restarts and lapses together

Nobody == "nobody"

ASSUME LinkAssumption ==
  /\ Replicas # {} /\ Nobody \notin Replicas
  /\ MaxBoots \in Nat \ {0}
  /\ MaxSockets \in Nat \ {0}
  /\ MaxHistory \in Nat
  /\ MaxFaults \in Nat

Boots == 1 .. MaxBoots
Sockets == 1 .. MaxSockets

VARIABLES
  host,         \* the Worker process: boot, phase, control-channel client, Runs
  ledger,       \* the boot ledger on the host's own volume
  sandboxes,    \* boot -> state of its sandboxes row
  credentials,  \* boot -> its supervisor_boot_credentials row
  connections,  \* socket -> its supervisor_connections row
  sockets,      \* socket -> the two ends of the WebSocket
  retirements,  \* boot -> its sandbox_retirements row
  maintenance,  \* replica -> the retirement it is working on
  faults        \* faults injected so far

linkVars == <<host, ledger, sandboxes, credentials, connections, sockets,
          retirements, maintenance, faults>>

control == <<sandboxes, credentials, connections, retirements>>

-----------------------------------------------------------------------------
(* The rows and records of the four parties. *)

CredentialState == {"none", "valid", "revoked", "expired"}

SandboxState == {"none", "provisioning", "ready", "failed", "terminated"}

HostRecord ==
  [boot : 0 .. MaxBoots,
   phase : {"down", "booting", "running", "draining", "stopping", "stopped", "failed"},
   link : {"idle", "connecting", "connected", "closed"},
   socket : 0 .. MaxSockets,
   beat : BOOLEAN,
   runs : {"none", "active", "revoked"}]

HostDown(b) == [boot |-> b, phase |-> "down", link |-> "idle", socket |-> 0,
                beat |-> FALSE, runs |-> "none"]

LedgerRecord == [current : 0 .. MaxBoots, status : {"none", "active", "stopped"},
                 history : SUBSET Boots]

ConnectionRow == [state : {"none", "active", "superseded", "fenced"}, fresh : BOOLEAN]

NoConnection == [state |-> "none", fresh |-> FALSE]

(* What the Control Plane sends: answers, and why it closes the socket.      *)
Frames == {"registered", "ack", "retry", "reject"}

SocketContext ==
  [boot : 0 .. MaxBoots,
   replica : Replicas \cup {Nobody},
   ctx : {"none", "open", "registered", "closed"},
   open : BOOLEAN,                                \* the client still holds its end
   frame : {"none", "register", "heartbeat"},     \* frame on its way or in process
   down : Seq(Frames)]

NoSocket == [boot |-> 0, replica |-> Nobody, ctx |-> "none", open |-> FALSE,
             frame |-> "none", down |-> <<>>]

(* The CHECK of the table: a claim has an owner and a deadline, nothing else *)
(* has either.                                                               *)
RetirementRow ==
  {row \in [state : {"none", "pending", "claimed", "completed", "blocked"},
            owner : Replicas \cup {Nobody}, fresh : BOOLEAN] :
     IF row.state = "claimed" THEN row.owner # Nobody
     ELSE row.owner = Nobody /\ ~row.fresh}

NoRetirement == [state |-> "none", owner |-> Nobody, fresh |-> FALSE]
Pending == [state |-> "pending", owner |-> Nobody, fresh |-> FALSE]

Idle == [step |-> "idle", boot |-> 0]

LinkInit ==
  /\ host = HostDown(0)
  /\ ledger = [current |-> 0, status |-> "none", history |-> {}]
  /\ sandboxes = [b \in Boots |-> "none"]
  /\ credentials = [b \in Boots |-> "none"]
  /\ connections = [t \in Sockets |-> NoConnection]
  /\ sockets = [t \in Sockets |-> NoSocket]
  /\ retirements = [b \in Boots |-> NoRetirement]
  /\ maintenance = [r \in Replicas |-> Idle]
  /\ faults = 0

Fault == faults < MaxFaults /\ faults' = faults + 1

-----------------------------------------------------------------------------
(* The boot ledger: a boot that begins turns its predecessor into history. *)

Known(b) == b = ledger.current \/ b \in ledger.history

LastGenerations(H) == {b \in H : Cardinality({c \in H : c > b}) < MaxHistory}

(* The host process starts under a fresh boot and Sandbox identity.          *)
BeginBoot ==
  /\ host.phase = "down" /\ host.boot < MaxBoots
  /\ host' = [HostDown(host.boot + 1) EXCEPT !.phase = "booting"]
  /\ ledger' = [current |-> host.boot + 1, status |-> "active",
                history |-> IF ledger.current = 0 THEN {}
                            ELSE LastGenerations(ledger.history \cup {ledger.current})]
  /\ UNCHANGED <<control, sockets, maintenance, faults>>

(* The provisioning transaction inserts the Sandbox of the boot, revokes     *)
(* every older credential of the Supervisor and issues one for this boot.    *)
Provision ==
  /\ host.phase = "booting"
  /\ sandboxes[host.boot] = "none"
  /\ sandboxes' = [sandboxes EXCEPT ![host.boot] = "provisioning"]
  /\ credentials' = [b \in Boots |->
                       IF b = host.boot THEN "valid"
                       ELSE IF credentials[b] = "valid" THEN "revoked" ELSE credentials[b]]
  /\ host' = [host EXCEPT !.phase = "running"]
  /\ UNCHANGED <<ledger, connections, sockets, retirements, maintenance, faults>>

(* Provisioning is refused, or its answer is lost after the commit: the      *)
(* start of the host fails.                                                  *)
ProvisionFails ==
  /\ host.phase = "booting" /\ Fault
  /\ \/ /\ sandboxes[host.boot] = "none"
        /\ sandboxes' = [sandboxes EXCEPT ![host.boot] = "provisioning"]
        /\ credentials' = [b \in Boots |->
                             IF b = host.boot THEN "valid"
                             ELSE IF credentials[b] = "valid" THEN "revoked" ELSE credentials[b]]
     \/ UNCHANGED <<sandboxes, credentials>>
  /\ host' = [HostDown(host.boot) EXCEPT !.phase = "failed"]
  /\ UNCHANGED <<ledger, connections, sockets, retirements, maintenance>>

-----------------------------------------------------------------------------
(* The control-channel client of the host. *)

CanClaimRuns == host.phase = "running" /\ host.link = "connected"

LetGo(sock, t) == IF t = 0 THEN sock ELSE [sock EXCEPT ![t].open = FALSE, ![t].down = <<>>]

Revoked(r) == IF r = "none" THEN "none" ELSE "revoked"

(* One turn of the reconnect loop: a new socket; the gateway of the replica  *)
(* it reaches authorizes the upgrade, and the registration is sent.  A       *)
(* credential that is revoked or expired is refused for good.                *)
OpenSocket(t, r) ==
  /\ host.phase \in {"running", "draining"} /\ host.link = "idle"
  /\ sockets[t] = NoSocket /\ \A u \in 1 .. t - 1 : sockets[u] # NoSocket
  /\ IF credentials[host.boot] = "valid"
     THEN /\ sockets' = [sockets EXCEPT ![t] =
                [NoSocket EXCEPT !.boot = host.boot, !.replica = r, !.ctx = "open",
                                 !.open = TRUE, !.frame = "register"]]
          /\ host' = [host EXCEPT !.link = "connecting", !.socket = t]
     ELSE /\ sockets' = [sockets EXCEPT ![t] =
                [NoSocket EXCEPT !.boot = host.boot, !.replica = r, !.ctx = "closed"]]
          /\ host' = [host EXCEPT !.link = "closed", !.runs = Revoked(@)]
  /\ UNCHANGED <<ledger, control, maintenance, faults>>

(* A timeout of the client or a lost network: a retryable failure, the Runs  *)
(* go on and the loop will open another socket.                              *)
LinkFails ==
  /\ host.link \in {"connecting", "connected"} /\ Fault
  /\ sockets' = LetGo(sockets, host.socket)
  /\ host' = [host EXCEPT !.link = "idle", !.socket = 0, !.beat = FALSE]
  /\ UNCHANGED <<ledger, control, maintenance>>

SendHeartbeat ==
  /\ host.link = "connected" /\ ~host.beat
  /\ sockets[host.socket].frame = "none"
  /\ sockets' = [sockets EXCEPT ![host.socket].frame = "heartbeat"]
  /\ host' = [host EXCEPT !.beat = TRUE]
  /\ UNCHANGED <<ledger, control, maintenance, faults>>

(* The next frame from the Control Plane, or the code its gateway closed the *)
(* socket with.                                                              *)
Received(frame) ==
  /\ host.link \in {"connecting", "connected"}
  /\ sockets[host.socket].down # <<>> /\ Head(sockets[host.socket].down) = frame

Read == [sockets EXCEPT ![host.socket].down = Tail(@)]

ReceiveRegistered ==
  /\ Received("registered") /\ host.link = "connecting"
  /\ host' = [host EXCEPT !.link = "connected"]
  /\ sockets' = Read
  /\ UNCHANGED <<ledger, control, maintenance, faults>>

AcceptHeartbeatAcknowledgement ==
  /\ Received("ack") /\ host.beat
  /\ host' = [host EXCEPT !.beat = FALSE]
  /\ sockets' = Read
  /\ UNCHANGED <<ledger, control, maintenance, faults>>

(* A retryable code: the Runs go on and the loop opens another socket.       *)
FinishCloseRetryable ==
  /\ Received("retry")
  /\ host' = [host EXCEPT !.link = "idle", !.socket = 0, !.beat = FALSE]
  /\ sockets' = LetGo(sockets, host.socket)
  /\ UNCHANGED <<ledger, control, maintenance, faults>>

(* Any other code is the end of this process: its assignments are revoked.   *)
FinishClosePermanent ==
  /\ Received("reject")
  /\ host' = [host EXCEPT !.link = "closed", !.socket = 0, !.beat = FALSE, !.runs = Revoked(@)]
  /\ sockets' = LetGo(sockets, host.socket)
  /\ UNCHANGED <<ledger, control, maintenance, faults>>

(* After a permanent close the client waits until the revoked assignments    *)
(* are torn down; then the process fails and is replaced.                    *)
TerminalFailure ==
  /\ host.phase = "running" /\ host.link = "closed" /\ host.runs = "none"
  /\ host' = [host EXCEPT !.phase = "failed"]
  /\ UNCHANGED <<ledger, control, sockets, maintenance, faults>>

ClaimRun ==
  /\ CanClaimRuns /\ host.runs = "none"
  /\ host' = [host EXCEPT !.runs = "active"]
  /\ UNCHANGED <<ledger, control, sockets, maintenance, faults>>

SettleRun ==
  /\ host.runs # "none"
  /\ host' = [host EXCEPT !.runs = "none"]
  /\ UNCHANGED <<ledger, control, sockets, maintenance, faults>>

(* A scale-in drains: the Runs go on, and so does the control channel.       *)
BeginDrain ==
  /\ host.phase = "running"
  /\ host' = [host EXCEPT !.phase = "draining"]
  /\ UNCHANGED <<ledger, control, sockets, maintenance, faults>>

(* The process ends when its Runs have drained, or it stopped or failed.     *)
Exit ==
  /\ \/ host.phase = "draining" /\ host.runs = "none"
     \/ host.phase \in {"stopped", "failed"}
  /\ sockets' = LetGo(sockets, host.socket)
  /\ host' = HostDown(host.boot)
  /\ UNCHANGED <<ledger, control, maintenance, faults>>

Crash ==
  /\ host.phase # "down" /\ Fault
  /\ sockets' = LetGo(sockets, host.socket)
  /\ host' = HostDown(host.boot)
  /\ UNCHANGED <<ledger, control, maintenance>>

-----------------------------------------------------------------------------
(* The WebSocket gateway and the connection manager of a replica. *)

Active(b) == {t \in Sockets : sockets[t].boot = b /\ connections[t].state = "active"}
History(b) == {t \in Sockets : sockets[t].boot = b /\ connections[t].state # "none"}

(* #fenceSandbox for every boot in B: the active connection is fenced, the   *)
(* Sandbox fails and a retirement is queued unless there is one already.     *)
FencedConnections(B) ==
  [t \in Sockets |-> IF sockets[t].boot \in B /\ connections[t].state = "active"
                     THEN [state |-> "fenced", fresh |-> FALSE] ELSE connections[t]]
FencedSandboxes(B) ==
  [b \in Boots |-> IF b \in B /\ sandboxes[b] \notin {"none", "terminated"}
                   THEN "failed" ELSE sandboxes[b]]
(* Mutant: only a Sandbox with an active connection is queued.               *)
FencedRetirementsIfConnected(B) ==
  [b \in Boots |-> IF b \in B /\ Active(b) # {} /\ retirements[b].state = "none"
                   THEN Pending ELSE retirements[b]]
FencedRetirements(B) ==
  [b \in Boots |-> IF /\ b \in B /\ sandboxes[b] \notin {"none", "terminated"}
                      /\ retirements[b].state = "none"
                   THEN Pending ELSE retirements[b]]

FenceSandboxes(B) ==
  /\ connections' = FencedConnections(B)
  /\ sandboxes' = FencedSandboxes(B)
  /\ retirements' = FencedRetirements(B)

(* #send to a peer that still holds its end.                                 *)
Told(context, frame) == IF context.open THEN Append(context.down, frame) ELSE context.down

(* #close: the context is finished and the peer is told why.                 *)
Closed(sock, T, code) ==
  [t \in Sockets |->
     IF t \notin T \/ sock[t].ctx \in {"none", "closed"} THEN sock[t]
     ELSE [sock[t] EXCEPT !.ctx = "closed", !.down = Told(sock[t], code)]]

(* The other end is gone: the gateway forgets the context.  A frame that it  *)
(* is processing is carried to its end all the same; one that it has not     *)
(* begun is dropped.                                                         *)
Cleanup(t) ==
  /\ ~sockets[t].open /\ sockets[t].ctx \in {"open", "registered"}
  /\ sockets' = [sockets EXCEPT ![t].ctx = "closed"]
  /\ UNCHANGED <<host, ledger, control, maintenance, faults>>

DropFrame(t) ==
  /\ sockets[t].ctx = "closed" /\ sockets[t].frame # "none"
  /\ sockets' = [sockets EXCEPT ![t].frame = "none"]
  /\ UNCHANGED <<host, ledger, control, maintenance, faults>>

Expired(b) == \E t \in Active(b) : ~connections[t].fresh

Registrable(b) ==
  /\ sandboxes[b] \in {"provisioning", "ready"}
  /\ sandboxes[b] = "provisioning" => History(b) = {}
  /\ sandboxes[b] = "ready" /\ Active(b) = {} => History(b) = {}
  /\ ~Expired(b)

(* register, accepted: every other generation is fenced, the connection that *)
(* was active is superseded, and on this replica its socket is closed.       *)
AcceptRegistration(t) ==
  LET b == sockets[t].boot
      others == {c \in Boots : c # b /\ sandboxes[c] \notin {"none", "terminated"}}
      fenced == FencedConnections(others)
      previous == {u \in Sockets : /\ u # t /\ sockets[u].boot = b
                                   /\ sockets[u].replica = sockets[t].replica
                                   /\ sockets[u].ctx = "registered"} IN
  /\ connections' = [u \in Sockets |->
                       IF u = t THEN [state |-> "active", fresh |-> TRUE]
                       ELSE IF u \in Active(b) THEN [state |-> "superseded", fresh |-> FALSE]
                       ELSE fenced[u]]
  /\ sandboxes' = [FencedSandboxes(others) EXCEPT ![b] = "ready"]
  /\ retirements' = FencedRetirements(others)
  /\ sockets' = [Closed(sockets, previous, "reject") EXCEPT ![t] =
                   IF sockets[t].ctx = "closed" THEN [@ EXCEPT !.frame = "none"]
                   ELSE [@ EXCEPT !.frame = "none", !.ctx = "registered",
                                  !.down = Told(sockets[t], "registered")]]

RefuseRegistration(t) ==
  LET b == sockets[t].boot IN
  /\ IF sandboxes[b] \in {"ready", "provisioning"} /\ Expired(b)
     THEN FenceSandboxes({b})
     ELSE UNCHANGED <<connections, sandboxes, retirements>>
  /\ sockets' = Closed([sockets EXCEPT ![t].frame = "none"], {t}, "reject")

Register(t) ==
  /\ sockets[t].frame = "register"
  /\ IF Registrable(sockets[t].boot) THEN AcceptRegistration(t) ELSE RefuseRegistration(t)
  /\ UNCHANGED <<host, ledger, credentials, maintenance, faults>>

(* heartbeat: only the connection that is active and not expired is renewed. *)
Current(t) == connections[t].state = "active" /\ connections[t].fresh

Heartbeat(t) ==
  /\ sockets[t].frame = "heartbeat"
  /\ IF Current(t)
     THEN sockets' = [sockets EXCEPT ![t].frame = "none",
                        ![t].down = IF sockets[t].ctx = "closed" THEN @ ELSE Told(sockets[t], "ack")]
     ELSE sockets' = Closed([sockets EXCEPT ![t].frame = "none"], {t}, "reject")
  /\ UNCHANGED <<host, ledger, control, maintenance, faults>>

(* The database fails under a frame: the socket is closed as retryable.      *)
FrameFails(t) ==
  /\ sockets[t].frame # "none" /\ Fault
  /\ sockets' = Closed([sockets EXCEPT ![t].frame = "none"], {t}, "retry")
  /\ UNCHANGED <<host, ledger, control, maintenance>>

(* The gateway's registration timer fires before the registration is done.   *)
RegistrationTimeout(t) ==
  /\ sockets[t].ctx = "open" /\ Fault
  /\ sockets' = Closed(sockets, {t}, "reject")
  /\ UNCHANGED <<host, ledger, control, maintenance>>

(* A replica restarts: its sockets close as retryable, the frames it was     *)
(* processing and the retirement it was working on are forgotten.            *)
ReplicaRestarts(r) ==
  LET mine == {t \in Sockets : sockets[t].replica = r} IN
  /\ Fault
  /\ sockets' = LET closed == Closed(sockets, mine, "retry") IN
                [t \in Sockets |-> IF t \in mine THEN [closed[t] EXCEPT !.frame = "none"]
                                   ELSE closed[t]]
  /\ maintenance' = [maintenance EXCEPT ![r] = Idle]
  /\ UNCHANGED <<host, ledger, control>>

(* The heartbeat timeout of an active connection passes; the sweep of some   *)
(* replica then fences its Sandbox.                                          *)
HeartbeatTimeout(t) ==
  /\ Current(t)
  /\ ~(host.link = "connected" /\ host.socket = t /\ host.phase # "down") \/ faults < MaxFaults
  /\ connections' = [connections EXCEPT ![t].fresh = FALSE]
  /\ faults' = IF host.link = "connected" /\ host.socket = t THEN faults + 1 ELSE faults
  /\ UNCHANGED <<host, ledger, sandboxes, credentials, sockets, retirements, maintenance>>

ExpireConnection(t) ==
  /\ connections[t].state = "active" /\ ~connections[t].fresh
  /\ FenceSandboxes({sockets[t].boot})
  /\ UNCHANGED <<host, ledger, credentials, sockets, maintenance, faults>>

CredentialExpires(b) ==
  /\ credentials[b] = "valid" /\ Fault
  /\ credentials' = [credentials EXCEPT ![b] = "expired"]
  /\ UNCHANGED <<host, ledger, sandboxes, connections, sockets, retirements, maintenance>>

-----------------------------------------------------------------------------
(* Retirement: claim, make the owner stop, renew, retire, complete. *)

Mine(r) == /\ retirements[maintenance[r].boot].state = "claimed"
           /\ retirements[maintenance[r].boot].owner = r

Proceed(r, step) == maintenance' = [maintenance EXCEPT ![r].step = step]
Finish(r) == maintenance' = [maintenance EXCEPT ![r] = Idle]

(* #failRetirementClaim: only the claim that is still ours is given back; a  *)
(* claim that was taken over makes the cycle throw, and nothing is written.  *)
FailRetirement(r, state) ==
  /\ retirements' = IF Mine(r)
                    THEN [retirements EXCEPT ![maintenance[r].boot] = [Pending EXCEPT !.state = state]]
                    ELSE retirements
  /\ Finish(r)

(* Mutant: a claim that ran out is not taken over.                           *)
ClaimPendingOnly(r, b) ==
  /\ maintenance[r] = Idle
  /\ retirements[b].state = "pending"
  /\ retirements' = [retirements EXCEPT ![b] = [state |-> "claimed", owner |-> r, fresh |-> TRUE]]
  /\ maintenance' = [maintenance EXCEPT ![r] = [step |-> "stop", boot |-> b]]
  /\ UNCHANGED <<host, ledger, sandboxes, credentials, connections, sockets, faults>>
ClaimRetirement(r, b) ==
  /\ maintenance[r] = Idle
  /\ \/ retirements[b].state = "pending"
     \/ retirements[b].state = "claimed" /\ ~retirements[b].fresh
  /\ retirements' = [retirements EXCEPT ![b] = [state |-> "claimed", owner |-> r, fresh |-> TRUE]]
  /\ maintenance' = [maintenance EXCEPT ![r] = [step |-> "stop", boot |-> b]]
  /\ UNCHANGED <<host, ledger, sandboxes, credentials, connections, sockets, faults>>

ClaimLapses(b) ==
  /\ retirements[b].state = "claimed" /\ retirements[b].fresh
  /\ IF maintenance[retirements[b].owner].boot = b THEN Fault ELSE UNCHANGED faults
  /\ retirements' = [retirements EXCEPT ![b].fresh = FALSE]
  /\ UNCHANGED <<host, ledger, sandboxes, credentials, connections, sockets, maintenance>>

(* owner.stop_and_confirm reaches the management server of the host.         *)
(* For the boot that is current and active the host revokes its Runs and     *)
(* closes its client, unless it is draining; an earlier generation is known  *)
(* to have ended; a generation the ledger does not know is an error.         *)
OwnsBoot(b) == host.phase # "down" /\ ledger.current = b /\ ledger.status = "active"

StopCurrentBoot ==
  IF host.phase \in {"draining", "stopped", "stopping"}
  THEN UNCHANGED <<host, sockets>>
  ELSE /\ host' = [host EXCEPT !.phase = "stopping", !.link = "closed", !.socket = 0,
                               !.beat = FALSE, !.runs = Revoked(@)]
       /\ sockets' = LetGo(sockets, host.socket)

StopOwner(r) ==
  LET b == maintenance[r].boot IN
  /\ maintenance[r].step = "stop" /\ host.phase # "down"
  /\ \/ /\ OwnsBoot(b) /\ StopCurrentBoot /\ Proceed(r, "confirm")
        /\ UNCHANGED retirements
     \/ /\ ~OwnsBoot(b) /\ Known(b) /\ Proceed(r, "renew")
        /\ UNCHANGED <<host, sockets, retirements>>
     \/ /\ ~Known(b) /\ FailRetirement(r, "blocked")
        /\ UNCHANGED <<host, sockets>>
  /\ UNCHANGED <<ledger, sandboxes, credentials, connections, faults>>

(* stopCurrentBoot of the host ends once its assignments have settled.       *)
StopSettles ==
  /\ host.phase = "stopping" /\ host.runs = "none"
  /\ host' = [host EXCEPT !.phase = "stopped"]
  /\ UNCHANGED <<ledger, control, sockets, maintenance, faults>>

(* markStopped, and the proof is on its way to the Control Plane.            *)
StopConfirmed(r) ==
  LET b == maintenance[r].boot IN
  /\ maintenance[r].step = "confirm" /\ host.phase \in {"stopped", "draining"} /\ host.boot = b
  /\ ledger' = [ledger EXCEPT !.status = "stopped"]
  /\ Proceed(r, "renew")
  /\ UNCHANGED <<host, sandboxes, credentials, connections, sockets, retirements, faults>>

(* The host cannot be reached, or does not answer in time.                   *)
StopUnavailable(r) ==
  /\ maintenance[r].step \in {"stop", "confirm"}
  /\ \/ host.phase \notin {"down", "stopped"} /\ Fault
     \/ host.phase = "down" /\ UNCHANGED faults
     \/ maintenance[r].step = "confirm" /\ host.boot # maintenance[r].boot /\ UNCHANGED faults
  /\ FailRetirement(r, "pending")
  /\ UNCHANGED <<host, ledger, sandboxes, credentials, connections, sockets>>

RenewRetirement(r) ==
  LET b == maintenance[r].boot IN
  /\ maintenance[r].step = "renew"
  /\ IF Mine(r) /\ retirements[b].fresh
     THEN Proceed(r, "retire") /\ UNCHANGED retirements
     ELSE FailRetirement(r, "blocked")
  /\ UNCHANGED <<host, ledger, sandboxes, credentials, connections, sockets, faults>>

(* retireSandbox: the assignment reconciler settles what the boot owned and  *)
(* terminates its Sandbox.                                                   *)
RetireSandbox(r) ==
  LET b == maintenance[r].boot IN
  /\ maintenance[r].step = "retire"
  /\ sandboxes' = [sandboxes EXCEPT ![b] = "terminated"]
  /\ Proceed(r, "complete")
  /\ UNCHANGED <<host, ledger, credentials, connections, sockets, retirements, faults>>

RetireFails(r) ==
  /\ maintenance[r].step = "retire" /\ Fault
  /\ FailRetirement(r, "pending")
  /\ UNCHANGED <<host, ledger, sandboxes, credentials, connections, sockets>>

CompleteRetirement(r) ==
  LET b == maintenance[r].boot IN
  /\ maintenance[r].step = "complete"
  /\ retirements' = IF Mine(r) /\ sandboxes[b] = "terminated"
                    THEN [retirements EXCEPT ![b] = [NoRetirement EXCEPT !.state = "completed"]]
                    ELSE retirements
  /\ Finish(r)
  /\ UNCHANGED <<host, ledger, sandboxes, credentials, connections, sockets, faults>>

-----------------------------------------------------------------------------
HostStep == \/ BeginBoot \/ Provision \/ ProvisionFails
            \/ \E t \in Sockets, r \in Replicas : OpenSocket(t, r)
            \/ LinkFails \/ SendHeartbeat \/ ReceiveRegistered
            \/ AcceptHeartbeatAcknowledgement \/ FinishCloseRetryable \/ FinishClosePermanent
            \/ TerminalFailure \/ ClaimRun \/ SettleRun \/ BeginDrain \/ Exit \/ Crash
            \/ StopSettles

GatewayStep == \E t \in Sockets :
  Cleanup(t) \/ DropFrame(t) \/ Register(t) \/ Heartbeat(t) \/ FrameFails(t)
    \/ RegistrationTimeout(t) \/ HeartbeatTimeout(t) \/ ExpireConnection(t)

RetirementStep == \E r \in Replicas :
  \/ \E b \in Boots : ClaimRetirement(r, b)
  \/ StopOwner(r) \/ StopConfirmed(r) \/ StopUnavailable(r) \/ RenewRetirement(r)
  \/ RetireSandbox(r) \/ RetireFails(r) \/ CompleteRetirement(r) \/ ReplicaRestarts(r)

LinkNext == \/ HostStep \/ GatewayStep \/ RetirementStep
        \/ \E b \in Boots : ClaimLapses(b) \/ CredentialExpires(b)

LinkSpec == LinkInit /\ [][LinkNext]_linkVars

-----------------------------------------------------------------------------
(* Properties. *)

LinkTypeOK ==
  /\ host \in HostRecord
  /\ ledger \in LedgerRecord
  /\ sandboxes \in [Boots -> SandboxState]
  /\ credentials \in [Boots -> CredentialState]
  /\ connections \in [Sockets -> ConnectionRow]
  /\ sockets \in [Sockets -> SocketContext]
  /\ retirements \in [Boots -> RetirementRow]
  /\ maintenance \in [Replicas -> [step : {"idle", "stop", "confirm", "renew", "retire", "complete"},
                                   boot : 0 .. MaxBoots]]
  /\ faults \in 0 .. MaxFaults

(* Whatever the order in which the replicas work off the registrations of    *)
(* several sockets and boots, one connection of the Supervisor is active at  *)
(* most, its Sandbox is ready, and no newer generation ever registered: an   *)
(* old process cannot take the Supervisor back (register).                   *)
OneOwner ==
  \A t \in Sockets : connections[t].state = "active" =>
    /\ sandboxes[sockets[t].boot] = "ready"
    /\ \A u \in Sockets \ {t} : connections[u].state # "none" =>
         connections[u].state # "active" /\ sockets[u].boot <= sockets[t].boot

(* A Sandbox that is failed is always queued for retirement, and only one    *)
(* that is terminated is taken off the queue: no fence is ever forgotten by  *)
(* a crash between the steps of a retirement (#fenceSandbox,                 *)
(* #completeRetirementClaim).                                                *)
FenceIsRetired ==
  \A b \in Boots :
    /\ sandboxes[b] = "failed" => retirements[b].state \in {"pending", "claimed", "blocked"}
    /\ sandboxes[b] = "terminated" => retirements[b].state # "none"
    /\ retirements[b].state = "completed" => sandboxes[b] = "terminated"

(* A Sandbox is terminated only after the process that owned it has ended or *)
(* has torn its Runs down; a process that was draining confirms while its    *)
(* Runs go on (stopCurrentBoot returns early), and is the one exception.     *)
RetiredOwnerStopped ==
  \A b \in Boots : sandboxes[b] = "terminated" /\ host.boot = b =>
    host.runs = "none" \/ host.phase = "draining"

(* A fenced generation is retired in the end, however often the replicas and *)
(* the host fail meanwhile, unless the host is down for good or a claim that *)
(* ran out at the wrong moment blocked the retirement.                       *)
FencedIsRetiredInTheEnd ==
  \A b \in Boots :
    []<>(\/ sandboxes[b] # "failed"
         \/ retirements[b].state = "blocked"
         \/ host.phase = "down" /\ host.boot = MaxBoots)

(* One generation of a host owns its Supervisor, and the generations before *)
(* it are stopped, then retired, and never forgotten.                       *)
OwnershipSound == LinkTypeOK /\ OneOwner /\ FenceIsRetired /\ RetiredOwnerStopped
=============================================================================
